-------------------------------- MODULE Owen --------------------------------
(***************************************************************************)
(* The Modbus lines of ThreadManager: the thread of each line, its readers *)
(* (the classes of owen.cpp) over one ModbusClass, the tables of devices   *)
(* and channels GuidClass::init reads, and the requests for channels that  *)
(* getInfoFromServer_thread and cmdline_thread file.                       *)
(*                                                                         *)
(* A line has one thread, so get_address and the reads of current_subguid  *)
(* after it are not interleaved (they are in module Polling); the flags of *)
(* hasNext matter to no one here, QueueReqFromServer_thread looks at no    *)
(* line of channels.  Time, the sensor interval and the rows once pushed   *)
(* are left out.                                                           *)
(***************************************************************************)
EXTENDS Integers, Sequences, FiniteSets

CONSTANTS
    Lines,      \* the lines in the order of Guid->init
    Tables,     \* the tables of each line in the database
    Roster,     \* the readers the thread of a line calls, in turn
    Sweeping,   \* lines whose thread asks hasNext before it reads
    Unknown,    \* a guid no table holds
    MaxAsked    \* guids named in the answers and lines of a behaviour

Line == {Lines[i] : i \in DOMAIN Lines}

ASSUME OwenAssumption ==
    /\ Sweeping \subseteq Line /\ MaxAsked \in Nat
    /\ DOMAIN Lines = 1..Len(Lines) /\ Len(Lines) \in Nat
    /\ \A l \in Line :
          /\ Len(Tables[l].main) \in Nat \ {0}
          /\ DOMAIN Tables[l].sub = 1..Len(Tables[l].sub) /\ Len(Tables[l].sub) \in Nat

VARIABLES
    mainPos, subPos,    \* main_it and sub_it: devices passed
    current,            \* device of current_guid
    currentSub,         \* device of current_subguid
    requests,           \* GuidQueueVector
    pc, turn, block,    \* a thread: its step, its reader, the block it reads
    bus,                \* whether the mutex of the ModbusClass is locked
    registers,          \* tab_rp_registers (a Sphera has its own): where they come from
    rows,               \* retData of the reader
    asked,              \* guids named so far
    named,              \* guids named in the last step, for reading (history)
    taken               \* requests taken, modulo the readers (history)

guidVars == <<mainPos, subPos, current, currentSub, requests, taken>>
threadVars == <<pc, turn, block, bus, registers, rows>>
vars == <<guidVars, threadVars, asked, named>>

-----------------------------------------------------------------------------
(* The tables: main holds a row of key, guid and address for each device,  *)
(* sub a row of key, guid and pin for each of its channels.                *)

(* The rows of a table with the key, or all of them, by their places.      *)
fromGuidTable(table, key) == {i \in DOMAIN table : key # "" => table[i].key = key}

Count(l) == Len(Tables[l].main)
ChannelRows(l, d) == fromGuidTable(Tables[l].sub, Tables[l].main[d].key)

(* qmap.insert: of two rows for one pin the later stays. *)
MapOf(table, places) ==
    LET last(pin) == CHOOSE i \in places :
                        /\ table[i].pin = pin
                        /\ \A j \in places : table[j].pin = pin => j <= i
    IN  [pin \in {table[i].pin : i \in places} |-> table[last(pin)].guid]

sub_guid ==
    [l \in Line |-> [d \in 1..Count(l) |-> MapOf(Tables[l].sub, ChannelRows(l, d))]]

(* find_guid: the first device, line by line, one of whose channels has    *)
(* the guid.                                                               *)
Holders(guid) ==
    UNION {{<<i, d>> : d \in {d \in 1..Count(Lines[i]) :
              \E pin \in DOMAIN sub_guid[Lines[i]][d] : sub_guid[Lines[i]][d][pin] = guid}}
            : i \in DOMAIN Lines}
Found(guid) == Holders(guid) # {}
find_guid(guid) ==
    CHOOSE h \in Holders(guid) :
        \A k \in Holders(guid) : h[1] < k[1] \/ (h[1] = k[1] /\ h[2] <= k[2])

AllGuid ==
    UNION {UNION {{Tables[l].sub[i].guid : i \in ChannelRows(l, d)} : d \in 1..Count(l)}
            : l \in Line}

(* addQueue: a device joins the queue of its line once for each list, at   *)
(* the first of its guids, a device being known by its row of the main     *)
(* table.  A guid no device has is passed over.                            *)
Row(h) == Tables[Lines[h[1]]].main[h[2]]
Joining(guids, l) ==
    {i \in DOMAIN guids :
        /\ Found(guids[i]) /\ Lines[find_guid(guids[i])[1]] = l
        /\ \A j \in 1..(i - 1) :
              Found(guids[j]) => Row(find_guid(guids[j])) # Row(find_guid(guids[i]))}
Nth(places, k) == CHOOSE i \in places : Cardinality({j \in places : j <= i}) = k
Enqueued(guids, l) ==
    LET mine == Joining(guids, l)
    IN  [k \in 1..Cardinality(mine) |-> find_guid(guids[Nth(mine, k)])[2]]

(* Variant: a line that has a request waiting gets no other.               *)
addQueueIfIdle(guids) ==
    requests' = [l \in Line |-> IF requests[l] = <<>> THEN Enqueued(guids, l) ELSE requests[l]]

addQueue(guids) == requests' = [l \in Line |-> requests[l] \o Enqueued(guids, l)]

-----------------------------------------------------------------------------
(* The readers: the blocks of registers each asks for, one after the       *)
(* other, and the pins it names the values of a block by; the readers from *)
(* 8AC on decode what they read and report nothing.                        *)
Block(start, nb, pins) == [start |-> start, nb |-> nb, pins |-> pins]
OwenClass_16D == <<Block(51, 1, 0..15), Block(64, 16, 16..31)>>
OwenClass_8A == <<Block(0, 44, 0..7)>>
Sphera_24CI == <<Block(0, 50, 0..23)>>
OwenClass_8AC == <<Block(256, 8, {})>>
OwenClass_KM == <<Block(19, 32, {})>>
OwenClass_SimDI == <<Block(0, 16, {})>>
OwenClass_SimAI == <<Block(0, 16, {})>>
OwenClass_NL_8R == <<Block(0, 8, {})>>

Blocks ==
    [OwenClass_16D |-> OwenClass_16D, OwenClass_8A |-> OwenClass_8A,
     Sphera_24CI |-> Sphera_24CI, OwenClass_8AC |-> OwenClass_8AC,
     OwenClass_KM |-> OwenClass_KM, OwenClass_SimDI |-> OwenClass_SimDI,
     OwenClass_SimAI |-> OwenClass_SimAI, OwenClass_NL_8R |-> OwenClass_NL_8R]

(* A thread calls some reader, and only readers there are.                 *)
ASSUME RosterAssumption == \A l \in Line : Roster[l] \in Seq(DOMAIN Blocks) \ {<<>>}

Reader(l) == Roster[l][turn[l]]
Asking(l) == Blocks[Reader(l)][block[l]]
Nowhere == [device |-> 0, start |-> 0, fresh |-> FALSE]

(* The rows made of a block: a channel for each pin the device has.        *)
RowsOf(l, from) ==
    {[guid |-> sub_guid[l][currentSub[l]][pin], pin |-> pin, from |-> from] :
        pin \in Asking(l).pins \cap DOMAIN sub_guid[l][currentSub[l]]}

Init ==
    /\ mainPos = [l \in Line |-> 0] /\ subPos = [l \in Line |-> 0]
    /\ current = [l \in Line |-> 0] /\ currentSub = [l \in Line |-> 0]
    /\ requests = [l \in Line |-> <<>>]
    /\ pc = [l \in Line |-> "rest"]
    /\ turn = [l \in Line |-> 1] /\ block = [l \in Line |-> 1]
    /\ bus = [l \in Line |-> FALSE]
    /\ registers = [l \in Line |-> Nowhere]
    /\ rows = [l \in Line |-> {}]
    /\ asked = 0 /\ named = {}
    /\ taken = [l \in Line |-> 0]

Goto(l, label) == pc' = [pc EXCEPT ![l] = label]

(* doEvery calls the function of the thread again.                         *)
Wake(l) ==
    /\ pc[l] = "rest"
    /\ Goto(l, IF l \in Sweeping THEN "check" ELSE "address")
    /\ UNCHANGED <<guidVars, turn, block, bus, registers, rows>>

(* hasNext: at the end main_it goes back to the front, sub_it does not.    *)
hasNext(l) ==
    /\ pc[l] = "check"
    /\ IF mainPos[l] < Count(l)
       THEN Goto(l, "address") /\ UNCHANGED mainPos
       ELSE Goto(l, "rest") /\ mainPos' = [mainPos EXCEPT ![l] = 0]
    /\ UNCHANGED <<subPos, current, currentSub, requests, taken,
                   turn, block, bus, registers, rows>>

(* Variant: next() at the end without toFront().                           *)
AfterNoWrap(pos, l) == pos[l] + 1
After(pos, l) == IF pos[l] < Count(l) THEN pos[l] + 1 ELSE 1

NextOfSweep(l) ==
    /\ requests[l] = <<>>
    /\ mainPos' = [mainPos EXCEPT ![l] = After(mainPos, l)]
    /\ subPos' = [subPos EXCEPT ![l] = After(subPos, l)]
    /\ current' = [current EXCEPT ![l] = After(mainPos, l)]
    /\ currentSub' = [currentSub EXCEPT ![l] = After(subPos, l)]
    /\ UNCHANGED <<requests, taken>>

(* Variants: a request moves the sweep on too; it stays in the queue.      *)
NextOfQueueMoves(l) ==
    /\ requests[l] # <<>>
    /\ mainPos' = [mainPos EXCEPT ![l] = After(mainPos, l)]
    /\ subPos' = [subPos EXCEPT ![l] = After(subPos, l)]
    /\ current' = [current EXCEPT ![l] = Head(requests[l])]
    /\ currentSub' = [currentSub EXCEPT ![l] = Head(requests[l])]
    /\ requests' = [requests EXCEPT ![l] = Tail(@)]
    /\ taken' = [taken EXCEPT ![l] = (@ + 1) % Len(Roster[l])]

NextOfQueueKeeps(l) ==
    /\ requests[l] # <<>>
    /\ current' = [current EXCEPT ![l] = Head(requests[l])]
    /\ currentSub' = [currentSub EXCEPT ![l] = Head(requests[l])]
    /\ taken' = [taken EXCEPT ![l] = (@ + 1) % Len(Roster[l])]
    /\ UNCHANGED <<mainPos, subPos, requests>>

NextOfQueue(l) ==
    /\ requests[l] # <<>>
    /\ current' = [current EXCEPT ![l] = Head(requests[l])]
    /\ currentSub' = [currentSub EXCEPT ![l] = Head(requests[l])]
    /\ requests' = [requests EXCEPT ![l] = Tail(@)]
    /\ taken' = [taken EXCEPT ![l] = (@ + 1) % Len(Roster[l])]
    /\ UNCHANGED <<mainPos, subPos>>

(* read_data begins: get_address, whether or not the line can be had.      *)
get_address(l) ==
    /\ pc[l] = "address"
    /\ NextOfSweep(l) \/ NextOfQueue(l)
    /\ registers' = [registers EXCEPT ![l].fresh = FALSE]
    /\ Goto(l, "lock")
    /\ UNCHANGED <<turn, block, bus, rows>>

(* Variant: a reader that could not connect does not call close. *)
isConnectedKept(l) ==
    /\ pc[l] = "lock" /\ ~bus[l]
    /\ bus' = [bus EXCEPT ![l] = TRUE]
    /\ block' = [block EXCEPT ![l] = 1]
    /\ Goto(l, "read") \/ Goto(l, "push")
    /\ UNCHANGED <<guidVars, turn, registers, rows>>

(* isConnected locks the mutex and leaves it so, connected or not.         *)
isConnected(l) ==
    /\ pc[l] = "lock" /\ ~bus[l]
    /\ bus' = [bus EXCEPT ![l] = TRUE]
    /\ block' = [block EXCEPT ![l] = 1]
    /\ Goto(l, "read") \/ Goto(l, "close")
    /\ UNCHANGED <<guidVars, turn, registers, rows>>

BlockOver(l) ==
    IF block[l] < Len(Blocks[Reader(l)])
    THEN block' = [block EXCEPT ![l] = @ + 1] /\ UNCHANGED pc
    ELSE Goto(l, "close") /\ UNCHANGED block

ReadAnswered(l) ==
    /\ pc[l] = "read"
    /\ registers' = [registers EXCEPT
            ![l] = [device |-> current[l], start |-> Asking(l).start, fresh |-> TRUE]]
    /\ rows' = [rows EXCEPT ![l] = @ \cup RowsOf(l, registers'[l])]
    /\ BlockOver(l)
    /\ UNCHANGED <<guidVars, turn, bus>>

(* Variant: rc is not looked at; what the registers held is reported.      *)
ReadFailedReported(l) ==
    /\ pc[l] = "read"
    /\ rows' = [rows EXCEPT ![l] = @ \cup RowsOf(l, registers[l])]
    /\ BlockOver(l)
    /\ UNCHANGED <<guidVars, turn, bus, registers>>

(* A block that fails is passed over, the next one is asked for all the    *)
(* same.                                                                   *)
ReadFailed(l) ==
    /\ pc[l] = "read"
    /\ BlockOver(l)
    /\ UNCHANGED <<guidVars, turn, bus, registers, rows>>

close(l) ==
    /\ pc[l] = "close"
    /\ bus' = [bus EXCEPT ![l] = FALSE]
    /\ Goto(l, "push")
    /\ UNCHANGED <<guidVars, turn, block, registers, rows>>

(* The rows are pushed; the next reader of the roster, the next device of  *)
(* the sweep, or the end of the thread's function.                         *)
push(l) ==
    /\ pc[l] = "push"
    /\ rows' = [rows EXCEPT ![l] = {}]
    /\ turn' = [turn EXCEPT ![l] = IF @ < Len(Roster[l]) THEN @ + 1 ELSE 1]
    /\ Goto(l, IF turn[l] < Len(Roster[l]) THEN "address"
               ELSE IF l \in Sweeping THEN "check" ELSE "rest")
    /\ UNCHANGED <<guidVars, block, bus, registers>>

LineThread(l) ==
    /\ \/ Wake(l) \/ hasNext(l) \/ get_address(l) \/ isConnected(l)
       \/ ReadAnswered(l) \/ ReadFailed(l) \/ close(l) \/ push(l)
    /\ named' = {} /\ UNCHANGED asked

-----------------------------------------------------------------------------
(* getInfoFromServer_thread.  receiveData is a list of lists: the interval *)
(* the server gave, all guids of the tables, the guids it wants read.  The *)
(* three are told apart by their place alone.                              *)
Interval == [what |-> "interval", guids |-> <<>>]
Ours == [what |-> "ours", guids |-> <<>>]
Wanted(guids) == [what |-> "wanted", guids |-> guids]

(* The interval, if the server gave one, is taken and the list cleared.    *)
AfterPeriod(given) == <<>>

(* The first list is sent, and the guids the server wants read (those of   *)
(* its commands without a value) come back as one more list; no answer     *)
(* adds none.  Two lists make a request.  Nothing is shared between the    *)
(* two exchanges of the function but the queue, at its end.                *)
GuidsOf(list) == IF list.what = "ours" THEN AllGuid ELSE {}

Ask(given, answer) ==
    LET received == Append(AfterPeriod(given), Ours) \o answer
    IN IF Len(received) # 2 THEN UNCHANGED requests
       ELSE \E guids \in IF received[2].what = "ours" THEN [{1} -> AllGuid]
                         ELSE {received[2].guids} : addQueue(guids)

getInfoFromServer ==
    /\ \E given \in {<<>>, <<Interval>>}, n \in 0..(MaxAsked - asked) :
          LET sent == Append(AfterPeriod(given), Ours)[1]
          IN \/ Ask(given, <<>>) /\ named' = {} /\ UNCHANGED asked
             \/ \E guids \in [1..n -> GuidsOf(sent)] :
                   /\ Ask(given, <<Wanted(guids)>>)
                   /\ named' = {guids[i] : i \in 1..n}
                   /\ asked' = asked + n
    /\ UNCHANGED <<threadVars, mainPos, subPos, current, currentSub, taken>>

(* cmdline_thread: a line that is not "stop" is a guid to read.            *)
TypedLine ==
    /\ asked < MaxAsked
    /\ \E guid \in AllGuid \cup {Unknown} :
          /\ named' = {guid}
          /\ addQueue(<<guid>>)
    /\ asked' = asked + 1
    /\ UNCHANGED <<mainPos, subPos, current, currentSub, taken, threadVars>>

-----------------------------------------------------------------------------
Next == (\E l \in Line : LineThread(l)) \/ getInfoFromServer \/ TypedLine

(* The threads run, and the exchanges with a device time out.              *)
Spec == Init /\ [][Next]_vars /\ \A l \in Line : WF_vars(LineThread(l))

-----------------------------------------------------------------------------
TypeOK ==
    /\ \A l \in Line : /\ mainPos[l] \in 0..Count(l) /\ subPos[l] \in 0..Count(l)
                       /\ current[l] \in 0..Count(l) /\ currentSub[l] \in 0..Count(l)
                       /\ requests[l] \in Seq(1..Count(l))
                       /\ turn[l] \in DOMAIN Roster[l] /\ block[l] \in 1..2
                       /\ registers[l].device \in 0..Count(l)
    /\ pc \in [Line -> {"rest", "check", "address", "lock", "read", "close", "push"}]
    /\ bus \in [Line -> BOOLEAN]
    /\ asked \in 0..MaxAsked

(* A row is made of what its own device answered in this reading, to the   *)
(* question its pin belongs to: the registers are shared by all readers of *)
(* a line, the map of pins is fetched apart from the address, and one of   *)
(* two questions may fail.                                                 *)
OwnRow ==
    \A l \in Line : \A row \in rows[l] :
        /\ row.from.fresh
        /\ \E i \in DOMAIN Tables[l].sub :
              /\ Tables[l].sub[i].guid = row.guid /\ Tables[l].sub[i].pin = row.pin
              /\ Tables[l].sub[i].key = Tables[l].main[row.from.device].key
        /\ \E i \in DOMAIN Blocks[Reader(l)] :
              /\ Blocks[Reader(l)][i].start = row.from.start
              /\ row.pin \in Blocks[Reader(l)][i].pins

(* The readers of a line that is not swept take turns at one iterator: a   *)
(* reader asks the device in its own place of the table if, and only if,   *)
(* the requests taken so far are a multiple of the readers; each one taken *)
(* shifts all of them by a place until the next.                           *)
TurnsFollowRequests ==
    [][\A l \in Line \ Sweeping :
          Count(l) = Len(Roster[l]) /\ mainPos'[l] # mainPos[l] =>
              (current'[l] - turn[l] + taken[l]) % Len(Roster[l]) = 0]_vars

(* Whatever step is not the line's own thread going on (its pc moves when  *)
(* it takes a request): behind the requests that wait join the devices one *)
(* of whose channels the server or the operator names in this step, each   *)
(* once and all of them, and no other; none if nobody is named, as when    *)
(* receiveData holds the interval or an exchange brings no answer.         *)
QueuedAsNamed ==
    [][\A l \in Line : pc'[l] = pc[l] =>
          LET waiting == Len(requests[l])
              fresh == SubSeq(requests'[l], waiting + 1, Len(requests'[l]))
              wanted == {d \in 1..Count(l) : \E i \in DOMAIN Tables[l].sub :
                            /\ Tables[l].sub[i].key = Tables[l].main[d].key
                            /\ Tables[l].sub[i].guid \in named'}
          IN /\ SubSeq(requests'[l], 1, waiting) = requests[l]
             /\ {fresh[i] : i \in DOMAIN fresh} = wanted
             /\ Len(fresh) = Cardinality(wanted)]_vars

(* The mutex of the line is free again whatever fails: each thread comes   *)
(* to its rest again and again, and the requests of its line are taken.    *)
ThreadsGoOn == \A l \in Line : []<>(pc[l] = "rest")
RequestsTaken == \A l \in Line : (requests[l] # <<>>) ~> (requests[l] = <<>>)
=============================================================================
