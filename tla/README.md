# qscada in TLA+

qscada is a data collector for a block of flats: a Raspberry Pi program (C++ and
Qt) that reads electricity meters (Mercury), heat meters (Pulsar) and building
automation controllers (Owen, Sphera) over RS485 lines behind TCP gateways or
serial ports, and posts the readings as JSON over HTTPS to a server. What cannot
be posted is kept in a local sqlite table and posted later.

This directory holds TLA+ models of that program, TLC configurations that check
them on small instances and TLAPS proofs for every instance. Line references are
to the files under `src/`.

## 1. Inventory

| component | source (`src/src/...`) | state | operations |
|---|---|---|---|
| Main loop | `main.cpp` | the reader objects, a 30 minute sleep | `read_all_sensors`, `sendToServer`, `getInfoFromServer`, `main` |
| Store | `libs/sqldriver` | memory queue `queue`; sqlite table `data`, tables of devices and channels | `push`, `pop`, `toDataTable`, `fromDataTable`, `fromGuidTable` |
| Uplink | `libs/https` | the JSON of a request; curl handle and buffer | `Send`, `process_response`, `curl_send` |
| Table of meters | `libs/id` (`GuidClass`) | per line: `main_guid`, `sub_guid`, `main_it`, `sub_it`, `current_guid`, `current_subguid`, `GuidQueueVector`, `GuidActiveStateVector`; mutexes `mutex`, `mutex2`, `mutex_queue` | `init`, `hasNext`, `next_iterators`, `get_address`, `get_guid`, `get_subguid`, `isEmptyQueue`, `addQueue`, `find_guid` |
| Threads | `libs/threadmanager` | intervals, timeouts | one sweeping thread per line, `QueueReqFromServer_thread`, `getInfoFromServer_thread`, `sendToServer_thread`, `cmdline_thread`, `doEvery` |
| Electricity meters | `libs/mercury` | `address`, counters `o.PRT[]`, a mutex per object | `read_data`: `checkChannel`, `initConnection`, `getW` twice, `closeConnection` |
| Heat meters | `libs/pulsar` | `address`, `Request`, `Response` | `read_data`: `getP`, `check_crc`, `convert_data` |
| Line | `libs/iodriver` | a socket or a serial port | `writes` (TCP and serial), slots `run`, `write` |
| Modbus readers | `libs/modbus/ModbusClass`, `libs/owen` | modbus context, a mutex | `connect`, `isConnected`, `close`, `read_data` of eight kinds of Owen, Sphera and simulated devices |
| libmodbus | `libs/modbus/*.c` | `ctx`: backend, slave, socket, error recovery; a server's tables | every `modbus_read_*` and `modbus_write_*`, `_modbus_receive_msg`, `check_confirmation`, `modbus_reply`, connect, close, flush; CRC and data conversions |
| QtJson | `libs/json` | index and success flag of a parse | `parse`, `serialize` and their parts |
| Service unit | `src/autorun_script` | - | restart after an abort |

How they interact:

* `main` runs `read_all_sensors` in one thread: for each of eight lines (four of
  Mercury, four of Pulsar meters) it asks `GuidClass::hasNext` until the sweep is
  over, calls `read_data` of the reader of the line, pushes the rows it gets into
  the store and calls `sendToServer` after every line and once more at the end.
* `sendToServer` pops at most 200 rows, sends them, saves the rows whose error
  flag says so in the table `data`, fetches at most 500 rows of the table
  (deleting them), sends those and saves them again where needed.
* A reader's `read_data` fetches the address and then the guid of the next meter
  from `GuidClass` and exchanges frames with the meter through `IODriver::writes`.
* The threaded design (`ThreadManager`) is compiled, but its construction in
  `main.cpp:241-245` is commented out. There every line has a thread of its own,
  requests for single meters arrive from the server or from the command line, and
  `GuidClass` is shared. `GuidClass` is written for that design (three mutexes, an
  active flag per line, a queue of requests per line), so its model is of that design;
  the program as it is started today is module `QScada`.
* The readers of Owen and Sphera devices are compiled, and commented out in both
  (`threadmanager.cpp:112-123`). Their lines speak Modbus: a reader locks the `ModbusClass`
  of its line, asks libmodbus for blocks of registers and names the values by the map of
  channels of its device.
* A request for a channel comes from the server (`getInfoFromServer_thread`, an exchange
  of two JSON texts) or from the keyboard, is looked up in the tables and put into the
  queue of the line of its device.

What is hard, and what makes each component right:

* **Uplink and store.** The process owns its data in turn in a queue, in a local
  variable and in a table, over a link that loses answers after the server acted,
  a server that answers rows differently, a database whose statements fail, and
  deaths at any point. *Right*: no sample is lost under the faults it is made for;
  a sample is kept once; a row marked as received is at the server; everything
  reaches the server when the link works again and again, and the table drains.
* **GuidClass under threads.** The address, the guid and the channel map of a
  meter are fetched by separate calls under separate mutexes; the rewinding of an
  iterator takes another mutex than its moving; a request overtakes the sweep on
  the same line. *Right*: a reading carries the guid and map of the meter it came
  from; every sweep is complete; no request is dropped; all are answered; sweeps go on.
* **Meters over a slow line.** An answer is recognised by length and CRC; it may
  come after its timeout and be read by the next exchange. *Right*: what is pushed
  under a guid is what its meter said in that visit.
* **Modbus readers.** A lock taken by one call and released by another, registers
  shared by all readers, two devices sharing one iterator. *Right*: the lock comes free
  whatever fails; a row is made of what its own device has just answered; the readers
  keep their turns as far as requests allow; a named channel is queued, once, and read.
* **libmodbus.** A message whose length is known only from its beginning, over a line
  that delays and damages. *Right*: client and server understand each other; an answer
  taken for a call fits it; no message exceeds its buffer.
* **Conversions.** Three implementations of one checksum, a JSON writer and reader that
  must agree, signed numbers in unsigned registers. *Right*: what is written is read back,
  damage is noticed, a truncated text is refused.

`PROJECT.json` lists under `hazards` each place where this can go wrong, with the
properties that watch it.

## 2. Modules

| module | models | extends |
|---|---|---|
| `Outbox` | what the store and uplink promise: a recorded sample waits until the server has or refuses it | |
| `Uplink` | `SqlDriver`, `HttpsDriver::Send`, `process_response`, `curl_send`, `sendToServer`, the restart by the service unit | |
| `QScada` | `read_all_sensors` as `main` starts it: the walk through the lines around `Uplink` | `Uplink` |
| `Polling` | `GuidClass` under the threads of `ThreadManager`: sweeps, served requests, filing of requests | |
| `Owen` | the Modbus lines of `ThreadManager`: tables of devices and channels, lock, readers, rows, requests for channels | |
| `SerialLine` | what one call of `IODriver::writes` may come to | |
| `Mercury` | `MercuryClass::read_data` | `SerialLine` |
| `Pulsar` | `PulsarClass::read_data` | `SerialLine` |
| `MeterLines` | a line of electricity meters and one of heat meters | `Mercury`, instance of `Pulsar` |
| `RemoteTables` | what libmodbus promises of the tables of a server: calls act on them in their order, at most once each | |
| `ModbusFrames` | the messages of libmodbus: requests, lengths, replies, checks (operators only) | |
| `Modbus` | a libmodbus client and server with a line between them | `ModbusFrames`, instance of `RemoteTables` |
| `QtJson` | parser and serializer (recursive operators) | |
| `Codecs` | checksums, the request to a heat meter, temperatures, bits and floats | |
| `Formats` | Modbus calls, and beside them texts, values, frames and registers one at a time | `Modbus`, `QtJson`, `Codecs` |
| `MCUplink`, `MCQScada`, `MCPolling`, `MCMeterLines`, `MCPulsar`, `MCOwen`, `MCFormats` | constant values for the runs | the module named |
| `UplinkProofs`, `QScadaProofs`, `PollingProofs`, `MeterLinesProofs` (with `Mercury`), `OwenProofs`, `ModbusProofs`, `CodecsProofs` | theorems and proofs | the module named, `TLAPS` |
| `RemoteTablesProofs` | that `Modbus` implements `RemoteTables` | `ModbusProofs` |

Definitions whose comment begins with "Variant" or "A plausible slip" are not part of any specification:
each is a plausible mistake in the definition below it. Replacing the definition by
its variant makes the property that watches it fail.

### Uplink

| TLA+ | code |
|---|---|
| `queue`, `table`, `batch`, `stage` | `SqlDriver::queue`; the rows of `data` with their rowids; `sendData` / `dataFromTable` of `sendToServer`, and which of the two is in use |
| `pc`, `next`, `cursor` | the statement reached; index `i` of the loop of `toDataTable`; the row reached by the SELECT of `fromDataTable` |
| `received` | what the server has stored (environment) |
| `Push`, `Pop` | `SqlDriver::push`, `pop` |
| `Key`, `Request` | the `insert_<i>` keys and the JSON object of `Send` / `from_data_to_json` (a repeated key overwrites) |
| `VerdictOf`, `NeedSave`, `FlagAfter`, `AllFailed` | the two passes of `process_response` over the answers, and the branch for no answer |
| `PostAnswered`, `PostUnanswered`, `PostGarbled` | `curl_send` with an answer, with "" and with text that is not JSON (`qFatal`) |
| `OpenForSave`, `InsertRow`, `CloseSave` | `toDataTable`: open, one iteration, the end |
| `OpenForFetch`, `FetchRow`, `CloseFetch` | `fromDataTable`: open and SELECT, one iteration (append, DELETE), the end |
| `Crash`, `Restart` | a death at any step, and `Restart=on-abort` |

A row is reduced to its sample and its error flag: guid, value, value flag and time
are set by `push` and never changed, so one model value stands for the four. The DELETE of
`fromDataTable` compares fields, and the model deletes all rows with the same sample and
flag. Rowids are renumbered at the end of a scan; only their order is observable.

Bounds: the code's limits of 200 rows popped, 500 fetched and 256 keys (`quint8`) are
constants, 2, 2 or 3 and 2 in the runs, with two to four samples: a queue longer than a batch, a
table longer than a fetch and a batch longer than the keys all occur. `TableBound`
limits only how long DELETE may keep failing, which alone makes the table grow.

A POST that times out may have been stored in part or in full; what the server stores
still later is counted at the time-out, which differs for no property: the rows are saved
and sent again in either case. `getInfoFromServer` sends a request whose answer
`main` ignores; an answer that does not parse aborts the process, one of the cases of `Crash`.

### QScada

| TLA+ | code |
|---|---|
| `line` | the statement of `read_all_sensors` reached, 0 for the `sendToServer` before the first line |
| `mainPos` | `main_it` of each line |
| `left` | rows of a reading that `push` has not appended yet |
| `ReadData`, `PushRow` | `read_data` with all its rows or none, the loop of `push` |
| `LineDone` | `hasNext` false (with its `toFront`) and the `pop` of `sendToServer` |
| `Sending` | every other step of `sendToServer`, and the return to the next line |
| `StartAgain` | a death and `main` after the restart |

Every action is an action of `Uplink` or leaves the variables of `Uplink` alone, which
`QScadaProofs` proves; so the invariants of `Uplink` hold of the program. Liveness is checked
here, where the walk through the lines decides when the sends come.

Bounds: two lines, a Mercury line with two rows a meter and a Pulsar line with one, and
batches of one row: three rows a sweep against three sends, the most the
queue can take, with five samples so that a second sweep overlaps the rest of the first. In the
program eight lines and nine sends of 200 rows stand for these. `qscada_live` has batches of
two fresh rows and of one stored row, so that a half accepted batch takes several fetches.

### Polling

| TLA+ | code |
|---|---|
| `mainPos`, `subPos` | `main_it`, `sub_it` as positions |
| `current`, `currentSub` | `current_guid`, `current_subguid` |
| `requests`, `active` | `GuidQueueVector`, `GuidActiveStateVector` |
| `holder` | the mutex of the reader of the line (Mercury has one, Pulsar has none) |
| `HasNextTrue`, `HasNextFalse`, `Rewind` | the branches of `hasNext`; its `toFront` is a step of its own because `next_iterators` takes another mutex |
| `ServeCheck` | `isEmptyQueue` as `QueueReqFromServer_thread` calls it line after line |
| `Lock`, `NextOfSweep`, `NextOfQueue`, `GetAddress`, `Finish` | `read_data`: its mutex, `get_address` (that is `next_iterators`, and the read of `current_guid` after `mutex2` is released), `get_guid`/`get_subguid`, the push |
| `filing`, `filed` | `addQueue`: the rest of its list, and `local_vector` |
| `AddQueue`, `AddNext`, `Known` | `addQueue` with a list, one meter a step, each one once (`addQueue(guid)` is the list of one) |
| `Rest` | the wait of `doEvery` |

`addQueue` holds `mutex_queue` for the whole list, but `next_iterators` looks at the queue
of its line before it takes that mutex, so a thread can see a list half filed. `NextOfQueue`
waits for `mutex_queue` (`filing = <<>>`), `NextOfSweep` does not.

Why these steps are enough: `next_iterators` is atomic under `mutex2` towards itself;
against `Rewind`, `hasNext` and `isEmptyQueue` (under `mutex`) each reads or
writes the iterator once, so any overlap has the outcome of one order of the modelled
steps. While a thread is between the two parts of `hasNext`, no other enters `hasNext`
or `isEmptyQueue` (guard `pc[k] # "rewind"`).

`ServedAssumption` states what is true of the code and needed for it to be right:
`QueueReqFromServer_thread` serves only Mercury lines (the calls for the other
lines are commented out), so a served line has a locked reader and is not paired. A
paired line would not survive being served, since `hasNext` rewinds `main_it` and
not `sub_it`; an unlocked one would mix the address and the guid of two meters.
These are the two reasons the commented-out calls cannot simply be put back.

The paired line stands for a line with a table of pins (Owen, Sphera), which
`GuidClass` supports and no started thread sweeps at present.

Bounds: one served Mercury line and one paired line with two meters each: the served line
shows the races of two threads on a line, the paired line the second iterator. `MaxAsked = 2`
bounds the meters named in all requests of a behaviour, in one list or in two: overtaking,
duplicates within a list and across lists, and lists that span lines all occur. Lines share
only `mutex` and `mutex_queue`, so more lines add no new interleaving. `Known` tells two meters apart by line and
place where `addQueue` compares their rows of `main_guid` (`id.cpp:337`): the same as long as no two meters have the same row.
`Owen` compares the rows.

### SerialLine, Mercury, Pulsar, MeterLines

`Writes(answer, late)` is the set of outcomes of one `IODriver::writes`: whether the
device obeyed (`heard`), the bytes returned and what is still on its way. The faults
are a constant. At most one answer is under way at a time: the line is half duplex and
two answers would collide. A late answer survives the closing of the
connection, since the gateway (or the port's buffer) holds it and hands it to the next. A damaged or
cut answer becomes `Noise`: it is assumed that CRC16 detects the damage and that the
part of an answer is not itself a frame with a right CRC.

`Mercury` keeps the order of `read_data`, with every early exit going to
`closeConnection`, and tells answers apart as the code does: a status of 4 bytes or a
counter of 19. The sessions of the meters are part of the state, since a meter
answers a counter only within one. `prt` survives from visit to visit, as
`o.PRT` does. `Pulsar` is one exchange; all its answers look alike. `MeterLines` puts a line
of each side by side. The lines share no state, so a behaviour visits the meters of one of
them; the line of the heat meters has fault constants of its own, since what is right
of an electricity meter on any line is right of a heat meter only on a prompt one.

Bounds: two meters, visits numbered modulo three: the smallest in which an answer from
another meter, from the last visit and from the one before can all be told apart.

### Owen

| TLA+ | code |
|---|---|
| `Tables`, `sub_guid`, `ChannelRows`, `MapOf` | the tables `fromGuidTable` reads and what `init` makes of them: the channels of a device are the rows with its key |
| `find_guid`, `Joining`, `Nth`, `Enqueued`, `addQueue` | `find_guid` over the tables of channels, `addQueue` with a list: the places of the list that add a device, in their order |
| `mainPos`, `subPos`, `current`, `currentSub`, `requests` | as in `Polling` |
| `bus` | the mutex of the `ModbusClass` of the line |
| `registers` | `tab_rp_registers`, one static array for all Owen readers: which device and block its contents came from, and whether in this reading |
| `OwenClass_16D` ... `OwenClass_NL_8R` | the blocks of registers each `read_data` asks for and the pins it names the values by |
| `get_address`, `isConnected`, `ReadAnswered`, `ReadFailed`, `close`, `push` | the steps of a `read_data` and of the thread around it |
| `getInfoFromServer`, `Ask`, `AfterPeriod` | `getInfoFromServer_thread` with the lists in `receiveData` |
| `TypedLine` | `cmdline_thread` |

A line has one thread, so the races within `GuidClass` are left to `Polling`. A reader that
finds no connection still calls `close`, and a block that fails does not keep the next from
being asked: both are branches of the source. The tables are not empty (an iterator over an
empty list would be moved past its end).

Bounds: a line with two different readers on one iterator and one with a single reader, three
channels on the first with pins shared and listed out of order, two guids named in all.
Every reader has its definition; the run calls the three that `ThreadManager` names.

### ModbusFrames, Modbus

| TLA+ | code |
|---|---|
| `Request`, `RequestData`, `TooMany` | the `build_request_basis` of the backends, the public calls and their limits |
| `FirstLength`, `compute_meta_length_after_function`, `compute_data_length_after_meta` | the lengths `_modbus_receive_msg` works out as it reads |
| `modbus_reply`, `Illegal...`, `Written`, `Response`, `response_exception` | `modbus_reply` of a server over its tables |
| `check_integrity`, `pre_check_confirmation`, `compute_response_length_from_request`, `check_confirmation`, `Returned`, `Dest` | what a client makes of an answer |
| `Send`, `SendFails`, `Receive`, `Confirm`, `ReceiveJunk`, `Timeout`, `Reset` | one call: `send_msg`, `_modbus_receive_msg` piece by piece, its end, its errors with their recovery |
| `Serve`, `ServeNot`, `IgnoreMessage`, `IgnoreTimeout` | `modbus_receive` and `modbus_reply`; on a serial line the confirmation of another slave is ignored |

The three backends are TCP, RTU and the RTU-over-TCP that was added for qscada
(`modbus_new_rtutcp`). A message is a record with the bytes after the function; the checksum
is whether it fits. A mask is applied bit by bit. A late answer stays on the wire and is read by the next call; TCP
loses and damages nothing but may be reset. `clean` says that nothing has gone wrong yet.

`RemoteTables` says what is left of all this for the program above: tables, calls that may still take effect, answers on
their way. `AsTables` reads them off the state of `Modbus`: the requests on the line are the calls that may still take
effect, the undamaged answers that are no exceptions are those on their way, and a call for another slave, or one
`modbus_reply` has to refuse (`Feasible`, written from the limits and the sizes of the tables and not from the
request), must never take effect. `Effect` and `Held` are likewise written from the call alone, so the refinement says
that coding a call into a request, reading it piece by piece, the reply and its reading come to just that.

Bounds: a script of one call at a limit of the protocol (2000 and 2001 bits, 125 and 126
registers, addresses at the end of a table, slaves 0, 3, 255, 300) or of any two of ten
calls of every function, some of the same shape; both or no error recovery. A message comes
whole or in halves. With link recovery a timeout may flush what is on the wire or come before it.

### QtJson, Codecs, Formats

`QtJson` is a translation function by function of the parser (text and index to value, index
and success) and the serializer; a text is a sequence of characters, a value a
record whose field names its type. `Codecs` has the checksum of each library with its own
tables and byte order, and numbers as bytes; the exclusive or is made of bits (`Xor`). `Formats` chooses an item
(a text that grows piece by piece, a value, a frame that grows byte by byte, an address, a
register, a row of bits) or lets the calls of `Modbus` be made. Doubles are kept as their text
and have no exponent; numbers above 99 stand for those no integer type holds.

Bounds: texts of up to four pieces after three beginnings, values nested twice, frames of up
to four bytes, registers around every sign and size limit.

## 3. What the runs check

| run | question | states | result |
|---|---|---|---|
| `uplink_tolerable` | `TypeOK`, `NoSampleLost`, `ImplementsOutbox`: does `sendToServer` lose nothing under lost answers, an unreadable table and failing DELETEs | 20 443 | holds |
| `uplink_lethal` | `Flag2MeansReceived`, `HeldOnce`: what stays true even with crashes, rejections, unparsable answers and failing INSERTs | 6 529 | holds |
| `uplink_rejected` | `UnsentIsSaved` when the server rejects a row | - | violated, finding 1 |
| `uplink_keywrap` | `UnsentIsSaved` when more rows are sent than there are keys | - | violated, finding 2 |
| `qscada_queue` | `QueueBounded`, `SweepTypeOK`: does the memory queue stay within the rows of a sweep if the sends can just take them | 1 099 904 | holds |
| `qscada_polled` | `MetersPolled`: is every meter asked for ever, with no assumption on link, server, database or meters | 14 736 | holds |
| `qscada_live` | `EventuallyReceived`, `TableDrains` over a link that fails again and again: does every sample get through, and do saved rows not circulate for ever | 5 396 | holds |
| `polling` | `LabelledRight`, `SweepComplete`, `Together`, `NoRequestLost`, `TypeOK`; `RequestsAnswered`, `SweepsGoOn`: labels, sweeps and requests in every interleaving of the threads | 205 599 | holds |
| `meter_lines` | `RightReading`, `TypeOK` under every fault of the line; `OwnReading`, `HeatTypeOK` as long as no answer is late or cut | 753 280 | holds |
| `pulsar_late` | `OwnMeter` with late answers | - | violated, finding 3 |
| `owen_lines` | `OwnRow`, `TurnsFollowRequests`, `QueuedAsNamed`, `ThreadsGoOn`, `RequestsTaken`, `TypeOK`: rows, turns, requests and the lock of the Modbus lines while connections and registers fail | 183 384 | holds |
| `formats` | `AnswerFits`, `CleanCall`, `WriteTaken`, `AduBound`, `TypeOK`, `ImplementsTables` of libmodbus; `JsonRoundTrip`, `JsonTruncated`, `JsonStable`; `CrcGuards`, `RequestRight`, `TemperatureClose`, `ConversionsInvert` | 298 898 | holds |

What the less obvious properties say. `OwnRow`: the registers are shared and keep what they
held when a block fails, and still no row is made of them. `TurnsFollowRequests`: a 16D and an
8A read the devices of one iterator in turn with no `hasNext` to set it back; each request
taken in between shifts the two by a place, and only a multiple of two requests sets them
right again, which is what the code does. `QueuedAsNamed`: it speaks of every step but those in
which the thread of the line moves on, not only of those in which the queue grows, so a device that is named and dropped violates it,
as does a request made of an interval left in `receiveData` or of an exchange without an answer. `AnswerFits`: over TCP the answer is
that to the call; over a serial line it may be a late one, but then it is one of the same
function, slave and count, since nothing else is compared. Left out is `modbus_report_slave_id`
through a gateway: `_modbus_rtutcp_check_integrity` gives length 0 for the answer of another slave,
which its comment leaves to `check_confirmation` (`modbus-tcp.c:938`), and that one compares no
length for this function and no slave on this backend. So a late answer of slave 3 is returned
by the call to slave 4; on a serial line the same happens to a broadcast. No property covers this: `AnswerFits`
leaves it out, `CleanCall` needs a line without late answers, and the id is not in the tables of
`ImplementsTables`. The program makes no such call. `CleanCall`: on a line that has done
nothing wrong a call succeeds exactly if the server can do it. `JsonStable`: whatever the
parser accepts is written and read again as the same value.

`UnsentIsSaved` needs the tolerable faults only where it says so: `NoSampleLost` holds
without the faults of `LossyFault` (a rejection, an unparsable answer, a failing
`toDataTable` and a death lose rows whatever `sendToServer` does, since nothing but the
process holds them at that time), and with a batch not longer than the keys.

Deadlock is checked in every run: no part of the system may stop.

Fairness is stated where the scheduling is, in `QScada`, `Polling` and `Owen`. `QScada`: the only
thread keeps running (`WF` of `Running`), as every call in it has a timeout (curl 10 s, the
meters theirs); that is all `MetersPolled` assumes. `ConnectedSpec` adds that an answer comes
again and again to the POST of fresh rows and to that of stored rows, and that the table opens
again and again (`SF`): without these nothing could ever be delivered. Nothing is assumed of
INSERT or DELETE; `qscada_live` has no failing DELETE, which could keep a row for ever. `Polling`: every sweeping thread and
the serving thread get to run when they can again and again; the mutexes are held for
an instant, or for one reading while the other user of a line sleeps for minutes.
A list once begun is filed to its end. `Owen`: the thread of each line keeps running (`WF`),
as libmodbus gives up after a second; nothing is assumed of connections and answers.
No fairness is assumed of the arrival of requests.

## 4. What is proved

TLAPS proves for every value of the constants that meets the named assumptions:

| theorem | says | rests on |
|---|---|---|
| `UplinkProofs!TypeCorrect` | `Spec => []TypeOK` | `UplinkAssumption` |
| `UplinkProofs!NoLoss` | `Spec => []NoSampleLost` | also `Gentle`: `PopMax <= KeyMod`, `FetchMax <= KeyMod`, no lossy fault |
| `UplinkProofs!FlagTwoIsStored` | `Spec => []Flag2MeansReceived` | `UplinkAssumption`, `KeysFit`: `PopMax <= KeyMod`, `FetchMax <= KeyMod`; any set of faults |
| `UplinkProofs!KeptOnce` | `Spec => []HeldOnce` | `UplinkAssumption`; any set of faults without `"delete"` |
| `UplinkProofs!UplinkIsOutbox` | `Spec => ImplementsOutbox` | `Gentle`, `UplinkAssumption` |
| `QScadaProofs!ProgramIsUplink` | `SystemSpec => Spec` | |
| `QScadaProofs!ProgramLosesNothing` | `SystemSpec => []NoSampleLost` | `Gentle`, `UplinkAssumption` |
| `QScadaProofs!ProgramIsOutbox` | `SystemSpec => ImplementsOutbox` | the same |
| `QScadaProofs!SweepTypeCorrect` | `SystemSpec => []SweepTypeOK` | `QScadaAssumption`, `UplinkAssumption` |
| `QScadaProofs!QueueStaysBounded` | `SystemSpec => []QueueBounded` | the same |
| `PollingProofs!RightLabels` | `Spec => []LabelledRight` | `PollingAssumption`, `ServedAssumption` |
| `PollingProofs!IteratorsTogether` | `Spec => []Together` | the same |
| `PollingProofs!PollingTypeCorrect` | `Spec => []TypeOK` | the same |
| `PollingProofs!SweepsComplete` | `Spec => []SweepComplete` | the same |
| `PollingProofs!NoRequestIsLost` | `Spec => []NoRequestLost` | the same |
| `MeterLinesProofs!MercuryTypeCorrect` | `Spec => []TypeOK` | `VisitAssumption`, `SerialLineAssumption` |
| `MeterLinesProofs!NoMixUp` | `Spec => []RightReading` | the same, any set of line faults |
| `MeterLinesProofs!LinesNoMixUp` | `LinesSpec => []RightReading` | the same |
| `MeterLinesProofs!HeatTypeCorrect` | `LinesSpec => []HeatTypeOK` | the same, any set of line faults |
| `MeterLinesProofs!PromptReading` | `LinesSpec => []OwnReading` | also `Prompt`: neither late nor cut answers on the line of the heat meters |
| `MeterLinesProofs!LinesTypeCorrect` | `LinesSpec => []TypeOK` | `VisitAssumption`, `SerialLineAssumption` |
| `OwenProofs!TurnsFollow` | `Spec => TurnsFollowRequests` | `OwenAssumption` |
| `OwenProofs!OwenTypeCorrect` | `Spec => []TypeOK` | `OwenAssumption`, `RosterAssumption` |
| `OwenProofs!OwnRows` | `Spec => []OwnRow` | also `Keyed`: every device has a key |
| `OwenProofs!RequestsAsNamed` | `Spec => QueuedAsNamed` | also `Distinct`: a guid belongs to one channel of one device, a pin of a device to one channel, each line has tables of its own and no two devices share a row |
| `ModbusProofs!TypeCorrect` | `Spec => []TypeOK` | `ModbusAssumption` |
| `ModbusProofs!WithinAdu` | `Spec => []AduBound` | the same |
| `ModbusProofs!WritesAreTaken` | `Spec => []WriteTaken` | the same |
| `ModbusProofs!AnswersFit` | `Spec => []AnswerFits` | also: no script has 65536 calls |
| `ModbusProofs!CallsUnderstood` | `Spec => []CleanCall` | `ModbusAssumption` |
| `CodecsProofs!TemperatureIsClose` | `item \in Conversions => TemperatureClose` | `RegisterAssumption`: registers have 16 bits |
| `CodecsProofs!RequestIsRight` | `item \in Conversions => RequestRight` | `AddressAssumption`: four bytes |
| `CodecsProofs!ConversionsAreInverse` | `item \in Conversions => ConversionsInvert` | `PatternAssumption`: bits, at least one |
| `RemoteTablesProofs!ModbusIsTables` | `Spec => ImplementsTables` | the same; any script, also one that comes to use TCP transactions again |

The arguments:

* **NoLoss.** `NoSampleLost` alone is not inductive only for want of types: with
  `TypeOK`, each action moves a sample from one holder to another. The hard steps are the
  answers: with a batch no longer than the keys every row has a key of its own, so the
  verdict a row is settled by is the one the server gave to it, and a flag of 0 means stored,
  duplicate (hence stored) or refused. `Gentle` is exactly what findings 1 and 2 violate.
* **FlagTwoIsStored.** Beside the types: the queue holds flag 0 only and a batch fits the keys
  (`FlagInv`). A row comes by flag 2 only through the
  verdict "true" under its own key, and a fetched row brings the flag it was saved with.
* **KeptOnce.** A fresh sample is in no other place because only produced samples are held, and the scan
  of the table starts with an empty batch, else rows left from the fetch before would be taken back in (`HoldInv`).
  Deleting the rows with the same fields deletes the row fetched, and that one only, because a sample is in the
  table once.
* **UplinkIsOutbox.** Nothing comes to be held but by `Push`; what the server stores was in the batch
  and is not refused; what is let go is stored or refused, by `NoSampleLost` in the state after. So a step is
  `Record`, or `Exchange` with the samples newly stored and those newly let go. With `ProgramIsUplink`
  the same holds of the whole loop of `main` (`ProgramIsOutbox`).
* **RightLabels.** A thread that has fetched the address of a line's meter must be the
  only one that can move `current` of that line until it has fetched the guid. On a
  locked line the holder of the mutex is the only one past `Lock`; on any other only its
  sweeper reads, by `ServedAssumption`. The sub label follows from `Together`.
* **IteratorsTogether.** On a paired line only the sweeper moves the iterators, and
  `main_it` equals `sub_it` except that after a rewind `main_it` is at the front and
  `sub_it` at the end, from where both go to the first meter.
* **SweepsComplete.** The meters given out since the last rewind include all that `main_it`
  has passed (`Passed`); a request does not move `main_it`, so when `hasNext` is false all have been.
* **NoRequestIsLost.** With the types and `PollingInv`, the hard step is a meter named again
  in the list being filed, which is not queued a second time. That is right only because its first
  request still waits: no thread takes a request while the list is filed, so each meter of
  `filed` is in its queue (`FiledWait`, the strengthening that makes the invariant inductive).
* **NoMixUp.** The invariant `Undelayed`: while the day counter is asked for, the only
  answer that may still be under way is a status (the session was opened by a status
  that was read just before), and while the night counter is asked for there is none
  and `prt` holds the own day counter. So the sizes of the answers
  together with their order make up for the missing comparison of addresses.
* **PromptReading.** If no answer is late or cut, nothing is on its way when a visit begins, so
  what `getP` gets is noise, nothing, or the answer to its own request.
* **TurnsFollow.** The place of the iterator plus the requests taken, less the turn of the reader, is a multiple of
  the number of devices, or one short of it between two readers (`Pace`). `get_address` moves either the
  iterator or the count of requests by one, `push` the turn, and each goes back to its start on its own.

* **QueueStaysBounded.** The queue is bounded by what was read since it was last empty, and no send leaves it alone: a
  send takes `PopMax` rows or all of them. Of the sends of the last sweep one left the queue empty, or might as well have
  done so (`EmptyAfter`, `EmptyBefore`); since then the queue holds at most the rows read less `PopMax` for each later
  send, and the rows a line pushes between two sends are the share of its meters.
* **LinesTypeCorrect.** The types of the two visits together with those of the lines between them; the fields
  of an answer that is late or cut keep theirs.
* **TypeCorrect, WithinAdu** of `Modbus`. `ModInv`: every message under way was made for one call of the script
  (`MadeFor`), and an answer that was not damaged says what that call asked for and what the server held (`AnswerTo`,
  `Says`). The lengths follow function by function: what a request holds survives `Bytes`, `RegisterBytes` and `BitBytes`
  and is read back by `Word`, `Registers` and `Bits`, which are lemmas of their own.
* **WritesAreTaken.** Of the call made last there is one request at most, and it is the last one under way
  (`Newest`); when it has been answered nothing is left that could overwrite what it wrote.
* **AnswersFit.** `check_confirmation` compares the function, the count and what `pre_check_confirmation` and
  `check_integrity` leave of slave or transaction. That is enough because the answer says what its own call asked for,
  and over TCP because a transaction is used once, hence fewer than 65536 calls.
* **CallsUnderstood.** While nothing has gone wrong one message at most is under way: the request of the call that
  waits, the answer to it, or none since the request was for another slave (`OneMessage`, stronger than `CleanCall`
  in the states between, where a call is under way). Four facts carry it. Each side reads exactly the bytes the
  other wrote, in each of the three steps of
  `_modbus_receive_msg` (`RequestRead`, `AnswerRead`, `ReadOn`). `modbus_reply` refuses exactly what is not `Feasible`
  (`RefusesIs`), and a call with too many values, which the client refuses itself, is not (`Infeasible`).
  A refusal is read as -1, any other answer as the count asked for (`AnswerTaken`). And a call that times out on
  such a line is one nobody heard.
* **ModbusIsTables.** Each action of `Modbus` is `Call`, `TakeEffect`, `Return` or `Lose` of `RemoteTables`, or changes
  nothing of it. `Serve` takes effect by `ModInv`: a request says what its call said (`MadeFor`), so what `Written` makes of its
  bytes is the `Effect` of the call, function by function (`EffectIs`, down to the bits of a mask, `MaskedWord`), and the answer
  carries what was `Held` (`HeldIs`). The order needs one invariant more, `InOrder`: the answers on the wire and after them the
  requests on the line are numbered as the calls were made, strictly. It is why the oldest open call is the one that takes
  effect, why none does so twice, and why an answer that is returned is gone from the wire for good. A damaged answer never
  gets through `check_integrity`, so what is returned was answered.
* **RequestIsRight, ConversionsAreInverse, TemperatureIsClose.** The properties of one item, for every item the constants may
  hold and not only the samples of the run. A frame ends in the two bytes `crc16` makes of the rest, whatever they are, so
  `check_crc` finds them (`FrameFits`); the length is put in behind the address and counts itself and the checksum
  (`HeatRequest`). Bit i of a row is bit i % 8 of byte i / 8 (`PackedBits`), which is where `modbus_set_bits_from_bytes`
  looks for it (`Unpacked`); eight bits are a byte and back (`EightBits`, `BitsOfByte`).
* **OwnRows.** The iterators of devices and of channels move together but for a rewind (`main_it` at the front,
  `sub_it` at the end), so the device asked and the channels its values are named by are the same; the block read is one of
  its reader, and between the answer and the rows no other reader has the mutex.
* **RequestsAsNamed.** A step of a line's thread that leaves its pc alone, and an exchange without an answer, name no one and leave the
  queues (`Joined`); any other list goes behind what waits (`Added`). `Enqueued` takes the places that join a queue in their order, so the k-th entry is that of the
  place with k - 1 joining places before it (by cardinalities); with `Distinct` the first holder of a guid is its only one.

Only model-checked: the liveness properties (`MetersPolled`, `EventuallyReceived`, `TableDrains`, `RequestsAnswered`,
`SweepsGoOn`, `ThreadsGoOn`, `RequestsTaken`), out of the prover's reach; `JsonRoundTrip`, `JsonTruncated` and `JsonStable`,
as the parser and the serializer are recursive operators; and `CrcGuards`, whose first part (the table and the bitwise loop
agree) is an induction over the bytes and whose last part rests on the tables' 512 entries. That a frame is accepted
as it was sent is proved (`FrameFits`).

## 5. Findings

1. **A rejected fresh row is dropped** (`https.cpp:291`). A row answered neither
   "true" nor DUPLICATE nor WRONGSECRET keeps its flag. A row from the queue has
   flag 0, and `toDataTable` skips rows with flag 0 (`sqldriver.cpp:119`). The accepted rows of the same
   batch are saved instead.
2. **More than 256 stored rows in a request** (`https.cpp:171`). The keys are numbered by a
   `quint8` while up to 500 rows are fetched (`main.cpp:48`). Rows with the same key overwrite one
   another in the request; a DUPLICATE for key k then drops row k, which was not sent.
3. **A late heat meter answer is filed under the next meter** (`pulsarclass.cpp:239`).
   Neither the address nor the request ID of an answer is compared with the request's.
   This supposes a gateway or port that hands late bytes to the next exchange; the same
   supposition leaves the Mercury readers right (`NoMixUp`).

## 6. Plan

Done, in the order of their importance: `Uplink` with `Outbox`, `QScada`, `Polling`,
`SerialLine` with `Mercury` and `Pulsar`, then `Owen`, `Modbus`, `QtJson`, `Codecs`. What would add most now:

1. Recovery of `Mercury` and `Pulsar` after a late answer, as liveness.
2. The readers of `Owen` over the calls of `Modbus`, instead of blocks that succeed or fail.

## 7. Not modelled, and why

* `ThreadManager`: its `sendToServer`, which is that of `main.cpp` with the saving commented out and is
  started nowhere; the intervals and timeouts (no model has a clock); "stop", which emits `finish`; the
  destructor, which ends threads that are never created.
* `IODriver`: the slots `write` and `run` and the signals around them. Nothing connects or calls them.
* `MercuryClass::getU` to `getA` are never called, nor is the slot `timeout`, whose signal only `IODriver::run` emits.
  `received`, which every command calls with what `writes` returned, copies it into `buf`; in the model the answer is passed on
  as it is. The arithmetic of `B4F` and
  the width of `dat[10]` concern the range of a counter only.
* libmodbus: the array of 12 bytes (`_MIN_REQ_LENGTH`) in which `modbus_mask_write_register` builds its request
  (`modbus.c:1471`), 14 bytes long over TCP: the model sends the request as it was meant, and `AduBound` looks at
  messages only; damage to the number of the slave in an answer, which the gateway backend would not notice in
  one to `modbus_report_slave_id` either; a serial port that is unplugged while an answer is awaited; the setup of a serial port, `listen` and `accept`, the pi variant of TCP, raw requests,
  accessors; on a serial line the client's request is lost whole, never damaged.
* QtJson: `\u` escapes, dates, exponents and 64-bit integers; none of them occurs in what qscada sends.
* The queue of `SqlDriver` under several threads (its mutex is commented out): the threads that would
  race are started nowhere.
* Logging, certificates, the buffer callback of curl, the build output, project files and the databases
  under `src/files` have no behaviour the properties speak of.
