--------------------------- MODULE PollingProofs ---------------------------
(***************************************************************************)
(* For any number of lines, meters and requests: a reading carries the     *)
(* guid and the channel map of the meter it was taken from.                *)
(***************************************************************************)
EXTENDS Polling, TLAPS

InReading == {"lock", "next", "address", "guid"}
InsideReader == {"next", "address", "guid"}
PcLabel == InReading \cup {"check", "rewind", "rest"}

Shape ==
    /\ mainPos \in [Line -> Nat] /\ subPos \in [Line -> Nat]
    /\ DOMAIN current = Line /\ DOMAIN currentSub = Line
    /\ pc \in [Thread -> PcLabel]
    /\ turn \in Nat \ {0}
    /\ pc[Server] \in InReading => turn <= Len(Served)
    /\ DOMAIN holder = Line /\ DOMAIN address = Thread

(* The thread inside a reader with a mutex holds it.                       *)
Guarded ==
    \A t \in Thread :
        pc[t] \in InsideReader /\ LineOf(t) \in Locked => holder[LineOf(t)] = t

(* The address a thread has read is that of the meter it will ask the guid *)
(* of.                                                                     *)
Fetched == \A t \in Thread : pc[t] = "guid" => address[t] = current[LineOf(t)]

(* On a paired line the iterators stand at the same meter, except between  *)
(* the rewinding of main_it by hasNext and that of sub_it.                 *)
InStep ==
    \A l \in Paired :
        /\ mainPos[l] <= Count[l]
        /\ subPos[l] = mainPos[l] \/ (mainPos[l] = 0 /\ subPos[l] = Count[l])
        /\ pc[l] = "rewind" => mainPos[l] = Count[l]

PollingInv ==
    Shape /\ Guarded /\ Fetched /\ InStep /\ Together /\ LabelledRight

-----------------------------------------------------------------------------
(* A thread that reads is at a line.                                       *)
LEMMA ReadsALine ==
  ASSUME Shape, NEW t \in Thread, pc[t] \in InReading
  PROVE  /\ LineOf(t) \in Line
         /\ t = Server => LineOf(t) \in Locked /\ LineOf(t) \notin Paired
         /\ t # Server => LineOf(t) = t
<1>1. CASE t = Server
  <2>1. turn \in 1..Len(Served)
    BY <1>1 DEF Shape
  <2>2. LineOf(t) = Served[turn] /\ turn \in DOMAIN Served
    BY <1>1, <2>1, PollingAssumption DEF LineOf
  <2>3. Served[turn] \in Line
    BY <2>2, PollingAssumption
  <2> QED BY <1>1, <2>2, <2>3, ServedAssumption
<1>2. CASE t # Server
  BY <1>2 DEF Thread, LineOf
<1> QED BY <1>1, <1>2

(* No two threads are inside the reader of one line.                       *)
LEMMA Exclusive ==
  ASSUME Shape, Guarded, NEW t \in Thread, NEW u \in Thread,
         pc[t] \in InsideReader, pc[u] \in InsideReader, LineOf(t) = LineOf(u)
  PROVE  t = u
<1>1. pc[t] \in InReading /\ pc[u] \in InReading
  BY DEF InReading, InsideReader
<1>2. CASE LineOf(t) \in Locked
  BY <1>2 DEF Guarded
<1>3. CASE LineOf(t) \notin Locked
  BY <1>1, <1>3, ReadsALine
<1> QED BY <1>2, <1>3

(* The iterators of a paired line give the same meter.                     *)
LEMMA SameMeter ==
  ASSUME Shape, InStep, NEW l \in Paired
  PROVE  /\ After(mainPos, l) = After(subPos, l)
         /\ After(mainPos, l) \in 1..Count[l]
<1>1. mainPos[l] \in Nat /\ subPos[l] \in Nat /\ Count[l] \in Nat \ {0}
  BY PollingAssumption DEF Shape
<1> QED BY <1>1 DEF InStep, After

-----------------------------------------------------------------------------
LEMMA PollingInit == Init => PollingInv
<1> SUFFICES ASSUME Init PROVE PollingInv
  OBVIOUS
<1> USE DEF Init
<1>1. Shape
  BY PollingAssumption DEF Shape, PcLabel, InReading, Thread
<1>2. Guarded /\ Fetched
  BY DEF Guarded, Fetched, InsideReader
<1>3. InStep /\ Together
  BY PollingAssumption DEF InStep, Together, Thread
<1>4. LabelledRight
  BY DEF LabelledRight
<1> QED BY <1>1, <1>2, <1>3, <1>4 DEF PollingInv

(* Steps that leave what the readings are made of alone: they move a       *)
(* thread between points outside the reader.                               *)
LEMMA OutsideStep ==
  ASSUME PollingInv, NEW t \in Thread, NEW label \in PcLabel \ InsideReader,
         pc[t] \notin InsideReader, Goto(t, label),
         t = Server => (label = "lock" => turn' = turn /\ turn <= Len(Served)),
         t # Server => turn' = turn, turn' \in Nat \ {0},
         UNCHANGED <<current, currentSub, holder, address, readings>>
  PROVE  /\ pc' \in [Thread -> PcLabel]
         /\ pc'[Server] \in InReading => turn' <= Len(Served)
         /\ Guarded' /\ Fetched' /\ Together' /\ LabelledRight'
<1> USE DEF PollingInv
<1>1. pc' \in [Thread -> PcLabel]
  BY DEF Shape, Goto
<1>2. pc'[Server] \in InReading => turn' <= Len(Served)
  BY DEF Shape, Goto, PcLabel, InReading, InsideReader, Thread
<1>3. ASSUME NEW u \in Thread, pc'[u] \in InsideReader
      PROVE  u # t /\ pc'[u] = pc[u] /\ LineOf(u)' = LineOf(u)
  BY <1>3 DEF Shape, Goto, LineOf
<1>4. Guarded' /\ Fetched'
  BY <1>3 DEF Guarded, Fetched, InsideReader
<1>5. Together' /\ LabelledRight'
  BY DEF Together, LabelledRight
<1> QED BY <1>1, <1>2, <1>4, <1>5

(* hasNext, its rewinding, the rest and the look at the queues.            *)
LEMMA SweepLogicStep ==
  ASSUME PollingInv, NEW l \in Line, HasNextTrue(l) \/ HasNextFalse(l) \/ Rewind(l)
  PROVE  PollingInv'
<1> USE DEF PollingInv
<1>1. l \in Thread /\ l # Server
  BY PollingAssumption DEF Thread, Server
<1>2. CASE HasNextTrue(l)
  <2>1. Goto(l, "lock") /\ pc[l] \notin InsideReader /\ turn' = turn
    BY <1>2 DEF HasNextTrue, InsideReader
  <2>2. UNCHANGED <<mainPos, subPos, current, currentSub, holder, address, readings>>
    BY <1>2 DEF HasNextTrue, history
  <2>3. "lock" \in PcLabel \ InsideReader /\ turn' \in Nat \ {0}
    BY <2>1 DEF PcLabel, InReading, InsideReader, Shape
  <2>4. /\ pc' \in [Thread -> PcLabel]
        /\ pc'[Server] \in InReading => turn' <= Len(Served)
        /\ Guarded' /\ Fetched' /\ Together' /\ LabelledRight'
    BY <1>1, <2>1, <2>2, <2>3, OutsideStep
  <2>5. Shape'
    BY <2>2, <2>3, <2>4 DEF Shape
  <2>6. InStep'
    BY <1>1, <2>1, <2>2 DEF InStep, Goto, Shape
  <2> QED BY <2>4, <2>5, <2>6
<1>3. CASE HasNextFalse(l)
  <2>1. Goto(l, "rewind") /\ pc[l] \notin InsideReader /\ turn' = turn
    BY <1>3 DEF HasNextFalse, InsideReader
  <2>2. UNCHANGED <<mainPos, subPos, current, currentSub, holder, address, readings>>
    BY <1>3 DEF HasNextFalse, history
  <2>3. "rewind" \in PcLabel \ InsideReader /\ turn' \in Nat \ {0}
    BY <2>1 DEF PcLabel, InReading, InsideReader, Shape
  <2>4. /\ pc' \in [Thread -> PcLabel]
        /\ pc'[Server] \in InReading => turn' <= Len(Served)
        /\ Guarded' /\ Fetched' /\ Together' /\ LabelledRight'
    BY <1>1, <2>1, <2>2, <2>3, OutsideStep
  <2>5. Shape'
    BY <2>2, <2>3, <2>4 DEF Shape
  <2>6. mainPos[l] = Count[l]
    BY <1>3 DEF HasNextFalse
  <2>7. InStep'
    BY <1>1, <2>1, <2>2, <2>6 DEF InStep, Goto, Shape
  <2> QED BY <2>4, <2>5, <2>7
<1>4. CASE Rewind(l)
  <2>1. Goto(l, "rest") /\ pc[l] \notin InsideReader /\ turn' = turn
    BY <1>4 DEF Rewind, InsideReader
  <2>2. /\ UNCHANGED <<subPos, current, currentSub, holder, address, readings>>
        /\ mainPos' = [mainPos EXCEPT ![l] = 0]
    BY <1>4 DEF Rewind
  <2>3. "rest" \in PcLabel \ InsideReader /\ turn' \in Nat \ {0}
    BY <2>1 DEF PcLabel, InReading, InsideReader, Shape
  <2>4. /\ pc' \in [Thread -> PcLabel]
        /\ pc'[Server] \in InReading => turn' <= Len(Served)
        /\ Guarded' /\ Fetched' /\ Together' /\ LabelledRight'
    BY <1>1, <2>1, <2>2, <2>3, OutsideStep
  <2>5. Shape'
    BY <2>2, <2>3, <2>4 DEF Shape
  <2>6. InStep'
    <3> SUFFICES ASSUME NEW k \in Paired
                 PROVE  /\ mainPos'[k] <= Count[k]
                        /\ subPos'[k] = mainPos'[k] \/ (mainPos'[k] = 0 /\ subPos'[k] = Count[k])
                        /\ pc'[k] = "rewind" => mainPos'[k] = Count[k]
      BY DEF InStep
    <3>1. k \in Line /\ k \in Thread /\ Count[k] \in Nat \ {0}
      BY PollingAssumption DEF Thread
    <3>2. CASE k = l
      <4>1. pc[k] = "rewind" /\ mainPos[k] = Count[k] /\ subPos[k] = Count[k]
        BY <1>4, <3>1, <3>2 DEF Rewind, InStep
      <4>2. mainPos'[k] = 0 /\ subPos'[k] = Count[k] /\ pc'[k] = "rest"
        BY <2>1, <2>2, <3>1, <3>2, <4>1 DEF Goto, Shape
      <4> QED BY <3>1, <4>2
    <3>3. CASE k # l
      <4>1. mainPos'[k] = mainPos[k] /\ subPos'[k] = subPos[k] /\ pc'[k] = pc[k]
        BY <2>1, <2>2, <3>1, <3>3 DEF Goto, Shape
      <4> QED BY <4>1 DEF InStep
    <3> QED BY <3>2, <3>3
  <2> QED BY <2>4, <2>5, <2>6
<1> QED BY <1>2, <1>3, <1>4

LEMMA RestStep ==
  ASSUME PollingInv, NEW t \in Thread, Rest(t)
  PROVE  PollingInv'
<1> USE DEF PollingInv
<1>1. Goto(t, "check") /\ pc[t] \notin InsideReader
  BY DEF Rest, InsideReader
<1>2. UNCHANGED <<mainPos, subPos, current, currentSub, holder, address, readings>>
  BY DEF Rest, guidVars, history
<1>3. /\ "check" \in PcLabel \ InsideReader /\ turn' \in Nat \ {0}
      /\ t # Server => turn' = turn
  BY DEF Rest, PcLabel, InReading, InsideReader, Shape
<1>4. /\ pc' \in [Thread -> PcLabel]
      /\ pc'[Server] \in InReading => turn' <= Len(Served)
      /\ Guarded' /\ Fetched' /\ Together' /\ LabelledRight'
  BY <1>1, <1>2, <1>3, OutsideStep
<1>5. Shape'
  BY <1>2, <1>3, <1>4 DEF Shape
<1>6. InStep'
  BY <1>1, <1>2 DEF InStep, Goto, Shape
<1> QED BY <1>4, <1>5, <1>6

(* isEmptyQueue and the end of QueueReqFromServer_thread.                  *)
LEMMA ServeStep ==
  ASSUME PollingInv, ServeCheck \/ ServeDone
  PROVE  PollingInv'
<1> USE DEF PollingInv
<1>1. /\ pc[Server] = "check" /\ Server \in Thread
      /\ UNCHANGED <<mainPos, subPos, current, currentSub, holder, address, readings>>
  BY DEF ServeCheck, ServeDone, guidVars, history, Thread
<1>2. PICK label \in PcLabel \ InsideReader :
        /\ Goto(Server, label) /\ turn' \in Nat \ {0}
        /\ label = "lock" => turn' = turn /\ turn <= Len(Served)
        /\ label # "rewind"
  <2>1. {"check", "lock", "rest"} \subseteq PcLabel \ InsideReader
    BY DEF PcLabel, InReading, InsideReader
  <2>2. CASE ServeCheck /\ LooksEmpty(Served[turn])
    <3>1. pc' = [pc EXCEPT ![Server] = "check"]
      BY <1>1, <2>2 DEF ServeCheck, Shape
    <3>2. Goto(Server, "check")
      BY <3>1 DEF Goto
    <3>3. turn' = turn + 1 /\ turn \in Nat
      BY <2>2 DEF ServeCheck, Shape
    <3>4. "check" \in PcLabel \ InsideReader /\ "check" # "lock" /\ "check" # "rewind"
      BY <2>1
    <3> QED BY <3>2, <3>3, <3>4
  <2>3. CASE ServeCheck /\ ~LooksEmpty(Served[turn])
    BY <2>1, <2>3 DEF ServeCheck, Shape
  <2>4. CASE ServeDone
    BY <2>1, <2>4 DEF ServeDone, Shape
  <2> QED BY <2>2, <2>3, <2>4
<1>3. /\ pc' \in [Thread -> PcLabel]
      /\ pc'[Server] \in InReading => turn' <= Len(Served)
      /\ Guarded' /\ Fetched' /\ Together' /\ LabelledRight'
  BY <1>1, <1>2, OutsideStep DEF InsideReader
<1>4. Shape'
  BY <1>1, <1>2, <1>3 DEF Shape
<1>5. InStep'
  BY <1>1, <1>2 DEF InStep, Goto, Shape
<1> QED BY <1>3, <1>4, <1>5

-----------------------------------------------------------------------------
(* A step of a thread inside a reader, or on its way in or out, leaves the *)
(* other threads and the lines they are at alone.                          *)
LEMMA Others ==
  ASSUME PollingInv, NEW t \in Thread, NEW label, Goto(t, label),
         t # Server => turn' = turn,
         NEW u \in Thread, u # t
  PROVE  pc'[u] = pc[u] /\ LineOf(u)' = LineOf(u)
BY DEF PollingInv, Shape, Goto, LineOf

LEMMA LockStep ==
  ASSUME PollingInv, NEW t \in Thread, Lock(t)
  PROVE  PollingInv'
<1> USE DEF PollingInv
<1>1. /\ pc[t] = "lock" /\ pc[t] \in InReading /\ turn' = turn /\ Goto(t, "next")
      /\ LineOf(t) \in Locked => holder[LineOf(t)] = None
      /\ holder' = IF LineOf(t) \in Locked
                   THEN [holder EXCEPT ![LineOf(t)] = t] ELSE holder
      /\ UNCHANGED <<mainPos, subPos, current, currentSub, address, readings>>
  BY DEF Lock, InReading, guidVars, history
<1>2. LineOf(t) \in Line
  BY <1>1, ReadsALine
<1>3. Shape'
  BY <1>1 DEF Shape, Goto, PcLabel, InReading
<1>4. pc'[t] = "next" /\ LineOf(t)' = LineOf(t)
  BY <1>1 DEF Shape, Goto, LineOf
<1>5. ASSUME NEW u \in Thread, u # t
      PROVE  pc'[u] = pc[u] /\ LineOf(u)' = LineOf(u)
  BY <1>1, <1>5, Others
<1>6. Guarded'
  <2> SUFFICES ASSUME NEW u \in Thread, pc'[u] \in InsideReader, LineOf(u)' \in Locked
               PROVE  holder'[LineOf(u)'] = u
    BY DEF Guarded
  <2>1. CASE u = t
    BY <1>1, <1>2, <1>4, <2>1 DEF Shape
  <2>2. CASE u # t
    <3>1. pc[u] \in InsideReader /\ LineOf(u)' = LineOf(u) /\ LineOf(u) \in Locked
      BY <1>5, <2>2
    <3>2. holder[LineOf(u)] = u /\ u # None
      BY <3>1, PollingAssumption DEF Guarded, Thread, Server, None
    <3>3. LineOf(u) # LineOf(t)
      BY <1>1, <3>1, <3>2
    <3> QED BY <1>1, <3>1, <3>2, <3>3
  <2> QED BY <2>1, <2>2
<1>7. Fetched'
  BY <1>1, <1>4, <1>5 DEF Fetched
<1>8. InStep'
  BY <1>1, PollingAssumption DEF InStep, Goto, Shape, Thread
<1>9. Together' /\ LabelledRight'
  BY <1>1 DEF Together, LabelledRight
<1> QED BY <1>3, <1>6, <1>7, <1>8, <1>9

LEMMA GetAddressStep ==
  ASSUME PollingInv, NEW t \in Thread, GetAddress(t)
  PROVE  PollingInv'
<1> USE DEF PollingInv
<1>1. /\ pc[t] = "address" /\ pc[t] \in InsideReader /\ turn' = turn /\ Goto(t, "guid")
      /\ address' = [address EXCEPT ![t] = current[LineOf(t)]]
      /\ UNCHANGED <<mainPos, subPos, current, currentSub, holder, readings>>
  BY DEF GetAddress, InsideReader, guidVars, history
<1>2. Shape'
  BY <1>1 DEF Shape, Goto, PcLabel, InReading
<1>3. pc'[t] = "guid" /\ LineOf(t)' = LineOf(t)
  BY <1>1 DEF Shape, Goto, LineOf
<1>4. ASSUME NEW u \in Thread, u # t
      PROVE  pc'[u] = pc[u] /\ LineOf(u)' = LineOf(u)
  BY <1>1, <1>4, Others
<1>5. Guarded'
  BY <1>1, <1>3, <1>4 DEF Guarded
<1>6. Fetched'
  <2> SUFFICES ASSUME NEW u \in Thread, pc'[u] = "guid"
               PROVE  address'[u] = current'[LineOf(u)']
    BY DEF Fetched
  <2>1. CASE u = t
    BY <1>1, <1>3, <2>1 DEF Shape
  <2>2. CASE u # t
    BY <1>1, <1>4, <2>2 DEF Shape, Fetched
  <2> QED BY <2>1, <2>2
<1>7. InStep'
  BY <1>1, PollingAssumption DEF InStep, Goto, Shape, Thread
<1>8. Together' /\ LabelledRight'
  BY <1>1 DEF Together, LabelledRight
<1> QED BY <1>2, <1>5, <1>6, <1>7, <1>8

(* next_iterators writes only what belongs to the line, and no other       *)
(* thread is inside the reader of that line.                               *)
LEMMA NextIteratorsStep ==
  ASSUME PollingInv, NEW t \in Thread, pc[t] = "next", Goto(t, "address"),
         UNCHANGED <<turn, holder, address, readings>>,
         DOMAIN current' = Line, DOMAIN currentSub' = Line,
         \A k \in Line \ {LineOf(t)} :
            current'[k] = current[k] /\ currentSub'[k] = currentSub[k],
         LineOf(t) \in Paired => current'[LineOf(t)] = currentSub'[LineOf(t)]
  PROVE  /\ pc' \in [Thread -> PcLabel] /\ pc' = [pc EXCEPT ![t] = "address"]
         /\ pc'[Server] \in InReading => turn' <= Len(Served)
         /\ Guarded' /\ Fetched' /\ Together' /\ LabelledRight'
<1> USE DEF PollingInv
<1>1. pc' \in [Thread -> PcLabel] /\ pc' = [pc EXCEPT ![t] = "address"]
  BY DEF Shape, Goto, PcLabel, InReading
<1>2. pc'[Server] \in InReading => turn' <= Len(Served)
  BY DEF Shape, Goto, InReading, Thread
<1>3. ASSUME NEW u \in Thread, u # t
      PROVE  pc'[u] = pc[u] /\ LineOf(u)' = LineOf(u)
  BY <1>3, Others
<1>4. pc'[t] = "address" /\ LineOf(t)' = LineOf(t)
  BY DEF Shape, Goto, LineOf
<1>5. Guarded'
  BY <1>3, <1>4 DEF Guarded, InsideReader
<1>6. Fetched'
  <2> SUFFICES ASSUME NEW u \in Thread, pc'[u] = "guid"
               PROVE  address'[u] = current'[LineOf(u)']
    BY DEF Fetched
  <2>1. u # t
    BY <1>4
  <2>2. pc[u] = "guid" /\ LineOf(u)' = LineOf(u)
    BY <1>3, <2>1
  <2>3. LineOf(u) # LineOf(t)
    BY <2>1, <2>2, Exclusive DEF InsideReader
  <2>4. LineOf(u) \in Line
    BY <2>2, ReadsALine DEF InReading
  <2> QED BY <2>2, <2>3, <2>4 DEF Fetched
<1>7. Together'
  BY PollingAssumption DEF Together
<1>8. LabelledRight'
  BY DEF LabelledRight
<1> QED BY <1>1, <1>2, <1>5, <1>6, <1>7, <1>8

LEMMA NextOfQueueStep ==
  ASSUME PollingInv, NEW t \in Thread, NextOfQueue(t)
  PROVE  PollingInv'
<1> DEFINE l == LineOf(t)
<1>1. /\ pc[t] = "next" /\ Goto(t, "address")
      /\ current' = [current EXCEPT ![l] = Head(requests[l])]
      /\ currentSub' = [currentSub EXCEPT ![l] = Head(requests[l])]
      /\ UNCHANGED <<mainPos, subPos, turn, holder, address, readings>>
  BY DEF NextOfQueue, history
<1>2. l \in Line
  BY <1>1, ReadsALine DEF PollingInv, InReading
<1>3. /\ DOMAIN current' = Line /\ DOMAIN currentSub' = Line
      /\ \A k \in Line \ {l} :
            current'[k] = current[k] /\ currentSub'[k] = currentSub[k]
      /\ current'[l] = currentSub'[l]
  BY <1>1, <1>2 DEF PollingInv, Shape
<1>4. /\ pc' \in [Thread -> PcLabel] /\ pc' = [pc EXCEPT ![t] = "address"]
      /\ pc'[Server] \in InReading => turn' <= Len(Served)
      /\ Guarded' /\ Fetched' /\ Together' /\ LabelledRight'
  BY <1>1, <1>3, NextIteratorsStep
<1>5. Shape'
  BY <1>1, <1>3, <1>4 DEF PollingInv, Shape
<1>6. InStep'
  BY <1>1, <1>4, PollingAssumption DEF PollingInv, InStep, Shape, Thread
<1> QED BY <1>4, <1>5, <1>6 DEF PollingInv

LEMMA NextOfSweepStep ==
  ASSUME PollingInv, NEW t \in Thread, NextOfSweep(t)
  PROVE  PollingInv'
<1> DEFINE l == LineOf(t)
<1>1. /\ pc[t] = "next" /\ Goto(t, "address")
      /\ mainPos' = [mainPos EXCEPT ![l] = After(mainPos, l)]
      /\ current' = [current EXCEPT ![l] = After(mainPos, l)]
      /\ UNCHANGED <<turn, holder, address, readings>>
  BY DEF NextOfSweep
<1>2. IF l \in Paired
      THEN /\ subPos' = [subPos EXCEPT ![l] = After(subPos, l)]
           /\ currentSub' = [currentSub EXCEPT ![l] = After(subPos, l)]
      ELSE UNCHANGED <<subPos, currentSub>>
  BY DEF NextOfSweep
<1>3. l \in Line /\ (l \in Paired => t = l)
  BY <1>1, ReadsALine DEF PollingInv, InReading
<1>4. l \in Paired => /\ After(mainPos, l) = After(subPos, l)
                      /\ After(mainPos, l) \in 1..Count[l]
  BY SameMeter DEF PollingInv
<1>5. /\ mainPos[l] \in Nat /\ subPos[l] \in Nat
      /\ After(mainPos, l) \in Nat /\ After(subPos, l) \in Nat
  BY <1>3, PollingAssumption DEF PollingInv, Shape, After
<1>6. /\ DOMAIN current' = Line /\ DOMAIN currentSub' = Line
      /\ \A k \in Line \ {l} :
            current'[k] = current[k] /\ currentSub'[k] = currentSub[k]
      /\ l \in Paired => current'[l] = currentSub'[l]
  BY <1>1, <1>2, <1>3, <1>4 DEF PollingInv, Shape
<1>7. /\ pc' \in [Thread -> PcLabel] /\ pc' = [pc EXCEPT ![t] = "address"]
      /\ pc'[Server] \in InReading => turn' <= Len(Served)
      /\ Guarded' /\ Fetched' /\ Together' /\ LabelledRight'
  BY <1>1, <1>6, NextIteratorsStep
<1>8. mainPos' \in [Line -> Nat] /\ subPos' \in [Line -> Nat]
  BY <1>1, <1>2, <1>3, <1>5 DEF PollingInv, Shape
<1>9. Shape'
  BY <1>1, <1>6, <1>7, <1>8 DEF PollingInv, Shape
<1>10. InStep'
  <2> SUFFICES ASSUME NEW k \in Paired
               PROVE  /\ mainPos'[k] <= Count[k]
                      /\ subPos'[k] = mainPos'[k] \/ (mainPos'[k] = 0 /\ subPos'[k] = Count[k])
                      /\ pc'[k] = "rewind" => mainPos'[k] = Count[k]
    BY DEF InStep
  <2>1. k \in Line /\ k \in Thread /\ Count[k] \in Nat
    BY PollingAssumption DEF Thread
  <2>2. CASE k = l
    <3>1. mainPos'[k] = After(mainPos, l) /\ subPos'[k] = After(mainPos, l)
      BY <1>1, <1>2, <1>4, <2>1, <2>2 DEF PollingInv, Shape
    <3>2. pc'[k] = "address"
      BY <1>3, <1>7, <2>1, <2>2 DEF PollingInv, Shape
    <3> QED BY <1>4, <2>1, <2>2, <3>1, <3>2
  <2>3. CASE k # l
    <3>1. mainPos'[k] = mainPos[k] /\ subPos'[k] = subPos[k]
      BY <1>1, <1>2, <2>1, <2>3 DEF PollingInv, Shape
    <3>2. pc'[k] = "rewind" => pc[k] = "rewind"
      BY <1>7, <2>1 DEF PollingInv, Shape
    <3> QED BY <3>1, <3>2 DEF PollingInv, InStep
  <2> QED BY <2>2, <2>3
<1> QED BY <1>7, <1>9, <1>10 DEF PollingInv

LEMMA FinishStep ==
  ASSUME PollingInv, NEW t \in Thread, Finish(t)
  PROVE  PollingInv'
<1> USE DEF PollingInv
<1> DEFINE l == LineOf(t)
<1>1. /\ pc[t] = "guid" /\ Goto(t, "check")
      /\ readings' = readings \cup
           {[line |-> l, address |-> address[t], guid |-> current[l],
             sub |-> IF l \in Paired THEN currentSub[l] ELSE 0]}
      /\ holder' = [holder EXCEPT ![l] = None]
      /\ address' = [address EXCEPT ![t] = 0]
      /\ turn' = IF t = Server THEN turn + 1 ELSE turn
      /\ UNCHANGED <<mainPos, subPos, current, currentSub>>
  BY DEF Finish, guidVars
<1>2. l \in Line
  BY <1>1, ReadsALine DEF InReading
<1>3. Shape'
  BY <1>1 DEF Shape, Goto, PcLabel, InReading, Thread
<1>4. ASSUME NEW u \in Thread, u # t
      PROVE  /\ pc'[u] = pc[u] /\ LineOf(u)' = LineOf(u)
             /\ pc[u] \in InsideReader => LineOf(u) \in Line \ {l}
  <2>1. pc'[u] = pc[u] /\ LineOf(u)' = LineOf(u)
    BY <1>1, <1>4, Others
  <2>2. pc[u] \in InsideReader => LineOf(u) \in Line
    BY ReadsALine DEF InReading, InsideReader
  <2>3. pc[u] \in InsideReader => LineOf(u) # l
    BY <1>1, <1>4, Exclusive DEF InsideReader
  <2> QED BY <2>1, <2>2, <2>3
<1>5. pc'[t] = "check"
  BY <1>1 DEF Shape, Goto
<1>6. Guarded'
  <2> SUFFICES ASSUME NEW u \in Thread, pc'[u] \in InsideReader, LineOf(u)' \in Locked
               PROVE  holder'[LineOf(u)'] = u
    BY DEF Guarded
  <2>1. u # t
    BY <1>5 DEF InsideReader
  <2>2. LineOf(u)' = LineOf(u) /\ LineOf(u) \in Line \ {l} /\ holder[LineOf(u)] = u
    BY <1>4, <2>1 DEF Guarded
  <2> QED BY <1>1, <2>2 DEF Shape
<1>7. Fetched'
  <2> SUFFICES ASSUME NEW u \in Thread, pc'[u] = "guid"
               PROVE  address'[u] = current'[LineOf(u)']
    BY DEF Fetched
  <2>1. u # t
    BY <1>5
  <2>2. pc[u] = "guid" /\ LineOf(u)' = LineOf(u)
    BY <1>4, <2>1
  <2>3. address'[u] = address[u]
    BY <1>1, <2>1 DEF Shape
  <2> QED BY <1>1, <2>2, <2>3 DEF Fetched
<1>8. InStep'
  BY <1>1, PollingAssumption DEF InStep, Goto, Shape, Thread
<1>9. Together'
  BY <1>1 DEF Together
<1>10. LabelledRight'
  <2> SUFFICES ASSUME NEW r \in readings'
               PROVE  r.guid = r.address /\ r.sub \in {0, r.address}
    BY DEF LabelledRight
  <2>1. CASE r \in readings
    BY <2>1 DEF LabelledRight
  <2>2. CASE r = [line |-> l, address |-> address[t], guid |-> current[l],
                  sub |-> IF l \in Paired THEN currentSub[l] ELSE 0]
    <3>1. address[t] = current[l]
      BY <1>1 DEF Fetched
    <3>2. l \in Paired => currentSub[l] = current[l]
      BY DEF Together
    <3>3. /\ r.guid = current[l] /\ r.address = address[t]
          /\ r.sub = IF l \in Paired THEN currentSub[l] ELSE 0
      BY <2>2
    <3> QED BY <3>1, <3>2, <3>3
  <2> QED BY <1>1, <2>1, <2>2
<1> QED BY <1>3, <1>6, <1>7, <1>8, <1>9, <1>10

(* addQueue touches nothing a reading is made of until it is dequeued.     *)
LEMMA IdleStep ==
  ASSUME PollingInv, AddQueue \/ AddNext \/ UNCHANGED vars
  PROVE  PollingInv'
<1>1. UNCHANGED <<mainPos, subPos, current, currentSub, pc, turn, holder, address, readings>>
  BY DEF AddQueue, AddNext, File, vars, guidVars, threadVars, history
<1>2. Shape'
  BY <1>1 DEF PollingInv, Shape
<1>3. Guarded' /\ Fetched'
  BY <1>1 DEF PollingInv, Guarded, Fetched, LineOf
<1>4. InStep' /\ Together' /\ LabelledRight'
  BY <1>1 DEF PollingInv, InStep, Together, LabelledRight
<1> QED BY <1>2, <1>3, <1>4 DEF PollingInv

LEMMA PollingNext == PollingInv /\ [Next]_vars => PollingInv'
<1> SUFFICES ASSUME PollingInv, [Next]_vars PROVE PollingInv'
  OBVIOUS
<1>1. ASSUME NEW t \in Thread, ReadStep(t) PROVE PollingInv'
  BY <1>1, LockStep, NextOfSweepStep, NextOfQueueStep, GetAddressStep, FinishStep
     DEF ReadStep
<1>2. ASSUME NEW l \in Line, Sweeper(l) PROVE PollingInv'
  BY <1>1, <1>2, SweepLogicStep, RestStep DEF Sweeper, Thread
<1>3. ASSUME Serving PROVE PollingInv'
  BY <1>1, <1>3, ServeStep, RestStep DEF Serving, Thread
<1> QED BY <1>2, <1>3, IdleStep DEF Next

(* Whatever the number of lines, meters, requests and their interleaving,  *)
(* a reading is pushed under the guid of the meter it was taken from, and  *)
(* on a paired line with that meter's channel map (read_data of the        *)
(* readers, get_address, get_guid and get_subguid of GuidClass), provided  *)
(* the lines that are served between sweeps are locked and not paired.     *)
THEOREM RightLabels == Spec => []LabelledRight
<1>1. PollingInv => LabelledRight
  BY DEF PollingInv
<1> QED BY PollingInit, PollingNext, <1>1, PTL DEF Spec

(* main_it and sub_it of a paired line never come apart.                   *)
THEOREM IteratorsTogether == Spec => []Together
<1>1. PollingInv => Together
  BY DEF PollingInv
<1> QED BY PollingInit, PollingNext, <1>1, PTL DEF Spec

-----------------------------------------------------------------------------
(* An iterator that moves on gives a meter of its line.                    *)
LEMMA AfterIsMeter ==
  ASSUME TypeOK, NEW l \in Line
  PROVE  After(mainPos, l) \in Meter(l) /\ After(subPos, l) \in Meter(l)
<1>1. mainPos[l] \in 0..Count[l] /\ subPos[l] \in 0..Count[l] /\ Count[l] \in Nat \ {0}
  BY PollingAssumption DEF TypeOK
<1> QED BY <1>1 DEF After, Meter

LEMMA TypeOfSweepLogic ==
  ASSUME TypeOK, NEW l \in Line, HasNextTrue(l) \/ HasNextFalse(l) \/ Rewind(l)
  PROVE  TypeOK'
<1>1. l \in Thread
  BY DEF Thread
<1>2. CASE HasNextTrue(l) \/ HasNextFalse(l)
  <2>1. /\ UNCHANGED <<mainPos, subPos, current, currentSub, requests, filing, filed,
                       turn, holder, address, asked, passed, owed, readings>>
        /\ active' \in [Line -> BOOLEAN]
    BY <1>2 DEF HasNextTrue, HasNextFalse, filingVars, history, TypeOK
  <2>2. pc' \in [Thread -> {"check", "rewind", "rest", "lock", "next", "address", "guid"}]
    BY <1>1, <1>2 DEF HasNextTrue, HasNextFalse, Goto, TypeOK
  <2> QED BY <2>1, <2>2 DEF TypeOK
<1>3. CASE Rewind(l)
  <2>1. UNCHANGED <<subPos, current, currentSub, requests, filing, filed, active,
                    turn, holder, address, asked, owed, readings>>
    BY <1>3 DEF Rewind, filingVars
  <2>2. mainPos' \in [Line -> Nat] /\ \A k \in Line : mainPos'[k] <= Count[k]
    <3>1. mainPos' = [mainPos EXCEPT ![l] = 0] /\ mainPos \in [Line -> Nat]
      BY <1>3 DEF Rewind, TypeOK
    <3>2. ASSUME NEW k \in Line PROVE mainPos'[k] <= Count[k]
      <4>1. mainPos'[k] = 0 \/ mainPos'[k] = mainPos[k]
        BY <3>1
      <4>2. Count[k] \in Nat /\ mainPos[k] <= Count[k]
        BY PollingAssumption DEF TypeOK
      <4> QED BY <4>1, <4>2
    <3> QED BY <3>1, <3>2
  <2>3. pc' \in [Thread -> {"check", "rewind", "rest", "lock", "next", "address", "guid"}]
    BY <1>1, <1>3 DEF Rewind, Goto, TypeOK
  <2>4. passed' \in [Line -> SUBSET Nat] /\ \A k \in Line : passed'[k] \subseteq Meter(k)
    BY <1>3 DEF Rewind, TypeOK
  <2> QED BY <2>1, <2>2, <2>3, <2>4 DEF TypeOK
<1> QED BY <1>2, <1>3

(* The serving thread is at a line or has just passed the last one.        *)
LEMMA TypeOfServing ==
  ASSUME TypeOK, NEW t \in Thread, Rest(t) \/ ServeCheck \/ ServeDone
  PROVE  TypeOK'
<1>1. UNCHANGED <<mainPos, subPos, current, currentSub, requests, filing, filed, active,
                  holder, address, asked, passed, owed, readings>>
  BY DEF Rest, ServeCheck, ServeDone, guidVars, filingVars, history
<1>2. Server \in Thread /\ Len(Served) \in Nat
  BY PollingAssumption DEF Thread
<1>3. turn' \in 1..(Len(Served) + 1)
  BY <1>2 DEF Rest, ServeCheck, ServeDone, TypeOK
<1>4. pc' \in [Thread -> {"check", "rewind", "rest", "lock", "next", "address", "guid"}]
  BY <1>2 DEF Rest, ServeCheck, ServeDone, Goto, TypeOK
<1> QED BY <1>1, <1>3, <1>4 DEF TypeOK

LEMMA TypeOfReading ==
  ASSUME PollingInv, TypeOK, NEW t \in Thread, ReadStep(t)
  PROVE  TypeOK'
<1>1. pc[t] \in InReading
  BY DEF ReadStep, Lock, NextOfSweep, NextOfQueue, GetAddress, Finish, InReading
<1> DEFINE l == LineOf(t)
<1>2. l \in Line
  BY <1>1, ReadsALine DEF PollingInv
<1>3. ASSUME NEW label \in {"next", "address", "guid", "check"}, Goto(t, label)
      PROVE  pc' \in [Thread -> {"check", "rewind", "rest", "lock", "next", "address", "guid"}]
  BY <1>3 DEF Goto, TypeOK
<1>4. CASE Lock(t)
  <2>1. UNCHANGED <<mainPos, subPos, current, currentSub, requests, filing, filed, active,
                    turn, address, asked, passed, owed, readings>>
    BY <1>4 DEF Lock, guidVars, filingVars, history
  <2>2. holder' \in [Line -> Thread \cup {None}]
    BY <1>4 DEF Lock, TypeOK
  <2> QED BY <1>3, <1>4, <2>1, <2>2 DEF Lock, TypeOK
<1>5. CASE NextOfSweep(t)
  <2>1. UNCHANGED <<requests, filing, filed, active, turn, holder, address, asked, owed, readings>>
    BY <1>5 DEF NextOfSweep, filingVars
  <2>2. After(mainPos, l) \in Meter(l) /\ After(subPos, l) \in Meter(l)
        /\ \A n \in Meter(l) : n \in Nat /\ n <= Count[l]
    BY <1>2, AfterIsMeter, PollingAssumption DEF Meter
  <2>3. /\ mainPos' = [mainPos EXCEPT ![l] = After(mainPos, l)]
        /\ current' = [current EXCEPT ![l] = After(mainPos, l)]
        /\ passed' = [passed EXCEPT ![l] = @ \cup {After(mainPos, l)}]
        /\ \/ subPos' = [subPos EXCEPT ![l] = After(subPos, l)]
              /\ currentSub' = [currentSub EXCEPT ![l] = After(subPos, l)]
           \/ UNCHANGED <<subPos, currentSub>>
    BY <1>5 DEF NextOfSweep
  <2>4. /\ mainPos' \in [Line -> Nat] /\ \A k \in Line : mainPos'[k] <= Count[k]
        /\ current' \in [Line -> Nat]
    BY <2>2, <2>3 DEF TypeOK
  <2>5. /\ subPos' \in [Line -> Nat] /\ \A k \in Line : subPos'[k] <= Count[k]
        /\ currentSub' \in [Line -> Nat]
    BY <2>2, <2>3 DEF TypeOK
  <2>6. passed' \in [Line -> SUBSET Nat] /\ \A k \in Line : passed'[k] \subseteq Meter(k)
    BY <2>2, <2>3 DEF TypeOK
  <2> QED BY <1>3, <1>5, <2>1, <2>4, <2>5, <2>6 DEF NextOfSweep, TypeOK
<1>6. CASE NextOfQueue(t)
  <2>1. UNCHANGED <<mainPos, subPos, filing, filed, active, turn, holder, address,
                    asked, passed, owed, readings>>
    BY <1>6 DEF NextOfQueue, filingVars, history
  <2>2. requests[l] \in Seq(Meter(l)) /\ requests[l] # <<>>
    BY <1>2, <1>6 DEF NextOfQueue, TypeOK
  <2>3. /\ Head(requests[l]) \in Nat /\ Tail(requests[l]) \in Seq(Meter(l))
        /\ Tail(requests[l]) \in Seq(Nat)
    <3>1. Meter(l) \subseteq Nat
      BY <1>2, PollingAssumption DEF Meter
    <3>2. requests[l] \in Seq(Nat)
      BY <1>2 DEF TypeOK
    <3> HIDE DEF l
    <3> QED BY <2>2, <3>1, <3>2
  <2>4. /\ current' = [current EXCEPT ![l] = Head(requests[l])]
        /\ currentSub' = [currentSub EXCEPT ![l] = Head(requests[l])]
        /\ requests' = [requests EXCEPT ![l] = Tail(requests[l])]
    BY <1>6 DEF NextOfQueue
  <2>5. current' \in [Line -> Nat] /\ currentSub' \in [Line -> Nat]
    BY <2>3, <2>4 DEF TypeOK
  <2>6. requests' \in [Line -> Seq(Nat)] /\ \A k \in Line : requests'[k] \in Seq(Meter(k))
    BY <2>3, <2>4, <1>2 DEF TypeOK
  <2> QED BY <1>3, <1>6, <2>1, <2>5, <2>6 DEF NextOfQueue, TypeOK
<1>7. CASE GetAddress(t)
  <2>1. UNCHANGED <<mainPos, subPos, current, currentSub, requests, filing, filed, active,
                    turn, holder, asked, passed, owed, readings>>
    BY <1>7 DEF GetAddress, guidVars, filingVars, history
  <2>2. address' \in [Thread -> Nat]
    BY <1>2, <1>7 DEF GetAddress, TypeOK
  <2> QED BY <1>3, <1>7, <2>1, <2>2 DEF GetAddress, TypeOK
<1>8. CASE Finish(t)
  <2>1. UNCHANGED <<mainPos, subPos, current, currentSub, requests, filing, filed, active,
                    asked, passed>>
    BY <1>8 DEF Finish, guidVars, filingVars
  <2>2. holder' \in [Line -> Thread \cup {None}] /\ address' \in [Thread -> Nat]
    BY <1>8 DEF Finish, TypeOK
  <2>3. turn' \in 1..(Len(Served) + 1)
    <3>1. t = Server => turn <= Len(Served)
      BY <1>1 DEF PollingInv, Shape
    <3> QED BY <1>8, <3>1, PollingAssumption DEF Finish, TypeOK
  <2>4. owed' \subseteq AnyMeter
    BY <1>8 DEF Finish, TypeOK
  <2>5. readings' \subseteq Label
    BY <1>2, <1>8 DEF Finish, TypeOK, Label
  <2> QED BY <1>3, <1>8, <2>1, <2>2, <2>3, <2>4, <2>5 DEF Finish, TypeOK
<1> QED BY <1>4, <1>5, <1>6, <1>7, <1>8 DEF ReadStep

(* Filing the head of a list of meters.                                    *)
LEMMA TypeOfFiling ==
  ASSUME TypeOK, AddQueue \/ AddNext
  PROVE  TypeOK'
<1>1. PICK list, seen : /\ list \in Seq(AnyMeter) /\ list # <<>> /\ seen \subseteq AnyMeter
                        /\ File(list, seen) /\ asked' \in 0..MaxAsked
  <2>1. CASE AddQueue
    <3>1. PICK n \in 1..(MaxAsked - asked) : \E list \in [1..n -> AnyMeter] :
                File(list, {}) /\ asked' = asked + n
      BY <2>1 DEF AddQueue
    <3>2. PICK list \in [1..n -> AnyMeter] : File(list, {}) /\ asked' = asked + n
      BY <3>1
    <3>3. n \in Nat \ {0} /\ asked + n \in 0..MaxAsked
      BY <3>1, PollingAssumption DEF TypeOK
    <3>5. list \in Seq(AnyMeter) /\ Len(list) = n
      BY <3>3
    <3>4. list # <<>> /\ asked' \in 0..MaxAsked
      BY <3>2, <3>3, <3>5
    <3> QED BY <3>2, <3>4, <3>5
  <2>2. CASE AddNext
    BY <2>2 DEF AddNext, TypeOK
  <2> QED BY <2>1, <2>2
<1> DEFINE m == Head(list)
<1>2. m \in AnyMeter /\ Tail(list) \in Seq(AnyMeter)
  BY <1>1
<1>3. m[1] \in Line /\ m[2] \in Meter(m[1])
  BY <1>2 DEF AnyMeter
<1>4. requests' \in [Line -> Seq(Nat)] /\ \A k \in Line : requests'[k] \in Seq(Meter(k))
  <2>1. requests' = requests \/ requests' = [requests EXCEPT ![m[1]] = Append(requests[m[1]], m[2])]
    BY <1>1 DEF File
  <2>2. m[2] \in Nat
    BY <1>3, PollingAssumption DEF Meter
  <2>3. /\ requests \in [Line -> Seq(Nat)]
        /\ \A k \in Line : requests[k] \in Seq(Meter(k))
    BY DEF TypeOK
  <2>4. /\ Append(requests[m[1]], m[2]) \in Seq(Meter(m[1]))
        /\ Append(requests[m[1]], m[2]) \in Seq(Nat)
    BY <1>3, <2>2, <2>3
  <2> QED BY <2>1, <2>3, <2>4
<1>5. /\ filing' = Tail(list) /\ owed' = owed \cup {m}
      /\ filed' = {} \/ filed' = seen \cup {m}
      /\ UNCHANGED <<mainPos, subPos, current, currentSub, active, pc, turn, holder, address,
                     passed, readings>>
  BY <1>1 DEF File, threadVars
<1> QED BY <1>1, <1>2, <1>4, <1>5 DEF TypeOK

LEMMA TypeNext == PollingInv /\ TypeOK /\ [Next]_vars => TypeOK'
<1> SUFFICES ASSUME PollingInv, TypeOK, [Next]_vars PROVE TypeOK'
  OBVIOUS
<1>1. CASE UNCHANGED vars
  BY <1>1 DEF vars, guidVars, filingVars, threadVars, history, TypeOK
<1>2. ASSUME NEW l \in Line, Sweeper(l) PROVE TypeOK'
  BY <1>2, TypeOfSweepLogic, TypeOfServing, TypeOfReading DEF Sweeper, Thread
<1>3. CASE Serving
  BY <1>3, TypeOfServing, TypeOfReading DEF Serving, Thread
<1> QED BY <1>1, <1>2, <1>3, TypeOfFiling DEF Next

LEMMA TypeInit == Init => TypeOK
<1> SUFFICES ASSUME Init PROVE TypeOK
  OBVIOUS
<1>1. Len(Served) \in Nat
  BY PollingAssumption
<1> QED BY <1>1, PollingAssumption DEF Init, TypeOK, Thread, None

(* The types: no iterator leaves its list, the serving thread looks at no  *)
(* line past its last one, a queue holds meters of its own line.           *)
THEOREM PollingTypeCorrect == Spec => []TypeOK
<1>1. Init => PollingInv /\ TypeOK
  BY PollingInit, TypeInit
<1>2. PollingInv /\ TypeOK /\ [Next]_vars => (PollingInv /\ TypeOK)'
  BY PollingNext, TypeNext
<1> QED BY <1>1, <1>2, PTL DEF Spec

-----------------------------------------------------------------------------
(* Since the sweep before main_it has given every meter it stands behind,  *)
(* also when it has started over in between for a request or for another   *)
(* thread; hasNext finds none left only when it stands behind them all.    *)
Passed ==
    \A l \in Line : 1..mainPos[l] \subseteq passed[l]

LEMMA PassedNext ==
  ASSUME PollingInv, TypeOK, Passed, SweepComplete, [Next]_vars
  PROVE  Passed' /\ SweepComplete'
<1> USE DEF Passed, SweepComplete
<1>0. /\ mainPos \in [Line -> Nat] /\ passed \in [Line -> SUBSET Nat]
      /\ pc \in [Thread -> {"check", "rewind", "rest", "lock", "next", "address", "guid"}]
      /\ \A l \in Line : passed[l] \subseteq Meter(l)
      /\ Line \subseteq Thread
  BY DEF TypeOK, Thread
<1>1. ASSUME UNCHANGED <<mainPos, passed>>,
             NEW t \in Thread, NEW label, label # "rewind", pc' = pc \/ Goto(t, label)
      PROVE  Passed' /\ SweepComplete'
  <2>1. \A l \in Line : pc'[l] = "rewind" => pc[l] = "rewind"
    BY <1>0, <1>1 DEF Goto
  <2> QED BY <1>1, <2>1 DEF Meter
<1>2. ASSUME NEW l \in Line, HasNextTrue(l) PROVE Passed' /\ SweepComplete'
  BY <1>0, <1>1, <1>2 DEF HasNextTrue, history
<1>3. ASSUME NEW l \in Line, HasNextFalse(l) PROVE Passed' /\ SweepComplete'
  <2>1. /\ UNCHANGED <<mainPos, passed>> /\ mainPos[l] = Count[l]
        /\ pc' = [pc EXCEPT ![l] = "rewind"]
    BY <1>3 DEF HasNextFalse, history, Goto
  <2>2. passed[l] = Meter(l)
    BY <1>0, <2>1 DEF Meter
  <2>3. \A k \in Line : pc'[k] = "rewind" => k = l \/ pc[k] = "rewind"
    BY <1>0, <2>1
  <2> QED BY <2>1, <2>2, <2>3 DEF Meter
<1>4. ASSUME NEW l \in Line, Rewind(l) PROVE Passed' /\ SweepComplete'
  <2>1. /\ mainPos' = [mainPos EXCEPT ![l] = 0] /\ passed' = [passed EXCEPT ![l] = {}]
        /\ pc' = [pc EXCEPT ![l] = "rest"]
    BY <1>4 DEF Rewind, Goto
  <2>2. ASSUME NEW k \in Line
        PROVE  1..mainPos'[k] \subseteq passed'[k] /\ (pc'[k] = "rewind" => passed'[k] = Meter(k))
    <3>1. CASE k = l
      BY <1>0, <2>1, <3>1
    <3>2. CASE k # l
      BY <1>0, <2>1, <3>2
    <3> QED BY <3>1, <3>2
  <2> QED BY <2>2 DEF Meter
<1>5. ASSUME NEW t \in Thread, Rest(t) \/ ServeCheck \/ ServeDone \/ Lock(t) \/ NextOfQueue(t)
                               \/ GetAddress(t) \/ Finish(t)
      PROVE  Passed' /\ SweepComplete'
  <2>1. UNCHANGED <<mainPos, passed>>
    BY <1>5 DEF Rest, ServeCheck, ServeDone, Lock, NextOfQueue, GetAddress, Finish,
                guidVars, history
  <2>2. \/ pc' = pc
        \/ \E u \in Thread : \E label \in {"check", "rest", "lock", "next", "address", "guid"} :
              Goto(u, label)
    BY <1>5 DEF Rest, ServeCheck, ServeDone, Lock, NextOfQueue, GetAddress, Finish, Thread
  <2> QED BY <1>1, <2>1, <2>2
<1>6. ASSUME NEW t \in Thread, NextOfSweep(t) PROVE Passed' /\ SweepComplete'
  <2> DEFINE l == LineOf(t)
  <2>1. l \in Line
    BY <1>6, ReadsALine DEF PollingInv, NextOfSweep, InReading
  <2>2. /\ mainPos' = [mainPos EXCEPT ![l] = After(mainPos, l)]
        /\ passed' = [passed EXCEPT ![l] = @ \cup {After(mainPos, l)}]
        /\ pc' = [pc EXCEPT ![t] = "address"]
    BY <1>6 DEF NextOfSweep, Goto
  <2>3. After(mainPos, l) \in Meter(l)
    BY <2>1, AfterIsMeter
  <2>4. 1..After(mainPos, l) \subseteq passed[l] \cup {After(mainPos, l)}
    <3>1. mainPos[l] \in Nat /\ 1..mainPos[l] \subseteq passed[l]
      BY <1>0, <2>1
    <3> HIDE DEF l
    <3>2. After(mainPos, l) \in {mainPos[l] + 1, 1}
      BY DEF After
    <3> QED BY <3>1, <3>2
  <2>5. ASSUME NEW k \in Line
        PROVE  1..mainPos'[k] \subseteq passed'[k] /\ (pc'[k] = "rewind" => passed'[k] = Meter(k))
    <3>1. pc'[k] = "rewind" => pc[k] = "rewind"
      BY <1>0, <2>2
    <3>2. CASE k = l
      <4>1. mainPos'[k] = After(mainPos, l) /\ passed'[k] = passed[l] \cup {After(mainPos, l)}
        BY <1>0, <2>1, <2>2, <3>2
      <4> QED BY <2>1, <2>3, <2>4, <3>1, <3>2, <4>1
    <3>3. CASE k # l
      <4>1. mainPos'[k] = mainPos[k] /\ passed'[k] = passed[k]
        BY <1>0, <2>2, <3>3
      <4> QED BY <3>1, <4>1
    <3> QED BY <3>2, <3>3
  <2> QED BY <2>5 DEF Meter
<1>7. CASE AddQueue \/ AddNext \/ UNCHANGED vars
  <2>1. UNCHANGED <<mainPos, passed, pc>>
    BY <1>7 DEF AddQueue, AddNext, File, vars, guidVars, threadVars, history
  <2> QED BY <2>1 DEF Meter
<1>8. ASSUME NEW t \in Thread, ReadStep(t) PROVE Passed' /\ SweepComplete'
  BY <1>5, <1>6, <1>8 DEF ReadStep
<1>9. ASSUME NEW l \in Line, Sweeper(l) PROVE Passed' /\ SweepComplete'
  BY <1>0, <1>2, <1>3, <1>4, <1>5, <1>8, <1>9 DEF Sweeper
<1>10. CASE Serving
  BY <1>5, <1>8, <1>10 DEF Serving, Thread
<1> QED BY <1>7, <1>9, <1>10 DEF Next

(* SweepComplete: when hasNext says that no meter of a line is left, each  *)
(* one was given out since the sweep before, whatever requests came in     *)
(* between and whoever served them.                                        *)
THEOREM SweepsComplete == Spec => []SweepComplete
<1>1. Init => PollingInv /\ TypeOK /\ Passed /\ SweepComplete
  <2>1. ASSUME Init PROVE Passed /\ SweepComplete
    BY <2>1 DEF Init, Passed, SweepComplete, Thread
  <2> QED BY <2>1, PollingInit, TypeInit
<1>2. PollingInv /\ TypeOK /\ Passed /\ SweepComplete /\ [Next]_vars
        => (PollingInv /\ TypeOK /\ Passed /\ SweepComplete)'
  BY PollingNext, TypeNext, PassedNext
<1> QED BY <1>1, <1>2, PTL DEF Spec

-----------------------------------------------------------------------------
(* A requested meter waits in the queue of its line.                       *)
Waits(m) == \E i \in DOMAIN requests[m[1]] : requests[m[1]][i] = m[2]

(* Thread t has taken the request and is reading the meter.                *)
Holds(t, m) ==
    /\ pc[t] \in {"address", "guid"} /\ LineOf(t) = m[1]
    /\ \/ pc[t] = "address" /\ current[m[1]] = m[2]
       \/ pc[t] = "guid" /\ address[t] = m[2]

LEMMA NotLost == NoRequestLost <=> \A m \in owed : Waits(m) \/ \E t \in Thread : Holds(t, m)
BY DEF NoRequestLost, Waits, Holds

(* Of a queue whose head is taken every other meter is left.               *)
LEMMA HeadOrTail ==
  ASSUME NEW S, NEW q \in Seq(S), q # <<>>, NEW i \in DOMAIN q
  PROVE  q[i] = Head(q) \/ \E j \in DOMAIN Tail(q) : Tail(q)[j] = q[i]
<1>1. CASE i = 1
  BY <1>1
<1>2. CASE i # 1
  <2>1. i - 1 \in DOMAIN Tail(q) /\ Tail(q)[i - 1] = q[i]
    BY <1>2
  <2> QED BY <2>1
<1> QED BY <1>1, <1>2

(* A queue keeps what it holds when something is added.                    *)
LEMMA Appended ==
  ASSUME NEW S, NEW q \in Seq(S), NEW x
  PROVE  /\ \A i \in DOMAIN q : i \in DOMAIN Append(q, x) /\ Append(q, x)[i] = q[i]
         /\ Len(q) + 1 \in DOMAIN Append(q, x) /\ Append(q, x)[Len(q) + 1] = x
OBVIOUS

(* While a list is being filed nothing is taken from the queues, so each   *)
(* meter filed so far is still there.                                      *)
FiledWait == filing # <<>> => \A m \in filed : Waits(m)

LEMMA RequestsInit == Init => NoRequestLost /\ FiledWait
BY DEF Init, NoRequestLost, FiledWait

(* Steps that take nothing from a queue and let no thread that reads go.   *)
LEMMA KeepRequests ==
  ASSUME PollingInv, TypeOK, NoRequestLost, FiledWait,
         UNCHANGED <<requests, filing, filed, owed>>,
         \A t \in Thread, m \in AnyMeter : Holds(t, m) => Holds(t, m)'
  PROVE  NoRequestLost' /\ FiledWait'
<1>1. \A m : Waits(m)' <=> Waits(m)
  BY DEF Waits
<1>2. owed \subseteq AnyMeter
  BY DEF TypeOK
<1>3. \A m \in owed' : Waits(m)' \/ \E t \in Thread : Holds(t, m)'
  BY <1>1, <1>2, NotLost
<1>4. NoRequestLost'
  BY <1>3 DEF NoRequestLost, Waits, Holds
<1> QED BY <1>1, <1>4 DEF FiledWait

(* A step of one thread leaves what another holds: next_iterators writes   *)
(* current_guid only of a line nobody else is reading.                     *)
LEMMA OthersHold ==
  ASSUME PollingInv, NEW t \in Thread, NEW label, Goto(t, label),
         t # Server => turn' = turn,
         NEW u \in Thread, u # t, NEW m \in AnyMeter, Holds(u, m),
         address'[u] = address[u],
         \/ current' = current
         \/ /\ pc[t] = "next"
            /\ \A k \in Line \ {LineOf(t)} : current'[k] = current[k]
  PROVE  Holds(u, m)'
<1>1. pc'[u] = pc[u] /\ LineOf(u)' = LineOf(u)
  BY Others
<1>2. m[1] \in Line
  BY DEF AnyMeter
<1>3. current'[m[1]] = current[m[1]]
  <2>1. CASE current' = current
    BY <2>1
  <2>2. CASE pc[t] = "next" /\ \A k \in Line \ {LineOf(t)} : current'[k] = current[k]
    <3>1. pc[t] \in InsideReader /\ pc[u] \in InsideReader /\ LineOf(u) = m[1]
      BY <2>2 DEF InsideReader, Holds
    <3>2. LineOf(t) # m[1]
      BY <3>1, Exclusive DEF PollingInv
    <3> QED BY <1>2, <2>2, <3>2
  <2> QED BY <2>1, <2>2
<1> QED BY <1>1, <1>3 DEF Holds

(* hasNext and the rest of the sweeper's loop, and the look at the queues. *)
LEMMA RequestsOutside ==
  ASSUME PollingInv, TypeOK, NoRequestLost, FiledWait, NEW t \in Thread,
         \/ t \in Line /\ (HasNextTrue(t) \/ HasNextFalse(t) \/ Rewind(t))
         \/ Rest(t) \/ Lock(t)
         \/ t = Server /\ (ServeCheck \/ ServeDone)
  PROVE  NoRequestLost' /\ FiledWait'
<1>1. /\ pc[t] \notin {"address", "guid"}
      /\ UNCHANGED <<requests, filing, filed, owed, current, address>>
      /\ t # Server => turn' = turn
  BY DEF HasNextTrue, HasNextFalse, Rewind, Rest, Lock, ServeCheck, ServeDone,
         guidVars, filingVars, history
<1>2. \E label : Goto(t, label)
  <2>1. CASE ServeCheck /\ t = Server
    BY <2>1 DEF ServeCheck, Goto, TypeOK
  <2>2. CASE ~(ServeCheck /\ t = Server)
    BY <2>2 DEF HasNextTrue, HasNextFalse, Rewind, Rest, Lock, ServeDone
  <2> QED BY <2>1, <2>2
<1>3. ASSUME NEW u \in Thread, NEW m \in AnyMeter, Holds(u, m) PROVE Holds(u, m)'
  <2>1. u # t
    BY <1>1, <1>3 DEF Holds
  <2> QED BY <1>1, <1>2, <1>3, <2>1, OthersHold
<1> QED BY <1>1, <1>3, KeepRequests

(* The steps of read_data.                                                 *)
LEMMA RequestsReading ==
  ASSUME PollingInv, TypeOK, NoRequestLost, FiledWait, NEW t \in Thread,
         NextOfSweep(t) \/ NextOfQueue(t) \/ GetAddress(t) \/ Finish(t)
  PROVE  NoRequestLost' /\ FiledWait'
<1> DEFINE l == LineOf(t)
<1>0. l \in Line
  BY ReadsALine DEF PollingInv, NextOfSweep, NextOfQueue, GetAddress, Finish, InReading
<1>1. CASE NextOfSweep(t)
  <2>1. /\ pc[t] = "next" /\ Goto(t, "address") /\ current' = [current EXCEPT ![l] = After(mainPos, l)]
        /\ UNCHANGED <<requests, filing, filed, turn, address, owed>>
    BY <1>1 DEF NextOfSweep, filingVars
  <2>2. \A k \in Line \ {l} : current'[k] = current[k]
    BY <2>1 DEF TypeOK
  <2>3. ASSUME NEW u \in Thread, NEW m \in AnyMeter, Holds(u, m) PROVE Holds(u, m)'
    <3>1. u # t
      BY <2>1, <2>3 DEF Holds
    <3> QED BY <2>1, <2>2, <2>3, <3>1, OthersHold
  <2> QED BY <2>1, <2>3, KeepRequests
<1>2. CASE GetAddress(t)
  <2>1. /\ pc[t] = "address" /\ Goto(t, "guid") /\ address' = [address EXCEPT ![t] = current[l]]
        /\ UNCHANGED <<requests, filing, filed, turn, current, owed>>
    BY <1>2 DEF GetAddress, guidVars, filingVars, history
  <2>2. ASSUME NEW u \in Thread, NEW m \in AnyMeter, Holds(u, m) PROVE Holds(u, m)'
    <3>1. CASE u # t
      <4>1. address'[u] = address[u]
        BY <2>1, <3>1 DEF TypeOK
      <4> QED BY <2>1, <2>2, <3>1, <4>1, OthersHold
    <3>2. CASE u = t
      <4>1. LineOf(t) = m[1] /\ current[m[1]] = m[2]
        BY <2>1, <2>2, <3>2 DEF Holds
      <4>2. pc'[t] = "guid" /\ address'[t] = m[2] /\ LineOf(t)' = m[1]
        BY <2>1, <4>1 DEF Goto, TypeOK, LineOf
      <4> QED BY <3>2, <4>2 DEF Holds
    <3> QED BY <3>1, <3>2
  <2> QED BY <2>1, <2>2, KeepRequests
<1>3. CASE Finish(t)
  <2>1. /\ pc[t] = "guid" /\ Goto(t, "check") /\ owed' = owed \ {<<l, address[t]>>}
        /\ address' = [address EXCEPT ![t] = 0] /\ (t # Server => turn' = turn)
        /\ UNCHANGED <<requests, filing, filed, current>>
    BY <1>3 DEF Finish, guidVars, filingVars
  <2>2. \A m : Waits(m)' <=> Waits(m)
    BY <2>1 DEF Waits
  <2>3. ASSUME NEW m \in owed' PROVE Waits(m)' \/ \E u \in Thread : Holds(u, m)'
    <3>1. m \in owed /\ m \in AnyMeter /\ m # <<l, address[t]>>
      BY <2>1, <2>3 DEF TypeOK
    <3>2. ASSUME NEW u \in Thread, Holds(u, m) PROVE Holds(u, m)'
      <4>1. u # t
        <5>1. m = <<m[1], m[2]>>
          BY <3>1 DEF AnyMeter
        <5> QED BY <2>1, <3>1, <3>2, <5>1 DEF Holds
      <4>2. address'[u] = address[u]
        BY <2>1, <4>1 DEF TypeOK
      <4> QED BY <2>1, <3>1, <3>2, <4>1, <4>2, OthersHold
    <3> QED BY <2>2, <3>1, <3>2, NotLost
  <2>4. NoRequestLost'
    BY <2>3 DEF NoRequestLost, Waits, Holds
  <2> QED BY <2>1, <2>2, <2>4 DEF FiledWait
<1>4. CASE NextOfQueue(t)
  <2>1. /\ pc[t] = "next" /\ Goto(t, "address") /\ current' = [current EXCEPT ![l] = Head(requests[l])]
        /\ requests' = [requests EXCEPT ![l] = Tail(requests[l])]
        /\ requests[l] # <<>> /\ filing = <<>>
        /\ UNCHANGED <<filing, turn, address, owed>>
    BY <1>4 DEF NextOfQueue, filingVars, history
  <2>2. \A k \in Line \ {l} : current'[k] = current[k]
    BY <2>1 DEF TypeOK
  <2>3. ASSUME NEW m \in owed' PROVE Waits(m)' \/ \E u \in Thread : Holds(u, m)'
    <3>1. m \in owed /\ m \in AnyMeter /\ m[1] \in Line
      BY <2>1, <2>3 DEF TypeOK, AnyMeter
    <3>2. ASSUME NEW u \in Thread, Holds(u, m) PROVE Holds(u, m)'
      <4>1. u # t
        BY <2>1, <3>2 DEF Holds
      <4> QED BY <2>1, <2>2, <3>1, <3>2, <4>1, OthersHold
    <3>3. ASSUME Waits(m) PROVE Waits(m)' \/ Holds(t, m)'
      <4>1. CASE m[1] # l
        BY <2>1, <3>1, <3>3, <4>1 DEF Waits, TypeOK
      <4>2. CASE m[1] = l
        <5>1. PICK i \in DOMAIN requests[l] : requests[l][i] = m[2]
          BY <3>3, <4>2 DEF Waits
        <5>2. requests[l] \in Seq(Nat)
          BY <1>0 DEF TypeOK
        <5>3. CASE m[2] = Head(requests[l])
          <6>1. pc'[t] = "address" /\ LineOf(t)' = l /\ current'[l] = m[2]
            BY <1>0, <2>1, <5>3 DEF Goto, TypeOK, LineOf
          <6> QED BY <4>2, <6>1 DEF Holds
        <5>4. CASE \E j \in DOMAIN Tail(requests[l]) : Tail(requests[l])[j] = m[2]
          <6>1. requests'[l] = Tail(requests[l])
            BY <1>0, <2>1 DEF TypeOK
          <6> QED BY <4>2, <5>4, <6>1 DEF Waits
        <5>5. \/ m[2] = Head(requests[l])
              \/ \E j \in DOMAIN Tail(requests[l]) : Tail(requests[l])[j] = m[2]
          BY <2>1, <5>1, <5>2, HeadOrTail
        <5> QED BY <5>3, <5>4, <5>5
      <4> QED BY <4>1, <4>2
    <3> QED BY <3>1, <3>2, <3>3, NotLost
  <2>4. NoRequestLost'
    BY <2>3 DEF NoRequestLost, Waits, Holds
  <2> QED BY <2>1, <2>4 DEF FiledWait
<1> QED BY <1>1, <1>2, <1>3, <1>4

(* addQueue: a meter looked up before in the same list still waits, so it  *)
(* need not be added again.                                                *)
LEMMA RequestsFiling ==
  ASSUME PollingInv, TypeOK, NoRequestLost, FiledWait, AddQueue \/ AddNext
  PROVE  NoRequestLost' /\ FiledWait'
<1>1. PICK list, seen :
        /\ Head(list) \in AnyMeter /\ File(list, seen)
        /\ \A m \in seen : m \in AnyMeter /\ Waits(m)
  <2>1. CASE AddQueue
    <3>1. PICK n \in 1..(MaxAsked - asked) : \E list \in [1..n -> AnyMeter] : File(list, {})
      BY <2>1 DEF AddQueue
    <3>2. PICK list \in [1..n -> AnyMeter] : File(list, {})
      BY <3>1
    <3>3. n \in Nat \ {0}
      BY <3>1, PollingAssumption DEF TypeOK
    <3>4. Head(list) \in AnyMeter
      BY <3>3
    <3> QED BY <3>2, <3>4
  <2>2. CASE AddNext
    <3>1. Head(filing) \in AnyMeter
      BY <2>2 DEF AddNext, TypeOK
    <3>2. \A m \in filed : m \in AnyMeter /\ Waits(m)
      BY <2>2 DEF AddNext, TypeOK, FiledWait
    <3> QED BY <2>2, <3>1, <3>2 DEF AddNext
  <2> QED BY <2>1, <2>2
<1> DEFINE h == Head(list)
<1>2. /\ h[1] \in Line
      /\ owed' = owed \cup {h}
      /\ filed' = {} \/ filed' = seen \cup {h}
      /\ UNCHANGED <<current, pc, turn, address>>
  BY <1>1 DEF File, threadVars, AnyMeter
<1>3. \/ requests' = requests /\ h \in seen
      \/ requests' = [requests EXCEPT ![h[1]] = Append(requests[h[1]], h[2])]
  BY <1>1 DEF File, Known
<1>4. ASSUME NEW m \in AnyMeter, Waits(m) PROVE Waits(m)'
  <2>1. CASE requests' = requests
    BY <1>4, <2>1 DEF Waits
  <2>2. CASE requests' = [requests EXCEPT ![h[1]] = Append(requests[h[1]], h[2])]
    <3>1. m[1] \in Line
      BY DEF AnyMeter
    <3>2. CASE m[1] # h[1]
      BY <1>4, <2>2, <3>1, <3>2 DEF Waits, TypeOK
    <3>3. CASE m[1] = h[1]
      <4>1. requests[m[1]] \in Seq(Nat) /\ requests'[m[1]] = Append(requests[m[1]], h[2])
        BY <2>2, <3>1, <3>3 DEF TypeOK
      <4>2. PICK i \in DOMAIN requests[m[1]] : requests[m[1]][i] = m[2]
        BY <1>4 DEF Waits
      <4>3. /\ i \in DOMAIN Append(requests[m[1]], h[2])
            /\ Append(requests[m[1]], h[2])[i] = m[2]
        BY <4>1, <4>2, Appended
      <4>4. i \in DOMAIN requests'[m[1]] /\ requests'[m[1]][i] = m[2]
        BY <4>1, <4>3
      <4> QED BY <4>4 DEF Waits
    <3> QED BY <3>2, <3>3
  <2> QED BY <1>3, <2>1, <2>2
<1>5. Waits(h)'
  <2>1. CASE h \in seen
    BY <1>1, <1>4, <2>1
  <2>2. CASE requests' = [requests EXCEPT ![h[1]] = Append(requests[h[1]], h[2])]
    <3>1. requests[h[1]] \in Seq(Nat) /\ requests'[h[1]] = Append(requests[h[1]], h[2])
      BY <1>2, <2>2 DEF TypeOK
    <3> QED BY <3>1, Appended DEF Waits
  <2> QED BY <1>3, <2>1, <2>2
<1>6. ASSUME NEW m \in owed' PROVE Waits(m)' \/ \E u \in Thread : Holds(u, m)'
  <2>1. CASE m = h
    BY <1>5, <2>1
  <2>2. CASE m \in owed
    <3>1. m \in AnyMeter
      BY <2>2 DEF TypeOK
    <3>2. \A u \in Thread : Holds(u, m) => Holds(u, m)'
      BY <1>2 DEF Holds, LineOf
    <3> QED BY <1>4, <2>2, <3>1, <3>2, NotLost
  <2> QED BY <1>2, <1>6, <2>1, <2>2
<1>7. NoRequestLost'
  BY <1>6 DEF NoRequestLost, Waits, Holds
<1>8. \A m \in filed' : Waits(m)'
  BY <1>1, <1>2, <1>4, <1>5
<1> QED BY <1>7, <1>8 DEF FiledWait

LEMMA RequestsNext ==
  PollingInv /\ TypeOK /\ NoRequestLost /\ FiledWait /\ [Next]_vars
    => (NoRequestLost /\ FiledWait)'
<1> SUFFICES ASSUME PollingInv, TypeOK, NoRequestLost, FiledWait, [Next]_vars
             PROVE  NoRequestLost' /\ FiledWait'
  OBVIOUS
<1>1. CASE UNCHANGED vars
  BY <1>1, NotLost
     DEF vars, guidVars, filingVars, threadVars, history, NoRequestLost, FiledWait, Waits, LineOf
<1>2. ASSUME NEW t \in Thread, ReadStep(t) PROVE NoRequestLost' /\ FiledWait'
  BY <1>2, RequestsOutside, RequestsReading DEF ReadStep
<1>3. ASSUME NEW l \in Line, Sweeper(l) PROVE NoRequestLost' /\ FiledWait'
  BY <1>2, <1>3, RequestsOutside DEF Sweeper, Thread
<1>4. CASE Serving
  BY <1>2, <1>4, RequestsOutside DEF Serving, Thread
<1> QED BY <1>1, <1>3, <1>4, RequestsFiling DEF Next

(* NoRequestLost: from the moment addQueue has taken a meter from its list *)
(* until it is read it waits in a queue or is being read.                  *)
THEOREM NoRequestIsLost == Spec => []NoRequestLost
<1>1. Init => PollingInv /\ TypeOK /\ NoRequestLost /\ FiledWait
  BY PollingInit, TypeInit, RequestsInit
<1>2. PollingInv /\ TypeOK /\ NoRequestLost /\ FiledWait /\ [Next]_vars
        => (PollingInv /\ TypeOK /\ NoRequestLost /\ FiledWait)'
  BY PollingNext, TypeNext, RequestsNext
<1> QED BY <1>1, <1>2, PTL DEF Spec
=============================================================================
