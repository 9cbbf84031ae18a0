---------------------------- MODULE QScadaProofs ----------------------------
(***************************************************************************)
(* The program drives the store-and-forward cycle only in ways that module *)
(* Uplink allows, so what is proved of Uplink holds of the program, for    *)
(* any lines, any number of meters and any size of their readings.         *)
(***************************************************************************)
EXTENDS QScada, UplinkProofs

LEMMA SystemStep == SystemNext => [Next]_vars
<1> SUFFICES ASSUME SystemNext PROVE [Next]_vars
  OBVIOUS
<1>1. CASE ReadData
  BY <1>1 DEF ReadData
<1>2. CASE PushRow
  BY <1>2 DEF PushRow, Next
<1>3. CASE LineDone
  BY <1>3 DEF LineDone, Next, Loop
<1>4. CASE Sending
  BY <1>4 DEF Sending, Next
<1>5. CASE StartAgain
  BY <1>5 DEF StartAgain, Next
<1> QED BY <1>1, <1>2, <1>3, <1>4, <1>5 DEF SystemNext, Running

(* read_all_sensors with sendToServer is one of the behaviours of Uplink.  *)
THEOREM ProgramIsUplink == SystemSpec => Spec
<1>1. SystemInit => Init
  BY DEF SystemInit
<1>2. [SystemNext]_systemVars => [Next]_vars
  BY SystemStep DEF systemVars
<1> QED BY <1>1, <1>2, PTL DEF SystemSpec, Spec

(* NoSampleLost of the whole program: whatever the sweep reads from the    *)
(* meters is queued, in hand, saved, received or refused.                  *)
THEOREM ProgramLosesNothing ==
    ASSUME Gentle
    PROVE  SystemSpec => []NoSampleLost
<1>1. Spec => []NoSampleLost
  BY NoLoss
<1> QED BY <1>1, ProgramIsUplink, PTL

(* ImplementsOutbox of the whole program: a sample the sweep reads waits   *)
(* until the server stores or refuses it.                                  *)
THEOREM ProgramIsOutbox ==
    ASSUME Gentle
    PROVE  SystemSpec => ImplementsOutbox
BY UplinkIsOutbox, ProgramIsUplink

-----------------------------------------------------------------------------
(* Going on to the next line, or from the last one to the start.           *)
LEMMA LoopBack ==
    ASSUME NEW n \in Nat, NEW k \in 0..n
    PROVE  (k + 1) % (n + 1) \in 0..n
OBVIOUS

(* sendToServer begins and ends with no rows of a reading left to push.    *)
LEMMA SweepStep == SweepTypeOK /\ [SystemNext]_systemVars => SweepTypeOK'
<1> SUFFICES ASSUME SweepTypeOK, [SystemNext]_systemVars PROVE SweepTypeOK'
  OBVIOUS
<1>1. TypeOK'
  BY SystemStep, TypeNext DEF SweepTypeOK, systemVars
<1>2. Len(Meters) \in Nat /\ DOMAIN Meters = 1..Len(Meters)
      /\ \A l \in DOMAIN Meters : Meters[l] \in Nat /\ RowsRead[l] \in Nat \ {0}
  BY QScadaAssumption
<1> USE DEF SweepTypeOK
<1>3. CASE ReadData
  <2>1. line \in DOMAIN Meters /\ mainPos[line] < Meters[line]
    BY <1>3, <1>2 DEF ReadData, hasNext
  <2>2. /\ line' = line /\ pc' = pc /\ pc = "sweep"
        /\ mainPos' = [mainPos EXCEPT ![line] = @ + 1]
        /\ left' \in {0, RowsRead[line]}
    BY <1>3 DEF ReadData, vars
  <2>3. mainPos' \in [DOMAIN Meters -> Nat]
        /\ \A l \in DOMAIN Meters : mainPos'[l] <= Meters[l]
    BY <2>1, <2>2, <1>2
  <2> QED BY <1>1, <1>2, <2>1, <2>2, <2>3
<1>4. CASE PushRow
  <2>1. /\ line' = line /\ mainPos' = mainPos /\ left' = left - 1
        /\ left > 0 /\ pc' = pc
    BY <1>4 DEF PushRow, Push
  <2> QED BY <1>1, <1>2, <2>1
<1>5. CASE LineDone
  <2>1. /\ line' = line /\ left' = left /\ left = 0
        /\ mainPos' = IF line = 0 THEN mainPos ELSE [mainPos EXCEPT ![line] = 0]
    BY <1>5 DEF LineDone
  <2>2. mainPos' \in [DOMAIN Meters -> Nat]
        /\ \A l \in DOMAIN Meters : mainPos'[l] <= Meters[l]
    BY <2>1, <1>2
  <2> QED BY <1>1, <2>1, <2>2
<1>6. CASE Sending
  <2>1. /\ mainPos' = mainPos /\ left' = left /\ pc # "sweep"
        /\ line' = IF pc' = "sweep" THEN (line + 1) % (Len(Meters) + 1) ELSE line
    BY <1>6 DEF Sending
  <2>2. left = 0
    BY <2>1
  <2>3. line' \in 0..Len(Meters)
    BY <2>1, <1>2, LoopBack
  <2> QED BY <1>1, <2>1, <2>2, <2>3
<1>7. CASE StartAgain
  <2>1. line' = 0 /\ mainPos' = AtFront /\ left' = 0
    BY <1>7 DEF StartAgain
  <2>2. mainPos' \in [DOMAIN Meters -> Nat]
        /\ \A l \in DOMAIN Meters : mainPos'[l] <= Meters[l]
    BY <2>1, <1>2 DEF AtFront
  <2> QED BY <1>1, <1>2, <2>1, <2>2
<1>8. CASE UNCHANGED systemVars
  BY <1>1, <1>8 DEF systemVars, sweepVars, vars
<1> QED BY <1>3, <1>4, <1>5, <1>6, <1>7, <1>8 DEF SystemNext, Running

(* SweepTypeOK: the walk of read_all_sensors stays within its lines and    *)
(* their meters, and rows are pushed only between two sends, never while   *)
(* sendToServer runs.                                                      *)
THEOREM SweepTypeCorrect == SystemSpec => []SweepTypeOK
<1>1. SystemInit => SweepTypeOK
  BY TypeInit, QScadaAssumption DEF SystemInit, SweepTypeOK, AtFront
<1> QED BY <1>1, SweepStep, PTL DEF SystemSpec

-----------------------------------------------------------------------------
(* RowsUpTo is what its recursion says: a function that satisfies it up to *)
(* the least line for which none did could be continued to that line.      *)
LEMMA RowsUpToDef ==
    RowsUpTo = [l \in 0..Len(Meters) |->
                  IF l = 0 THEN 0 ELSE RowsUpTo[l - 1] + Meters[l] * RowsRead[l]]
<1>. DEFINE Sums(f, k) ==
              f = [l \in 0..k |-> IF l = 0 THEN 0 ELSE f[l - 1] + Meters[l] * RowsRead[l]]
            Missing == {k \in Nat : ~\E f : Sums(f, k)}
<1>1. Len(Meters) \in Nat
  BY QScadaAssumption, LenProperties
<1>2. ASSUME Missing # {} PROVE FALSE
  <2>1. PICK k \in Missing : \A j \in Missing : k <= j
    <3>. HIDE DEF Missing
    <3>1. Missing \subseteq Nat
      BY DEF Missing
    <3> QED BY <1>2, <3>1, LeastNatural
  <2>2. k # 0
    <3>. DEFINE f == [l \in 0..0 |-> 0]
    <3>1. Sums(f, 0)
      OBVIOUS
    <3> QED BY <3>1
  <2>3. k - 1 \in Nat /\ k - 1 \notin Missing
    <3>1. k \in Nat
      OBVIOUS
    <3>. HIDE DEF Missing
    <3> QED BY <2>1, <2>2, <3>1
  <2>4. PICK f : Sums(f, k - 1)
    BY <2>3
  <2>5. ASSUME NEW l \in 0..(k - 1)
        PROVE  f[l] = IF l = 0 THEN 0 ELSE f[l - 1] + Meters[l] * RowsRead[l]
    BY <2>4
  <2>. DEFINE g == [l \in 0..k |-> IF l = k THEN f[k - 1] + Meters[k] * RowsRead[k] ELSE f[l]]
              h == [l \in 0..k |-> IF l = 0 THEN 0 ELSE g[l - 1] + Meters[l] * RowsRead[l]]
  <2>6. ASSUME NEW l \in 0..k PROVE g[l] = h[l]
    <3>1. CASE l = 0
      BY <2>2, <2>3, <2>5, <3>1
    <3>2. CASE l = k
      <4>1. g[k] = f[k - 1] + Meters[k] * RowsRead[k]
        BY <2>3
      <4>2. g[k - 1] = f[k - 1]
        BY <2>3
      <4>3. h[k] = g[k - 1] + Meters[k] * RowsRead[k]
        BY <2>2, <2>3
      <4> QED BY <3>2, <4>1, <4>2, <4>3
    <3>3. CASE l # 0 /\ l # k
      <4>1. l \in 0..(k - 1) /\ l - 1 \in 0..(k - 1)
        BY <2>3, <3>3
      <4>2. g[l] = f[l] /\ g[l - 1] = f[l - 1]
        BY <2>3, <3>3, <4>1
      <4> QED BY <2>5, <3>3, <4>1, <4>2
    <3> QED BY <3>1, <3>2, <3>3
  <2>7. g = h
    BY <2>6
  <2>8. Sums(g, k)
    BY <2>7
  <2> QED BY <2>1, <2>8
<1>3. \E f : Sums(f, Len(Meters))
  BY <1>1, <1>2
<1> QED BY <1>3 DEF RowsUpTo

LEMMA RowsUpToStep ==
    /\ RowsUpTo[0] = 0
    /\ \A l \in 1..Len(Meters) : RowsUpTo[l] = RowsUpTo[l - 1] + Meters[l] * RowsRead[l]
<1>1. Len(Meters) \in Nat
  BY QScadaAssumption, LenProperties
<1>2. \A l \in 0..Len(Meters) :
        RowsUpTo[l] = IF l = 0 THEN 0 ELSE RowsUpTo[l - 1] + Meters[l] * RowsRead[l]
  <2>. DEFINE f == RowsUpTo
  <2>1. f = [l \in 0..Len(Meters) |->
               IF l = 0 THEN 0 ELSE f[l - 1] + Meters[l] * RowsRead[l]]
    BY RowsUpToDef
  <2>. HIDE DEF f
  <2>2. \A l \in 0..Len(Meters) :
          f[l] = IF l = 0 THEN 0 ELSE f[l - 1] + Meters[l] * RowsRead[l]
    BY <2>1
  <2> QED BY <2>2 DEF f
<1> QED BY <1>1, <1>2

(* A line has so many meters and each of its readings so many rows.        *)
LEMMA LineRows ==
    /\ Len(Meters) \in Nat /\ DOMAIN Meters = 1..Len(Meters)
    /\ \A l \in 1..Len(Meters) :
         Meters[l] \in Nat /\ RowsRead[l] \in Nat \ {0} /\ Meters[l] * RowsRead[l] \in Nat
BY QScadaAssumption

LEMMA RowsUpToNat == \A l \in 0..Len(Meters) : RowsUpTo[l] \in Nat
<1>. DEFINE Bad == {l \in 0..Len(Meters) : RowsUpTo[l] \notin Nat}
<1>1. ASSUME Bad # {} PROVE FALSE
  <2>1. Bad \subseteq Nat
    BY LineRows
  <2>2. PICK k \in Bad : \A j \in Bad : k <= j
    <3>. HIDE DEF Bad
    <3> QED BY <1>1, <2>1, LeastNatural
  <2>3. k \in 1..Len(Meters) /\ k - 1 \in 0..Len(Meters)
    BY LineRows, RowsUpToStep
  <2>4. RowsUpTo[k - 1] \in Nat
    BY <2>2, <2>3
  <2>5. RowsUpTo[k] = RowsUpTo[k - 1] + Meters[k] * RowsRead[k]
    BY <2>3, RowsUpToStep
  <2> QED BY <2>3, <2>4, <2>5, LineRows
<1> QED BY <1>1

(* More lines give no fewer rows.                                          *)
LEMMA RowsUpToGrows ==
    ASSUME NEW i \in 0..Len(Meters), NEW k \in i..Len(Meters)
    PROVE  RowsUpTo[i] <= RowsUpTo[k]
<1>. DEFINE Bad == {l \in i..Len(Meters) : ~(RowsUpTo[i] <= RowsUpTo[l])}
<1>1. ASSUME Bad # {} PROVE FALSE
  <2>1. Bad \subseteq Nat
    BY LineRows
  <2>2. PICK l \in Bad : \A j \in Bad : l <= j
    <3>. HIDE DEF Bad
    <3> QED BY <1>1, <2>1, LeastNatural
  <2>3. l # i
    BY <2>2, RowsUpToNat
  <2>4. l \in 1..Len(Meters) /\ l - 1 \in i..Len(Meters) /\ l - 1 \in 0..Len(Meters)
    BY <2>2, <2>3, LineRows
  <2>5. RowsUpTo[i] <= RowsUpTo[l - 1]
    BY <2>2, <2>4
  <2>6. RowsUpTo[l] = RowsUpTo[l - 1] + Meters[l] * RowsRead[l]
    BY <2>4, RowsUpToStep
  <2>7. /\ RowsUpTo[i] \in Nat /\ RowsUpTo[l - 1] \in Nat /\ RowsUpTo[l] \in Nat
        /\ Meters[l] * RowsRead[l] \in Nat
    BY <2>4, RowsUpToNat, LineRows
  <2>8. RowsUpTo[i] <= RowsUpTo[l]
    <3>. DEFINE m == Meters[l] * RowsRead[l]
    <3>. HIDE DEF m
    <3>1. m \in Nat /\ RowsUpTo[l] = RowsUpTo[l - 1] + m
      BY <2>6, <2>7 DEF m
    <3> QED BY <2>5, <2>7, <3>1
  <2> QED BY <2>2, <2>8
<1> QED BY <1>1

-----------------------------------------------------------------------------
(* The queue as a store that PopMax rows leave with every send.  If the    *)
(* queue was empty after some send, it holds at most the rows read since,  *)
(* less PopMax for each later send.  That some send within the last sweep  *)
(* left it empty, or might as well have, is the invariant.                 *)

Lines == Len(Meters)

(* Sends begun in this sweep, and rows its readings can have given so far. *)
Sends == IF pc = "sweep" THEN line ELSE line + 1

Arrived ==
    IF line = 0 THEN 0
    ELSE IF pc = "sweep" THEN RowsUpTo[line - 1] + mainPos[line] * RowsRead[line]
    ELSE RowsUpTo[line]

Waiting == Len(queue) + left

(* Before send j of this sweep, or of the one before, RowsUpTo[j - 1] rows *)
(* could have arrived.                                                     *)
EmptyAfter(j) ==
    /\ j \in 1..Sends
    /\ Waiting <= Arrived - RowsUpTo[j - 1] - PopMax * (Sends - j)

EmptyBefore(j) ==
    /\ j \in (Sends + 1)..(Lines + 1)
    /\ Waiting <= (SweepRows - RowsUpTo[j - 1]) + Arrived - PopMax * (Lines + 1 - j + Sends)

SendsSuffice == SweepRows <= (Lines + 1) * PopMax

(* The iterators of the lines that are not being swept stand at the front. *)
Rewound == \A l \in DOMAIN Meters : l # line \/ pc # "sweep" => mainPos[l] = 0

QueueInv ==
    /\ SweepTypeOK
    /\ Rewound
    /\ \E j \in Nat : EmptyAfter(j) \/ EmptyBefore(j)

LEMMA SweepNumbers ==
    SweepTypeOK =>
           /\ Lines \in Nat /\ line \in 0..Lines /\ PopMax \in Nat \ {0}
           /\ Sends \in 0..(Lines + 1)
           /\ Len(queue) \in Nat /\ left \in Nat /\ Waiting \in Nat
           /\ SweepRows \in Nat
           /\ Arrived \in Nat
           /\ Arrived <= RowsUpTo[line]
           /\ line > 0 /\ pc = "sweep" => RowsUpTo[line - 1] <= Arrived
<1>. SUFFICES ASSUME SweepTypeOK
              PROVE  /\ Lines \in Nat /\ line \in 0..Lines /\ PopMax \in Nat \ {0}
                     /\ Sends \in 0..(Lines + 1)
                     /\ Len(queue) \in Nat /\ left \in Nat /\ Waiting \in Nat
                     /\ SweepRows \in Nat
                     /\ Arrived \in Nat
                     /\ Arrived <= RowsUpTo[line]
                     /\ line > 0 /\ pc = "sweep" => RowsUpTo[line - 1] <= Arrived
  OBVIOUS
<1>1. /\ Lines \in Nat /\ line \in 0..Lines /\ PopMax \in Nat \ {0}
      /\ Len(queue) \in Nat /\ left \in Nat
  BY LineRows, UplinkAssumption, LenProperties DEF SweepTypeOK, TypeOK, Lines
<1>2. Sends \in 0..(Lines + 1) /\ Waiting \in Nat
  BY <1>1 DEF Sends, Waiting
<1>3. SweepRows \in Nat
  BY <1>1, RowsUpToNat DEF SweepRows, Lines
<1>4. /\ Arrived \in Nat /\ Arrived <= RowsUpTo[line]
      /\ line > 0 /\ pc = "sweep" => RowsUpTo[line - 1] <= Arrived
  <2>1. CASE line = 0 \/ pc # "sweep"
    <3>1. RowsUpTo[line] \in Nat /\ RowsUpTo[0] = 0
      BY <1>1, RowsUpToNat, RowsUpToStep DEF Lines
    <3> QED BY <2>1, <3>1 DEF Arrived
  <2>2. CASE line # 0 /\ pc = "sweep"
    <3>1. line \in 1..Lines /\ line - 1 \in 0..Lines
      BY <1>1, <2>2
    <3>2. /\ RowsUpTo[line - 1] \in Nat
          /\ RowsUpTo[line] = RowsUpTo[line - 1] + Meters[line] * RowsRead[line]
      BY <3>1, RowsUpToNat, RowsUpToStep DEF Lines
    <3>3. /\ Meters[line] \in Nat /\ RowsRead[line] \in Nat
          /\ mainPos[line] \in Nat /\ mainPos[line] <= Meters[line]
      BY <3>1, LineRows DEF SweepTypeOK, Lines
    <3>4. /\ mainPos[line] * RowsRead[line] \in Nat
          /\ mainPos[line] * RowsRead[line] <= Meters[line] * RowsRead[line]
          /\ Meters[line] * RowsRead[line] \in Nat
      <4>. DEFINE d == Meters[line] - mainPos[line]
      <4>1. d \in Nat /\ Meters[line] = mainPos[line] + d
        BY <3>3
      <4>2. d * RowsRead[line] \in Nat /\ mainPos[line] * RowsRead[line] \in Nat
        BY <3>3, <4>1
      <4>. HIDE DEF d
      <4>3. Meters[line] * RowsRead[line]
              = mainPos[line] * RowsRead[line] + d * RowsRead[line]
        BY <3>3, <4>1
      <4> QED BY <4>2, <4>3
    <3>5. Arrived = RowsUpTo[line - 1] + mainPos[line] * RowsRead[line]
      BY <2>2 DEF Arrived
    <3> QED BY <3>2, <3>4, <3>5
  <2> QED BY <2>1, <2>2
<1> QED BY <1>1, <1>2, <1>3, <1>4

(* Either way the queue holds no more than the rows of one sweep.          *)
LEMMA WindowBounds ==
    ASSUME SweepTypeOK, NEW j \in Nat, EmptyAfter(j) \/ EmptyBefore(j)
    PROVE  Len(queue) <= SweepRows
<1>1. /\ Lines \in Nat /\ line \in 0..Lines /\ PopMax \in Nat
      /\ Sends \in 0..(Lines + 1) /\ line <= Sends
      /\ Len(queue) \in Nat /\ Len(queue) <= Waiting /\ Waiting \in Nat
      /\ SweepRows \in Nat /\ Arrived \in Nat /\ Arrived <= RowsUpTo[line]
  BY SweepNumbers DEF Sends, Waiting
<1>2. RowsUpTo[line] \in Nat /\ RowsUpTo[line] <= SweepRows
  BY <1>1, RowsUpToNat, RowsUpToGrows DEF Lines, SweepRows
<1>3. CASE EmptyAfter(j)
  <2>1. j \in 1..Sends /\ j - 1 \in 0..Lines /\ Sends - j \in Nat
    BY <1>1, <1>3 DEF EmptyAfter
  <2>2. RowsUpTo[j - 1] \in Nat /\ PopMax * (Sends - j) \in Nat
    BY <1>1, <2>1, RowsUpToNat DEF Lines
  <2>3. Waiting <= Arrived - RowsUpTo[j - 1] - PopMax * (Sends - j)
    BY <1>3 DEF EmptyAfter
  <2>. DEFINE m == PopMax * (Sends - j)
  <2>. HIDE DEF m
  <2>4. m \in Nat /\ Waiting <= Arrived - RowsUpTo[j - 1] - m
    BY <2>2, <2>3 DEF m
  <2> QED BY <1>1, <1>2, <2>2, <2>4
<1>4. CASE EmptyBefore(j)
  <2>1. /\ j \in (Sends + 1)..(Lines + 1) /\ j - 1 \in line..Lines
        /\ j - 1 \in 0..Lines /\ Lines + 1 - j + Sends \in Nat
    BY <1>1, <1>4 DEF EmptyBefore
  <2>2. /\ RowsUpTo[j - 1] \in Nat /\ RowsUpTo[line] <= RowsUpTo[j - 1]
        /\ PopMax * (Lines + 1 - j + Sends) \in Nat
    BY <1>1, <2>1, RowsUpToNat, RowsUpToGrows DEF Lines
  <2>. DEFINE m == PopMax * (Lines + 1 - j + Sends)
  <2>3. Waiting <= (SweepRows - RowsUpTo[j - 1]) + Arrived - m
    BY <1>4 DEF EmptyBefore
  <2>. HIDE DEF m
  <2>4. m \in Nat
    BY <2>2 DEF m
  <2> QED BY <1>1, <1>2, <2>2, <2>3, <2>4
<1> QED BY <1>3, <1>4

(* A step without a send that lets no more rows in than have arrived.      *)
LEMMA WindowCarries ==
    ASSUME SweepTypeOK, Sends' = Sends,
           NEW w \in Nat, Waiting' = w, NEW a \in Nat, Arrived' = a,
           w - Waiting <= a - Arrived,
           NEW j \in Nat, EmptyAfter(j) \/ EmptyBefore(j)
    PROVE  EmptyAfter(j)' \/ EmptyBefore(j)'
<1>1. /\ Lines \in Nat /\ PopMax \in Nat /\ Sends \in 0..(Lines + 1)
      /\ Waiting \in Nat /\ Arrived \in Nat /\ SweepRows \in Nat
  BY SweepNumbers
<1>2. CASE EmptyAfter(j)
  <2>1. j - 1 \in 0..Lines /\ j \in 1..Sends
    BY <1>1, <1>2 DEF EmptyAfter
  <2>2. RowsUpTo[j - 1] \in Nat /\ PopMax * (Sends - j) \in Nat
    BY <1>1, <2>1, RowsUpToNat DEF Lines
  <2>. DEFINE m == PopMax * (Sends - j)
  <2>3. m \in Nat /\ Waiting <= Arrived - RowsUpTo[j - 1] - m
    BY <1>2, <2>2 DEF EmptyAfter
  <2>4. w <= a - RowsUpTo[j - 1] - m
    <3>. HIDE DEF m
    <3> QED BY <1>1, <2>2, <2>3
  <2> QED BY <2>1, <2>4 DEF EmptyAfter
<1>3. CASE EmptyBefore(j)
  <2>1. /\ j \in (Sends + 1)..(Lines + 1) /\ j - 1 \in 0..Lines
        /\ Lines + 1 - j + Sends \in Nat
    BY <1>1, <1>3 DEF EmptyBefore
  <2>2. RowsUpTo[j - 1] \in Nat /\ PopMax * (Lines + 1 - j + Sends) \in Nat
    BY <1>1, <2>1, RowsUpToNat DEF Lines
  <2>. DEFINE m == PopMax * (Lines + 1 - j + Sends)
  <2>3. m \in Nat /\ Waiting <= (SweepRows - RowsUpTo[j - 1]) + Arrived - m
    BY <1>3, <2>2 DEF EmptyBefore
  <2>4. w <= (SweepRows - RowsUpTo[j - 1]) + a - m
    <3>. HIDE DEF m
    <3> QED BY <1>1, <2>2, <2>3
  <2> QED BY <2>1, <2>4 DEF EmptyBefore
<1> QED BY <1>2, <1>3

(* A send takes PopMax rows, or all there are.                             *)
LEMMA WindowSend ==
    ASSUME SendsSuffice, SweepTypeOK, Sends' = Sends + 1, Sends \in 0..Lines,
           left = 0, left' = 0,
           Len(queue') = IF Len(queue) < PopMax THEN 0 ELSE Len(queue) - PopMax,
           Arrived' = Arrived, Arrived = RowsUpTo[Sends],
           NEW j \in Nat, EmptyAfter(j) \/ EmptyBefore(j)
    PROVE  \E k \in Nat : EmptyAfter(k)' \/ EmptyBefore(k)'
<1>1. /\ Lines \in Nat /\ PopMax \in Nat /\ Len(queue) \in Nat
      /\ Arrived \in Nat /\ SweepRows \in Nat /\ Waiting = Len(queue) /\ Waiting \in Nat
  BY SweepNumbers DEF Waiting
<1>2. Waiting' = IF Waiting < PopMax THEN 0 ELSE Waiting - PopMax
  <2>1. Waiting' = Len(queue') + 0
    BY DEF Waiting
  <2>2. Len(queue') \in Nat
    BY <1>1
  <2> QED BY <1>1, <2>1, <2>2
<1>3. CASE Waiting < PopMax
  <2>1. PICK k \in Nat : k = Sends + 1
    BY <1>1
  <2>2. k \in 1..Sends' /\ k - 1 = Sends /\ Sends' - k = 0
    BY <1>1, <2>1
  <2>3. 0 <= Arrived' - RowsUpTo[k - 1] - PopMax * (Sends' - k)
    BY <1>1, <2>2
  <2>4. Waiting' = 0
    BY <1>2, <1>3
  <2>5. EmptyAfter(k)'
    BY <2>2, <2>3, <2>4 DEF EmptyAfter
  <2> QED BY <2>1, <2>5
<1>4. CASE ~(Waiting < PopMax)
  <2>1. Waiting' = Waiting - PopMax
    BY <1>2, <1>4
  <2>2. CASE EmptyAfter(j)
    <3>1. /\ j \in 1..Sends /\ j \in 1..(Sends + 1) /\ j - 1 \in 0..Lines
          /\ Sends - j \in Nat /\ (Sends + 1) - j \in Nat
      BY <1>1, <2>2 DEF EmptyAfter
    <3>2. RowsUpTo[j - 1] \in Nat
      BY <3>1, RowsUpToNat DEF Lines
    <3>. DEFINE m == PopMax * (Sends - j)
                n == PopMax * ((Sends + 1) - j)
    <3>3. m \in Nat /\ n \in Nat /\ n = m + PopMax
      BY <1>1, <3>1
    <3>4. Waiting <= Arrived - RowsUpTo[j - 1] - m
      BY <2>2 DEF EmptyAfter
    <3>5. Waiting - PopMax <= Arrived - RowsUpTo[j - 1] - n
      <4>. HIDE DEF m, n
      <4> QED BY <1>1, <3>2, <3>3, <3>4
    <3>6. EmptyAfter(j)'
      BY <2>1, <3>1, <3>5 DEF EmptyAfter
    <3> QED BY <3>6
  <2>3. CASE EmptyBefore(j) /\ j # Sends + 1
    <3>1. /\ j \in (Sends + 1)..(Lines + 1) /\ j \in ((Sends + 1) + 1)..(Lines + 1)
          /\ j - 1 \in 0..Lines
          /\ Lines + 1 - j + Sends \in Nat /\ Lines + 1 - j + (Sends + 1) \in Nat
      BY <1>1, <2>3 DEF EmptyBefore
    <3>2. RowsUpTo[j - 1] \in Nat
      BY <3>1, RowsUpToNat DEF Lines
    <3>. DEFINE m == PopMax * (Lines + 1 - j + Sends)
                n == PopMax * (Lines + 1 - j + (Sends + 1))
    <3>3. m \in Nat /\ n \in Nat /\ n = m + PopMax
      BY <1>1, <3>1
    <3>4. Waiting <= (SweepRows - RowsUpTo[j - 1]) + Arrived - m
      BY <2>3 DEF EmptyBefore
    <3>5. Waiting - PopMax <= (SweepRows - RowsUpTo[j - 1]) + Arrived - n
      <4>. DEFINE r == SweepRows - RowsUpTo[j - 1]
      <4>1. r \in Int
        BY <1>1, <3>2
      <4>2. Waiting <= r + Arrived - m
        BY <3>4
      <4>3. Waiting - PopMax <= r + Arrived - n
        <5>. HIDE DEF m, n, r
        <5> QED BY <1>1, <3>3, <4>1, <4>2
      <4> QED BY <4>3
    <3>6. EmptyBefore(j)'
      BY <2>1, <3>1, <3>5 DEF EmptyBefore
    <3> QED BY <3>6
  <2>4. CASE EmptyBefore(j) /\ j = Sends + 1
    <3>1. j - 1 = Sends /\ Lines + 1 - j + Sends = Lines
      BY <1>1, <2>4
    <3>. DEFINE m == PopMax * Lines
    <3>2. m \in Nat /\ (Lines + 1) * PopMax = m + PopMax
      BY <1>1
    <3>3. Waiting <= (SweepRows - Arrived) + Arrived - m
      BY <2>4, <3>1 DEF EmptyBefore
    <3>4. SweepRows <= m + PopMax
      BY <3>2 DEF SendsSuffice
    <3>5. Waiting - PopMax <= 0
      <4>. HIDE DEF m
      <4> QED BY <1>1, <3>2, <3>3, <3>4
    <3>6. /\ j \in 1..(Sends + 1) /\ (Sends + 1) - j = 0
          /\ Waiting - PopMax <= Arrived - RowsUpTo[j - 1] - PopMax * ((Sends + 1) - j)
      BY <1>1, <2>4, <3>1, <3>5
    <3>7. EmptyAfter(j)'
      BY <2>1, <3>6 DEF EmptyAfter
    <3> QED BY <3>7
  <2> QED BY <2>2, <2>3, <2>4
<1> QED BY <1>3, <1>4

(* After the send that ends a sweep, "this sweep" is "the one before".     *)
LEMMA WindowWraps ==
    ASSUME SweepTypeOK, Sends = Lines + 1, Arrived = SweepRows,
           Sends' = 0, Arrived' = 0, Waiting' = Waiting,
           NEW j \in Nat, EmptyAfter(j) \/ EmptyBefore(j)
    PROVE  EmptyBefore(j)'
<1>1. Lines \in Nat /\ PopMax \in Nat /\ SweepRows \in Nat
  BY SweepNumbers
<1>2. EmptyAfter(j)
  BY <1>1 DEF EmptyBefore
<1>3. j \in (0 + 1)..(Lines + 1) /\ j - 1 \in 0..Lines
      /\ Lines + 1 - j + 0 = Sends - j
  BY <1>1, <1>2 DEF EmptyAfter
<1>4. RowsUpTo[j - 1] \in Nat /\ PopMax * (Sends - j) \in Nat
  BY <1>1, <1>3, RowsUpToNat DEF Lines
<1>. DEFINE m == PopMax * (Sends - j)
<1>5. m \in Nat /\ Waiting <= SweepRows - RowsUpTo[j - 1] - m
  BY <1>2, <1>4 DEF EmptyAfter
<1>6. Waiting <= (SweepRows - RowsUpTo[j - 1]) + 0 - m
  <2>. HIDE DEF m
  <2> QED BY <1>1, <1>4, <1>5
<1> QED BY <1>3, <1>6 DEF EmptyBefore

LEMMA QueueInit == SystemInit => QueueInv
<1>. SUFFICES ASSUME SystemInit PROVE QueueInv
  OBVIOUS
<1>1. SweepTypeOK
  BY TypeInit, QScadaAssumption DEF SystemInit, SweepTypeOK, AtFront
<1>2. Rewound
  BY DEF SystemInit, Rewound, AtFront
<1>3. line = 0 /\ pc = "sweep" /\ queue = <<>> /\ left = 0
  BY DEF SystemInit, Init
<1>4. PICK j \in Nat : j = Lines + 1
  BY <1>1, SweepNumbers
<1>5. EmptyBefore(j)
  <2>1. Waiting = 0 /\ Arrived = 0 /\ Sends = 0
    BY <1>3 DEF Waiting, Arrived, Sends
  <2>2. /\ Lines \in Nat /\ PopMax \in Nat /\ SweepRows \in Nat
        /\ j - 1 = Lines /\ Lines + 1 - j + 0 = 0
    BY <1>1, <1>4, SweepNumbers
  <2>3. 0 <= (SweepRows - SweepRows) + 0 - PopMax * 0
    BY <2>2
  <2> QED BY <1>4, <2>1, <2>2, <2>3 DEF EmptyBefore, SweepRows, Lines
<1> QED BY <1>1, <1>2, <1>5 DEF QueueInv

LEMMA RewoundNext == SweepTypeOK /\ Rewound /\ [SystemNext]_systemVars => Rewound'
<1>. SUFFICES ASSUME SweepTypeOK, Rewound, [SystemNext]_systemVars PROVE Rewound'
  OBVIOUS
<1>. USE DEF Rewound
<1>1. mainPos \in [DOMAIN Meters -> Nat]
  BY DEF SweepTypeOK
<1>2. CASE ReadData
  BY <1>2, <1>1 DEF ReadData, vars
<1>3. CASE PushRow
  BY <1>3 DEF PushRow, Push
<1>4. CASE LineDone
  <2>1. \A l \in DOMAIN Meters : mainPos'[l] = 0
    BY <1>4, <1>1, LineRows DEF LineDone, Pop
  <2> QED BY <2>1
<1>5. CASE Sending
  <2>1. \A l \in DOMAIN Meters : mainPos'[l] = 0
    BY <1>5 DEF Sending
  <2> QED BY <2>1
<1>6. CASE StartAgain
  BY <1>6 DEF StartAgain, AtFront
<1>7. CASE UNCHANGED systemVars
  BY <1>7 DEF systemVars, sweepVars, vars
<1> QED BY <1>2, <1>3, <1>4, <1>5, <1>6, <1>7 DEF SystemNext, Running

(* The queue changes in Push, Pop and a restart only.                      *)
LEMMA SendingQueue ==
    ASSUME Sending
    PROVE  queue' = queue /\ left' = left
BY DEF Sending, Loop, Pop, SkipPost, PostAnswered, PostUnanswered, OpenForSave,
       OpenForSaveFails, InsertRow, CloseSave, OpenForFetch, OpenForFetchFails,
       FetchRow, CloseFetch

LEMMA QueueNext ==
    ASSUME SendsSuffice, QueueInv, [SystemNext]_systemVars
    PROVE  QueueInv'
<1>1. SweepTypeOK' /\ Rewound'
  BY SweepStep, RewoundNext DEF QueueInv
<1>. SUFFICES \E k \in Nat : EmptyAfter(k)' \/ EmptyBefore(k)'
  BY <1>1 DEF QueueInv
<1>2. PICK j \in Nat : EmptyAfter(j) \/ EmptyBefore(j)
  BY DEF QueueInv
<1>3. /\ SweepTypeOK
      /\ Lines \in Nat /\ line \in 0..Lines /\ PopMax \in Nat
      /\ Len(queue) \in Nat /\ left \in Nat /\ Waiting \in Nat
      /\ Arrived \in Nat /\ SweepRows \in Nat
  BY SweepNumbers DEF QueueInv
<1>4. CASE ReadData
  <2>1. /\ pc = "sweep" /\ line # 0 /\ left = 0
        /\ UNCHANGED <<queue, pc, line>>
        /\ mainPos' = [mainPos EXCEPT ![line] = @ + 1]
        /\ left' \in {0, RowsRead[line]}
    BY <1>4 DEF ReadData, hasNext, vars
  <2>2. /\ line \in 1..Len(Meters) /\ line - 1 \in 0..Len(Meters)
    BY <1>3, <2>1 DEF Lines
  <2>3. /\ RowsUpTo[line - 1] \in Nat /\ RowsRead[line] \in Nat
        /\ mainPos[line] \in Nat /\ mainPos'[line] = mainPos[line] + 1
    BY <1>3, <2>1, <2>2, RowsUpToNat, LineRows DEF SweepTypeOK
  <2>4. (mainPos[line] + 1) * RowsRead[line] = mainPos[line] * RowsRead[line] + RowsRead[line]
        /\ mainPos[line] * RowsRead[line] \in Nat
    BY <2>3
  <2>5. Arrived = RowsUpTo[line - 1] + mainPos[line] * RowsRead[line]
    BY <2>1 DEF Arrived
  <2>6. Arrived' = RowsUpTo[line - 1] + (mainPos[line] + 1) * RowsRead[line]
    BY <2>1, <2>3 DEF Arrived
  <2>7. PICK a \in Nat : a = Arrived + RowsRead[line]
    BY <1>3, <2>3
  <2>8. Arrived' = a
    <3>. DEFINE m == mainPos[line] * RowsRead[line]
    <3>1. (mainPos[line] + 1) * RowsRead[line] = m + RowsRead[line] /\ m \in Nat
      BY <2>4
    <3>2. Arrived = RowsUpTo[line - 1] + m
      BY <2>5
    <3>. HIDE DEF m
    <3> QED BY <2>3, <2>6, <2>7, <3>1, <3>2
  <2>9. PICK w \in Nat : w = Len(queue) + left'
    BY <1>3, <2>1, <2>3
  <2>10. Waiting' = w /\ Waiting = Len(queue) /\ w <= Len(queue) + RowsRead[line]
    <3>1. Waiting' = w
      BY <2>1, <2>9 DEF Waiting
    <3>2. Waiting = Len(queue)
      BY <1>3, <2>1 DEF Waiting
    <3> QED BY <1>3, <2>1, <2>3, <2>9, <3>1, <3>2
  <2>11. w - Waiting <= a - Arrived
    BY <1>3, <2>3, <2>7, <2>10
  <2>12. Sends' = Sends
    BY <2>1 DEF Sends
  <2> QED BY <1>2, <1>3, <2>8, <2>10, <2>11, <2>12, WindowCarries
<1>5. CASE PushRow
  <2>1. /\ UNCHANGED <<pc, line, mainPos>> /\ left' = left - 1 /\ left > 0
        /\ Len(queue') = Len(queue) + 1
    <3>1. PICK s \in Sample \ produced : queue' = Append(queue, [sample |-> s, flag |-> 0])
      BY <1>5 DEF PushRow, Push
    <3>2. queue \in Seq(Row) /\ [sample |-> s, flag |-> 0] \in Row
      BY <1>3 DEF SweepTypeOK, TypeOK, Row, ErrorFlag
    <3>3. Len(queue') = Len(queue) + 1
      BY <3>1, <3>2, AppendProperties
    <3> QED BY <1>5, <3>3 DEF PushRow, Push
  <2>2. PICK w \in Nat : w = Waiting
    BY <1>3
  <2>3. Waiting' = w
    BY <1>3, <2>1, <2>2 DEF Waiting
  <2>4. PICK a \in Nat : a = Arrived
    BY <1>3
  <2>5. Arrived' = a /\ Sends' = Sends
    BY <2>1, <2>4 DEF Arrived, Sends
  <2> QED BY <1>2, <1>3, <2>2, <2>3, <2>4, <2>5, WindowCarries
<1>6. CASE LineDone
  <2>1. /\ pc = "sweep" /\ pc' = "post" /\ line' = line
        /\ left = 0 /\ left' = 0 /\ ~hasNext
    BY <1>6 DEF LineDone, Pop
  <2>2. Sends = line /\ Sends' = Sends + 1 /\ Sends \in 0..Lines
    BY <1>3, <2>1 DEF Sends
  <2>3. Len(queue') = IF Len(queue) < PopMax THEN 0 ELSE Len(queue) - PopMax
    <3>1. TypeOK /\ Pop
      BY <1>6, <1>3 DEF LineDone, SweepTypeOK
    <3>2. PopMax \in Nat /\ queue \in Seq(Row)
      BY <1>3, <3>1 DEF TypeOK
    <3>. DEFINE n == IF Len(queue) < PopMax THEN Len(queue) ELSE PopMax
    <3>3. queue' = SubSeq(queue, n + 1, Len(queue))
      BY <3>1 DEF Pop
    <3>4. n \in 0..Len(queue)
      BY <1>3, <3>2
    <3>5. Len(queue') = Len(queue) - n
      <4>. HIDE DEF n
      <4>1. \A i \in (n + 1)..Len(queue) : queue[i] \in Row
        BY <3>2, <3>4, ElementOfSeq
      <4>2. Len(SubSeq(queue, n + 1, Len(queue)))
              = IF n + 1 <= Len(queue) THEN Len(queue) - (n + 1) + 1 ELSE 0
        BY <1>3, <3>4, <4>1, SubSeqProperties
      <4> QED BY <1>3, <3>3, <3>4, <4>2
    <3> QED BY <1>3, <3>4, <3>5
  <2>4. Arrived' = RowsUpTo[line]
    BY <2>1, RowsUpToStep DEF Arrived
  <2>5. Arrived = RowsUpTo[line]
    <3>1. CASE line = 0
      BY <3>1, RowsUpToStep DEF Arrived
    <3>2. CASE line # 0
      <4>1. line \in 1..Len(Meters)
        BY <1>3, <3>2 DEF Lines
      <4>2. mainPos[line] = Meters[line]
        BY <1>3, <2>1, <3>2, <4>1, LineRows DEF hasNext, SweepTypeOK
      <4> QED BY <2>1, <3>2, <4>1, <4>2, RowsUpToStep DEF Arrived
    <3> QED BY <3>1, <3>2
  <2>6. Arrived' = Arrived /\ Arrived = RowsUpTo[Sends]
    BY <2>2, <2>4, <2>5
  <2> QED BY <1>2, <1>3, <2>1, <2>2, <2>3, <2>6, WindowSend
<1>7. CASE Sending
  <2>1. /\ pc # "sweep" /\ mainPos' = mainPos /\ queue' = queue /\ left' = left
        /\ line' = IF pc' = "sweep" THEN (line + 1) % (Lines + 1) ELSE line
    BY <1>7, SendingQueue DEF Sending, Lines
  <2>2. Sends = line + 1 /\ Arrived = RowsUpTo[line]
    BY <2>1, RowsUpToStep DEF Sends, Arrived
  <2>3. Waiting' = Waiting
    BY <2>1 DEF Waiting
  <2>4. CASE pc' = "sweep" /\ line = Lines
    <3>1. line' = 0
      BY <1>3, <2>1, <2>4
    <3>2. Sends' = 0 /\ Arrived' = 0
      BY <2>4, <3>1 DEF Sends, Arrived
    <3>3. Sends = Lines + 1 /\ Arrived = SweepRows
      BY <2>2, <2>4 DEF SweepRows, Lines
    <3> QED BY <1>2, <1>3, <2>3, <3>2, <3>3, WindowWraps
  <2>5. CASE ~(pc' = "sweep" /\ line = Lines)
    <3>1. Sends' = Sends /\ Arrived' = Arrived
      <4>1. CASE pc' # "sweep"
        <5>1. line' = line
          BY <2>1, <4>1
        <5> QED BY <2>2, <4>1, <5>1, RowsUpToStep DEF Sends, Arrived
      <4>2. CASE pc' = "sweep"
        <5>1. line < Lines
          BY <1>3, <2>5, <4>2
        <5>2. line' = line + 1
          BY <1>3, <2>1, <4>2, <5>1
        <5>3. line + 1 \in DOMAIN Meters /\ line + 1 # 0 /\ (line + 1) - 1 = line
          BY <1>3, <5>1, LineRows DEF Lines
        <5>4. mainPos'[line'] = 0
          BY <1>3, <2>1, <5>2, <5>3 DEF QueueInv, Rewound
        <5>5. RowsRead[line + 1] \in Nat /\ RowsUpTo[line] \in Nat
          BY <1>3, <5>3, LineRows, RowsUpToNat DEF Lines
        <5>6. Arrived' = RowsUpTo[line] + 0 * RowsRead[line + 1]
          BY <4>2, <5>2, <5>3, <5>4 DEF Arrived
        <5>7. Arrived' = Arrived
          BY <2>2, <5>5, <5>6
        <5>8. Sends' = Sends
          BY <2>2, <4>2, <5>2 DEF Sends
        <5> QED BY <5>7, <5>8
      <4> QED BY <4>1, <4>2
    <3>2. PICK w \in Nat : w = Waiting
      BY <1>3
    <3>3. PICK a \in Nat : a = Arrived
      BY <1>3
    <3>4. Waiting' = w /\ Arrived' = a /\ w - Waiting <= a - Arrived
      BY <1>3, <2>3, <3>1, <3>2, <3>3
    <3> QED BY <1>2, <1>3, <3>1, <3>4, WindowCarries
  <2> QED BY <2>4, <2>5
<1>8. CASE StartAgain
  <2>1. queue' = <<>> /\ left' = 0 /\ line' = 0 /\ pc' = "sweep"
    BY <1>8 DEF StartAgain, Crash, PostGarbled, Restart
  <2>2. Waiting' = 0 /\ Arrived' = 0 /\ Sends' = 0
    BY <2>1 DEF Waiting, Arrived, Sends
  <2>3. PICK k \in Nat : k = Lines + 1
    BY <1>3
  <2>4. k - 1 = Lines /\ Lines + 1 - k + 0 = 0 /\ k \in (0 + 1)..(Lines + 1)
    BY <1>3, <2>3
  <2>5. 0 <= (SweepRows - SweepRows) + 0 - PopMax * 0
    BY <1>3
  <2>6. EmptyBefore(k)'
    BY <2>2, <2>4, <2>5 DEF EmptyBefore, SweepRows, Lines
  <2> QED BY <2>6
<1>9. CASE UNCHANGED systemVars
  BY <1>2, <1>9 DEF systemVars, sweepVars, vars, EmptyAfter, EmptyBefore,
                    Waiting, Arrived, Sends
<1> QED BY <1>4, <1>5, <1>6, <1>7, <1>8, <1>9 DEF SystemNext, Running

(* QueueBounded: however unevenly the lines fill the queue and whatever    *)
(* the link, the server and the database do, a sweep that reads no more    *)
(* than its sends can take leaves no more than its own rows in memory.     *)
THEOREM QueueStaysBounded == SystemSpec => []QueueBounded
<1>1. CASE SendsSuffice
  <2>1. QueueInv /\ [SystemNext]_systemVars => QueueInv'
    BY <1>1, QueueNext
  <2>2. QueueInv => QueueBounded
    BY WindowBounds DEF QueueInv, QueueBounded
  <2> QED BY QueueInit, <2>1, <2>2, PTL DEF SystemSpec
<1>2. CASE ~SendsSuffice
  <2>1. QueueBounded
    BY <1>2 DEF QueueBounded, SendsSuffice, Lines
  <2> QED BY <2>1, PTL
<1> QED BY <1>1, <1>2
=============================================================================
