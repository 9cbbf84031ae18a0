----------------------------- MODULE OwenProofs -----------------------------
(***************************************************************************)
(* Proofs about Owen, for any lines, tables, readers and requests: which   *)
(* device a reader of a line without hasNext asks, what its rows are made  *)
(* of, and which devices the requests name.                                *)
(***************************************************************************)
EXTENDS Owen, FunctionTheorems, FiniteSetTheorems, SequenceTheorems, WellFoundedInduction, TLAPS

-----------------------------------------------------------------------------
(* The lines the property is about: their thread does not ask hasNext, and *)
(* has a reader for each device.                                           *)
TurnLine == {l \in Line \ Sweeping : Count(l) = Len(Roster[l])}

(* The multiples of n between -n and n: what the differences below can be. *)
Whole(n) == {-n, 0, n}

(* A variable has a value for each line.                                   *)
Shapes ==
    /\ DOMAIN pc = Line /\ DOMAIN mainPos = Line /\ DOMAIN current = Line
    /\ DOMAIN turn = Line /\ DOMAIN taken = Line

(* The strengthening: the place of the iterator and the requests taken     *)
(* together keep pace with the readers.  Between the push of one reader    *)
(* and the get_address of the next they are one behind.                    *)
Pace(l) == mainPos[l] + taken[l] - turn[l]

LineTurns(l) ==
    /\ mainPos[l] \in 0..Count(l)
    /\ turn[l] \in 1..Count(l)
    /\ taken[l] \in 0..(Count(l) - 1)
    /\ pc[l] # "check"
    /\ pc[l] \in {"rest", "address"} => Pace(l) + 1 \in Whole(Count(l))
    /\ pc[l] \notin {"rest", "address"} => Pace(l) \in Whole(Count(l))

TurnInv == Shapes /\ \A l \in TurnLine : LineTurns(l)

LEMMA Modulo ==
    ASSUME NEW n \in Nat \ {0}
    PROVE  /\ \A x \in Whole(n) : x % n = 0
           /\ \A x \in 0..(n - 1) : (x + 1) % n = IF x + 1 = n THEN 0 ELSE x + 1
<1>1. 0 % n = 0 /\ n % n = 0 /\ (-n) % n = 0
  OBVIOUS
<1>2. \A x \in 0..(n - 1) : x + 1 # n => (x + 1) % n = x + 1
  OBVIOUS
<1>. QED
  BY <1>1, <1>2 DEF Whole

(* Of two counters that go round apart, the one that goes on keeps the     *)
(* difference to the readers a multiple of n.                              *)
LEMMA OneOn ==
    ASSUME NEW n \in Nat \ {0}, NEW m \in 0..n, NEW t \in 1..n, NEW k \in 0..(n - 1),
           m + k - t + 1 \in Whole(n)
    PROVE  /\ m < n  => m + 1 \in 1..n /\ m + 1 + k - t \in Whole(n)
           /\ m >= n => 1 + k - t \in Whole(n)
           /\ k + 1 # n => k + 1 \in 0..(n - 1) /\ m + (k + 1) - t \in Whole(n)
           /\ k + 1 = n => m - t \in Whole(n)
<1>1. /\ n \in Int /\ m \in Int /\ t \in Int /\ k \in Int
      /\ 0 <= m /\ m <= n /\ 1 <= t /\ t <= n /\ 0 <= k /\ k <= n - 1
  OBVIOUS
<1>2. m + k - t + 1 = -n \/ m + k - t + 1 = 0 \/ m + k - t + 1 = n
  BY DEF Whole
<1>3. m < n => m + 1 \in 1..n /\ m + 1 + k - t \in Whole(n)
  BY <1>1, <1>2 DEF Whole
<1>4. m >= n => 1 + k - t = m + k - t + 1 - n
  BY <1>1
<1>5. m >= n => 1 + k - t \in Whole(n)
  BY <1>1, <1>2, <1>4 DEF Whole
<1>6. k + 1 # n => k + 1 \in 0..(n - 1) /\ m + (k + 1) - t \in Whole(n)
  BY <1>1, <1>2 DEF Whole
<1>7. k + 1 = n => m - t = m + k - t + 1 - n
  BY <1>1
<1>8. k + 1 = n => m - t \in Whole(n)
  BY <1>1, <1>2, <1>7 DEF Whole
<1>. QED
  BY <1>3, <1>5, <1>6, <1>8

LEMMA CountPositive ==
    ASSUME NEW l \in Line
    PROVE  Count(l) \in Nat \ {0}
BY OwenAssumption DEF Count

LEMMA TurnInit == Init => TurnInv
<1>. SUFFICES ASSUME Init PROVE TurnInv
  OBVIOUS
<1>1. /\ pc = [l \in Line |-> "rest"] /\ mainPos = [l \in Line |-> 0]
      /\ current = [l \in Line |-> 0]
      /\ turn = [l \in Line |-> 1] /\ taken = [l \in Line |-> 0]
  BY DEF Init
<1>2. ASSUME NEW l \in TurnLine
      PROVE  Count(l) \in Nat \ {0} /\ l \in Line
  BY CountPositive DEF TurnLine
<1>. QED
  BY <1>1, <1>2 DEF TurnInv, LineTurns, Shapes, Pace, Whole

(* Only get_address asks for a device; it takes the next of the sweep or   *)
(* the first request, and the iterator and the count of requests together  *)
(* go on by one, each at its own end back to the start.                    *)
LEMMA AddressTurns ==
    ASSUME TurnInv, NEW l \in TurnLine, get_address(l)
    PROVE  /\ mainPos'[l] \in 0..Count(l)
           /\ taken'[l] \in 0..(Count(l) - 1)
           /\ turn' = turn /\ pc'[l] = "lock"
           /\ Pace(l)' \in Whole(Count(l))
           /\ mainPos'[l] # mainPos[l] =>
                  current'[l] - turn[l] + taken[l] \in Whole(Count(l))
<1>. DEFINE n == Count(l)
<1>1. n \in Nat \ {0} /\ l \in Line /\ n = Len(Roster[l])
  BY CountPositive DEF TurnLine
<1>2. /\ mainPos[l] \in 0..n /\ turn[l] \in 1..n /\ taken[l] \in 0..(n - 1)
      /\ mainPos[l] + taken[l] - turn[l] + 1 \in Whole(n)
  BY DEF TurnInv, LineTurns, Pace, get_address
<1>3. DOMAIN mainPos = Line /\ DOMAIN current = Line /\ DOMAIN taken = Line
  BY DEF TurnInv, Shapes
<1>4. turn' = turn /\ pc'[l] = "lock"
  BY <1>1 DEF get_address, Goto, TurnInv, Shapes
<1>. HIDE DEF n
<1>5. PICK m \in 0..n, t \in 1..n, k \in 0..(n - 1) :
         /\ m = mainPos[l] /\ t = turn[l] /\ k = taken[l]
         /\ m + k - t + 1 \in Whole(n)
  BY <1>2
<1>6. /\ m < n  => m + 1 \in 1..n /\ m + 1 + k - t \in Whole(n)
      /\ m >= n => 1 + k - t \in Whole(n)
      /\ k + 1 # n => k + 1 \in 0..(n - 1) /\ m + (k + 1) - t \in Whole(n)
      /\ k + 1 = n => m - t \in Whole(n)
  BY <1>1, <1>5, OneOn
<1>7. CASE NextOfSweep(l)
  <2>1. /\ mainPos' = [mainPos EXCEPT ![l] = After(mainPos, l)]
        /\ current' = [current EXCEPT ![l] = After(mainPos, l)]
        /\ taken' = taken
    BY <1>7 DEF NextOfSweep
  <2>2. PICK new \in 1..n : new = After(mainPos, l) /\ new + k - t \in Whole(n)
    <3>1. After(mainPos, l) = IF m < n THEN m + 1 ELSE 1
      BY <1>5 DEF After, n
    <3>2. CASE m < n
      BY <1>6, <3>1, <3>2
    <3>3. CASE m >= n
      BY <1>1, <1>6, <3>1, <3>3
    <3>. QED
      BY <1>1, <3>2, <3>3
  <2>3. mainPos'[l] = new /\ current'[l] = new /\ taken'[l] = k
    BY <1>3, <1>1, <1>5, <2>1, <2>2
  <2>4. new \in 0..n /\ new + k - t = new - t + k
    BY <1>1
  <2>. QED
    BY <1>4, <1>5, <2>2, <2>3, <2>4 DEF Pace, n
<1>8. CASE NextOfQueue(l)
  <2>1. taken' = [taken EXCEPT ![l] = (@ + 1) % n] /\ mainPos' = mainPos
    BY <1>1, <1>8 DEF NextOfQueue
  <2>2. taken'[l] = (k + 1) % n
    BY <1>3, <1>1, <1>5, <2>1
  <2>3. taken'[l] = IF k + 1 = n THEN 0 ELSE k + 1
    BY <1>1, <2>2, Modulo
  <2>4. taken'[l] \in 0..(n - 1) /\ m + taken'[l] - t \in Whole(n)
    <3>1. CASE k + 1 = n
      <4>1. taken'[l] = 0 /\ m + 0 - t = m - t
        BY <1>1, <2>3, <3>1
      <4>. QED
        BY <1>1, <1>6, <3>1, <4>1
    <3>2. CASE k + 1 # n
      BY <1>6, <2>3, <3>2
    <3>. QED
      BY <3>1, <3>2
  <2>. QED
    BY <1>4, <1>5, <2>1, <2>4 DEF Pace, n
<1>. QED
  BY <1>7, <1>8 DEF get_address

(* A step of one line's thread leaves the other lines alone.               *)
LEMMA OthersStay ==
    ASSUME Shapes, NEW k \in Line, LineThread(k)
    PROVE  /\ Shapes'
           /\ \A l \in Line \ {k} :
                /\ pc'[l] = pc[l] /\ mainPos'[l] = mainPos[l]
                /\ turn'[l] = turn[l] /\ taken'[l] = taken[l]
<1>. USE DEF Shapes, Goto
<1>1. CASE Wake(k)
  BY <1>1 DEF Wake, guidVars
<1>2. CASE hasNext(k)
  BY <1>2 DEF hasNext
<1>3. CASE get_address(k)
  BY <1>3 DEF get_address, NextOfSweep, NextOfQueue
<1>4. CASE isConnected(k)
  BY <1>4 DEF isConnected, guidVars
<1>5. CASE ReadAnswered(k)
  BY <1>5 DEF ReadAnswered, BlockOver, guidVars
<1>6. CASE ReadFailed(k)
  BY <1>6 DEF ReadFailed, BlockOver, guidVars
<1>7. CASE close(k)
  BY <1>7 DEF close, guidVars
<1>8. CASE push(k)
  BY <1>8 DEF push, guidVars
<1>. QED
  BY <1>1, <1>2, <1>3, <1>4, <1>5, <1>6, <1>7, <1>8 DEF LineThread

LEMMA OwnStep ==
    ASSUME TurnInv, NEW l \in TurnLine, LineThread(l)
    PROVE  LineTurns(l)'
<1>. DEFINE n == Count(l)
<1>1. n \in Nat \ {0} /\ l \in Line /\ n = Len(Roster[l]) /\ l \notin Sweeping
  BY CountPositive DEF TurnLine
<1>2. LineTurns(l) /\ Shapes
  BY DEF TurnInv
<1>3. CASE get_address(l)
  BY <1>3, AddressTurns, <1>2 DEF LineTurns
<1>4. CASE Wake(l)
  BY <1>1, <1>2, <1>4 DEF Wake, Goto, guidVars, Shapes, LineTurns, Pace
<1>5. CASE hasNext(l)
  BY <1>2, <1>5 DEF hasNext, LineTurns
<1>6. CASE isConnected(l) \/ close(l)
  BY <1>1, <1>2, <1>6
     DEF isConnected, close, Goto, guidVars, Shapes, LineTurns, Pace
<1>7. CASE ReadAnswered(l) \/ ReadFailed(l)
  BY <1>1, <1>2, <1>7
     DEF ReadAnswered, ReadFailed, BlockOver, Goto, guidVars, Shapes, LineTurns, Pace
<1>8. CASE push(l)
  <2>1. PICK m \in 0..n, t \in 1..n, k \in 0..(n - 1) :
          /\ m = mainPos[l] /\ t = turn[l] /\ k = taken[l]
          /\ m + k - t \in Whole(n)
    BY <1>2, <1>8 DEF push, LineTurns, Pace
  <2>2. /\ turn'[l] = IF t < n THEN t + 1 ELSE 1
        /\ mainPos'[l] = m /\ taken'[l] = k
        /\ pc'[l] \in {"rest", "address"}
    BY <1>1, <1>2, <1>8, <2>1 DEF push, Goto, guidVars, Shapes
  <2>3. m + k - turn'[l] + 1 \in Whole(n) /\ turn'[l] \in 1..n
    <3>1. CASE t < n
      <4>1. turn'[l] = t + 1 /\ m + k - (t + 1) + 1 = m + k - t /\ t + 1 \in 1..n
        BY <1>1, <2>2, <3>1
      <4>. QED
        BY <2>1, <4>1
    <3>2. CASE t >= n
      <4>1. t = n /\ turn'[l] = 1 /\ m + k - 1 + 1 = m + k /\ 1 \in 1..n
        BY <1>1, <2>2, <3>2
      <4>2. m + k - n # n
        BY <1>1
      <4>3. m + k = 0 \/ m + k = n
        BY <1>1, <2>1, <4>1, <4>2 DEF Whole
      <4>. QED
        BY <4>1, <4>3 DEF Whole
    <3>. QED
      BY <1>1, <3>1, <3>2
  <2>. HIDE DEF n
  <2>4. pc'[l] # "check"
    BY <2>2
  <2>. QED
    BY <2>2, <2>3, <2>4 DEF LineTurns, Pace, n
<1>. QED
  BY <1>3, <1>4, <1>5, <1>6, <1>7, <1>8 DEF LineThread

(* What a step does to the places of the readers is one reader's doing.    *)
LEMMA StepOfOneLine ==
    ASSUME TurnInv, [Next]_vars
    PROVE  \/ \E k \in Line : LineThread(k)
           \/ UNCHANGED <<pc, mainPos, current, turn, taken>>
BY DEF Next, getInfoFromServer, TypedLine, threadVars, guidVars, vars

LEMMA TurnNext ==
    ASSUME TurnInv, [Next]_vars
    PROVE  TurnInv'
<1>1. CASE UNCHANGED <<pc, mainPos, current, turn, taken>>
  BY <1>1 DEF TurnInv, Shapes, LineTurns, Pace
<1>2. ASSUME NEW k \in Line, LineThread(k)
      PROVE  TurnInv'
  <2>1. Shapes'
    BY <1>2, OthersStay DEF TurnInv
  <2>2. ASSUME NEW l \in TurnLine
        PROVE  LineTurns(l)'
    <3>1. CASE l = k
      BY <1>2, <3>1, OwnStep
    <3>2. CASE l # k
      <4>1. /\ pc'[l] = pc[l] /\ mainPos'[l] = mainPos[l]
            /\ turn'[l] = turn[l] /\ taken'[l] = taken[l]
        BY <1>2, <3>2, OthersStay DEF TurnInv, TurnLine
      <4>. QED
        BY <4>1 DEF TurnInv, LineTurns, Pace
    <3>. QED
      BY <3>1, <3>2
  <2>. QED
    BY <2>1, <2>2 DEF TurnInv
<1>. QED
  BY <1>1, <1>2, StepOfOneLine

(* The sweep of a line goes on only where its thread asks for an address.  *)
LEMMA TurnStep ==
    ASSUME TurnInv, [Next]_vars, NEW l \in Line \ Sweeping,
           Count(l) = Len(Roster[l]), mainPos'[l] # mainPos[l]
    PROVE  (current'[l] - turn[l] + taken[l]) % Len(Roster[l]) = 0
<1>1. l \in TurnLine
  BY DEF TurnLine
<1>2. PICK k \in Line : LineThread(k)
  BY StepOfOneLine
<1>3. k = l
  BY <1>2, OthersStay DEF TurnInv
<1>4. get_address(l)
  <2>1. pc[l] # "check"
    BY <1>1 DEF TurnInv, LineTurns
  <2>. QED
    BY <1>2, <1>3, <2>1
       DEF LineThread, Wake, hasNext, isConnected, ReadAnswered, ReadFailed, close,
           push, guidVars
<1>5. current'[l] - turn[l] + taken[l] \in Whole(Count(l))
  BY <1>1, <1>4, AddressTurns
<1>. QED
  BY <1>5, CountPositive, Modulo

(* Two readers of a line without hasNext share one iterator, and a request *)
(* taken in between shifts every reader by a device until the next one:    *)
(* which device a reader asks follows from the requests taken, for any     *)
(* lines, tables and readers, whatever fails.                              *)
THEOREM TurnsFollow == Spec => TurnsFollowRequests
<1>1. Init => TurnInv
  BY TurnInit
<1>2. TurnInv /\ [Next]_vars => TurnInv'
  BY TurnNext
<1>3. TurnInv /\ [Next]_vars =>
        [\A l \in Line \ Sweeping :
            Count(l) = Len(Roster[l]) /\ mainPos'[l] # mainPos[l] =>
                (current'[l] - turn[l] + taken[l]) % Len(Roster[l]) = 0]_vars
  BY TurnStep
<1>. QED
  BY <1>1, <1>2, <1>3, PTL DEF Spec, TurnsFollowRequests

-----------------------------------------------------------------------------
(* Places in a table or a list.                                            *)

LEMMA LeastPlace ==
    ASSUME NEW S \in SUBSET Nat, S # {}
    PROVE  \E i \in S : \A j \in S : i <= j
<1>. DEFINE less == {p \in Nat \X Nat : p[1] < p[2]}
<1>1. IsWellFoundedOn(less, Nat)
  BY NatLessThanWellFounded DEF OpToRel
<1>. HIDE DEF less
<1>2. PICK i \in S : \A j \in S : <<j, i>> \notin less
  BY <1>1, WFMin
<1>3. ASSUME NEW j \in S
      PROVE  i <= j
  <2>1. i \in Nat /\ j \in Nat /\ <<j, i>> \in Nat \X Nat
    OBVIOUS
  <2>2. ~(j < i)
    BY <1>2, <2>1 DEF less
  <2>. QED
    BY <2>1, <2>2
<1>. QED
  BY <1>3

LEMMA LastPlace ==
    ASSUME NEW n \in Nat, NEW S \in SUBSET (1..n), S # {}
    PROVE  \E i \in S : \A j \in S : j <= i
<1>. DEFINE back == {k \in Nat : n - k \in S}
<1>1. PICK s \in S : TRUE
  OBVIOUS
<1>2. s \in 1..n /\ n - s \in Nat /\ n - (n - s) = s
  BY <1>1
<1>3. n - s \in back
  BY <1>2
<1>4. PICK k \in back : \A j \in back : k <= j
  BY <1>3, LeastPlace
<1>5. n - k \in S /\ k \in Nat
  BY <1>4
<1>6. ASSUME NEW j \in S
      PROVE  j <= n - k
  <2>1. j \in 1..n /\ n - j \in Nat /\ n - (n - j) = j
    OBVIOUS
  <2>2. n - j \in back
    BY <2>1
  <2>3. k <= n - j
    BY <1>4, <2>2
  <2>. QED
    BY <1>5, <2>1, <2>3
<1>. QED
  BY <1>5, <1>6

(* Counted from the first, each of a set of places has a number of its     *)
(* own, and each number up to how many there are is the number of one.     *)
LEMMA Ranks ==
    ASSUME NEW n \in Nat, NEW S \in SUBSET (1..n)
    PROVE  /\ IsFiniteSet(S) /\ Cardinality(S) \in Nat
           /\ \A i \in S : Cardinality({j \in S : j <= i}) \in 1..Cardinality(S)
           /\ \A i, j \in S :
                Cardinality({h \in S : h <= i}) = Cardinality({h \in S : h <= j}) => i = j
           /\ \A k \in 1..Cardinality(S) :
                \E i \in S : Cardinality({j \in S : j <= i}) = k
<1>. DEFINE upto(i) == {j \in S : j <= i}
            c == Cardinality(S)
            rank == [i \in S |-> Cardinality(upto(i))]
<1>1. IsFiniteSet(1..n)
  BY FS_Interval
<1>2. IsFiniteSet(S)
  BY <1>1, FS_Subset
<1>3. c \in Nat
  BY <1>2, FS_CardinalityType
<1>4. ASSUME NEW i \in S
      PROVE  /\ IsFiniteSet(upto(i)) /\ Cardinality(upto(i)) \in 1..c
  <2>1. upto(i) \in SUBSET S /\ i \in upto(i)
    OBVIOUS
  <2>2. IsFiniteSet(upto(i)) /\ Cardinality(upto(i)) <= c
    BY <1>2, <2>1, FS_Subset
  <2>3. Cardinality(upto(i)) \in Nat /\ Cardinality(upto(i)) # 0
    BY <2>1, <2>2, FS_CardinalityType, FS_EmptySet
  <2>. HIDE DEF upto, c
  <2>. QED
    BY <1>3, <2>2, <2>3
<1>5. ASSUME NEW i \in S, NEW j \in S, i < j
      PROVE  Cardinality(upto(i)) # Cardinality(upto(j))
  <2>1. upto(i) \in SUBSET upto(j) /\ j \in upto(j) /\ j \notin upto(i)
    <3>1. i \in Nat /\ j \in Nat /\ S \subseteq Nat
      OBVIOUS
    <3>2. \A k \in S : k <= i => k <= j
      BY <1>5, <3>1
    <3>3. j <= j /\ ~(j <= i)
      BY <1>5, <3>1
    <3>. QED
      BY <3>2, <3>3
  <2>2. IsFiniteSet(upto(j))
    BY <1>4
  <2>. HIDE DEF upto
  <2>. QED
    BY <2>1, <2>2, FS_Subset
<1>6. rank \in [S -> 1..c]
  BY <1>4
<1>7. ASSUME NEW i \in S, NEW j \in S, Cardinality(upto(i)) = Cardinality(upto(j))
      PROVE  i = j
  <2>1. ~(i < j) /\ ~(j < i)
    BY <1>5, <1>7
  <2>. QED
    BY <2>1
<1>8. IsFiniteSet(1..c) /\ Cardinality(1..c) = c
  BY <1>3, FS_Interval
<1>9. rank \in Injection(S, 1..c)
  <2>1. \A i, j \in S : rank[i] = rank[j] => i = j
    BY <1>7
  <2>. QED
    BY <1>6, <2>1, Fun_IsInj
<1>. HIDE DEF rank
<1>10. rank \in Surjection(S, 1..c)
  BY <1>8, <1>9, FS_Injection
<1>11. \A k \in 1..c : \E i \in S : rank[i] = k
  BY <1>10, Fun_SurjectionProperties
<1>12. \A k \in 1..c : \E i \in S : Cardinality(upto(i)) = k
  BY <1>11 DEF rank
<1>. QED
  BY <1>2, <1>3, <1>4, <1>7, <1>12

-----------------------------------------------------------------------------
(* What the tables and the queues are made of.                             *)

(* A pin of a device stands for one of the rows with the key of the        *)
(* device.                                                                 *)
LEMMA PinsOf ==
    ASSUME NEW l \in Line, NEW d \in 1..Count(l)
    PROVE  /\ DOMAIN sub_guid[l][d] = {Tables[l].sub[i].pin : i \in ChannelRows(l, d)}
           /\ \A pin \in DOMAIN sub_guid[l][d] :
                \E i \in ChannelRows(l, d) :
                   /\ Tables[l].sub[i].pin = pin
                   /\ Tables[l].sub[i].guid = sub_guid[l][d][pin]
<1>. DEFINE places == ChannelRows(l, d)
            table == Tables[l].sub
            last(pin) == CHOOSE i \in places :
                            /\ table[i].pin = pin
                            /\ \A j \in places : table[j].pin = pin => j <= i
            n == Len(table)
<1>1. sub_guid[l][d] = [pin \in {table[i].pin : i \in places} |-> table[last(pin)].guid]
  BY DEF sub_guid, MapOf
<1>2. n \in Nat /\ places \in SUBSET (1..n)
  <2>1. n \in Nat /\ DOMAIN table = 1..n
    BY OwenAssumption
  <2>2. \A i \in places : i \in DOMAIN table
    BY Zenon DEF ChannelRows, fromGuidTable
  <2>. QED
    BY <2>1, <2>2
<1>. HIDE DEF places, table, n
<1>3. ASSUME NEW pin \in {table[i].pin : i \in places}
      PROVE  last(pin) \in places /\ table[last(pin)].pin = pin
  <2>. DEFINE S == {i \in places : table[i].pin = pin}
  <2>1. S \in SUBSET (1..n) /\ S # {}
    BY <1>2
  <2>2. \E i \in S : \A j \in S : j <= i
    BY <1>2, <2>1, LastPlace
  <2>3. \E i \in places : /\ table[i].pin = pin
                          /\ \A j \in places : table[j].pin = pin => j <= i
    BY <2>2
  <2>. QED
    BY <2>3
<1>. HIDE DEF last
<1>. QED
  BY <1>1, <1>3 DEF places, table

(* find_guid: the first of the holders is a holder.                        *)
LEMMA FoundIsHolder ==
    ASSUME NEW guid, Found(guid)
    PROVE  find_guid(guid) \in Holders(guid)
<1>. DEFINE H == Holders(guid)
            first == {h[1] : h \in H}
<1>1. /\ H # {} /\ first # {} /\ first \in SUBSET Nat
      /\ \A h \in H : h = <<h[1], h[2]>> /\ h[1] \in Nat /\ h[2] \in Nat
  BY OwenAssumption, CountPositive DEF Found, Holders
<1>. HIDE DEF H
<1>2. PICK i \in first : \A j \in first : i <= j
  BY <1>1, LeastPlace
<1>. DEFINE second == {d \in Nat : <<i, d>> \in H}
<1>3. second # {}
  <2>1. PICK h \in H : h[1] = i
    OBVIOUS
  <2>2. h[2] \in second
    BY <1>1, <2>1
  <2>. QED
    BY <2>2
<1>4. PICK d \in second : \A e \in second : d <= e
  BY <1>3, LeastPlace
<1>5. <<i, d>> \in H
  BY <1>4
<1>6. ASSUME NEW k \in H
      PROVE  i < k[1] \/ (i = k[1] /\ d <= k[2])
  <2>1. i \in Nat /\ k[1] \in Nat /\ i <= k[1]
    BY <1>1, <1>2
  <2>2. i = k[1] => k[2] \in second
    BY <1>1
  <2>. QED
    BY <1>4, <2>1, <2>2
<1>7. \E h \in H : \A k \in H : h[1] < k[1] \/ (h[1] = k[1] /\ h[2] <= k[2])
  <2>. DEFINE h == <<i, d>>
  <2>1. h[1] = i /\ h[2] = d /\ h \in H
    BY <1>5
  <2>. QED
    BY <1>6, <2>1
<1>. QED
  BY <1>7 DEF find_guid, H

LEMMA HoldersAre ==
    ASSUME NEW guid, NEW h \in Holders(guid)
    PROVE  /\ h = <<h[1], h[2]>> /\ h[1] \in DOMAIN Lines /\ Lines[h[1]] \in Line
           /\ h[2] \in 1..Count(Lines[h[1]])
           /\ \E pin \in DOMAIN sub_guid[Lines[h[1]]][h[2]] :
                 sub_guid[Lines[h[1]]][h[2]][pin] = guid
BY DEF Holders, Line

(* The devices that join a queue are the finds, in the order of their      *)
(* places in the list.                                                     *)
LEMMA NthIs ==
    ASSUME NEW n \in Nat, NEW guids, DOMAIN guids = 1..n, NEW l
    PROVE  /\ IsFiniteSet(Joining(guids, l)) /\ Cardinality(Joining(guids, l)) \in Nat
           /\ \A k \in 1..Cardinality(Joining(guids, l)) :
                /\ Nth(Joining(guids, l), k) \in Joining(guids, l)
                /\ Cardinality({j \in Joining(guids, l) : j <= Nth(Joining(guids, l), k)}) = k
<1>. DEFINE mine == Joining(guids, l)
<1>1. mine \in SUBSET (1..n)
  BY DEF Joining
<1>. HIDE DEF mine
<1>2. /\ IsFiniteSet(mine) /\ Cardinality(mine) \in Nat
      /\ \A k \in 1..Cardinality(mine) :
           \E i \in mine : Cardinality({j \in mine : j <= i}) = k
  BY <1>1, Ranks
<1>. QED
  BY <1>2 DEF Nth, mine

LEMMA EnqueuedType ==
    ASSUME NEW n \in Nat, NEW guids, DOMAIN guids = 1..n, NEW l \in Line
    PROVE  /\ Enqueued(guids, l) \in Seq(1..Count(l))
           /\ Len(Enqueued(guids, l)) = Cardinality(Joining(guids, l))
<1>. DEFINE mine == Joining(guids, l)
<1>1. ASSUME NEW i \in mine
      PROVE  find_guid(guids[i])[2] \in 1..Count(l)
  <2>1. Found(guids[i]) /\ Lines[find_guid(guids[i])[1]] = l
    BY DEF Joining
  <2>. QED
    BY <2>1, FoundIsHolder, HoldersAre
<1>2. /\ Cardinality(mine) \in Nat
      /\ \A k \in 1..Cardinality(mine) : Nth(mine, k) \in mine
  BY NthIs
<1>3. Enqueued(guids, l) = [k \in 1..Cardinality(mine) |-> find_guid(guids[Nth(mine, k)])[2]]
  BY DEF Enqueued
<1>. HIDE DEF mine
<1>4. PICK c \in Nat : c = Cardinality(mine)
  BY <1>2
<1>5. Enqueued(guids, l) \in [1..c -> 1..Count(l)]
  BY <1>1, <1>2, <1>3, <1>4
<1>6. \A S : \A q \in [1..c -> S] : q \in Seq(S) /\ Len(q) = c
  OBVIOUS
<1>7. Enqueued(guids, l) \in Seq(1..Count(l)) /\ Len(Enqueued(guids, l)) = c
  BY <1>5, <1>6, Zenon
<1>. QED
  BY <1>4, <1>7 DEF mine

-----------------------------------------------------------------------------
(* Types, and the two iterators of a line together.                        *)

Steps == {"rest", "check", "address", "lock", "read", "close", "push"}

Shaped ==
    /\ pc \in [Line -> Steps] /\ bus \in [Line -> BOOLEAN]
    /\ DOMAIN mainPos = Line /\ DOMAIN subPos = Line
    /\ DOMAIN current = Line /\ DOMAIN currentSub = Line
    /\ DOMAIN requests = Line /\ DOMAIN turn = Line /\ DOMAIN block = Line
    /\ DOMAIN registers = Line /\ DOMAIN rows = Line

(* hasNext rewinds main_it only, and next() rewinds each iterator at its   *)
(* own end; a reader past get_address has a device.                        *)
LineOK(l) ==
    /\ mainPos[l] \in 0..Count(l)
    /\ subPos[l] = mainPos[l] \/ (mainPos[l] = 0 /\ subPos[l] = Count(l))
    /\ current[l] \in 0..Count(l) /\ currentSub[l] = current[l]
    /\ pc[l] \in {"lock", "read", "close", "push"} => current[l] # 0
    /\ requests[l] \in Seq(1..Count(l))
    /\ turn[l] \in DOMAIN Roster[l]
    /\ block[l] \in 1..2
    /\ pc[l] = "read" => block[l] \in DOMAIN Blocks[Reader(l)]
    /\ DOMAIN registers[l] = {"device", "start", "fresh"}
    /\ registers[l].device \in 0..Count(l)

OwenInv == Shaped /\ (\A l \in Line : LineOK(l)) /\ asked \in 0..MaxAsked

LEMMA BlockCounts ==
    ASSUME NEW l \in Line, NEW t \in DOMAIN Roster[l]
    PROVE  /\ Len(Blocks[Roster[l][t]]) \in 1..2
           /\ DOMAIN Blocks[Roster[l][t]] = 1..Len(Blocks[Roster[l][t]])
<1>. DEFINE names == {"OwenClass_16D", "OwenClass_8A", "Sphera_24CI", "OwenClass_8AC",
                      "OwenClass_KM", "OwenClass_SimDI", "OwenClass_SimAI",
                      "OwenClass_NL_8R"}
<1>1. DOMAIN Blocks = names
  BY DEF Blocks
<1>2. \A name \in names : Len(Blocks[name]) \in 1..2 /\ DOMAIN Blocks[name] = 1..Len(Blocks[name])
  BY DEF Blocks, OwenClass_16D, OwenClass_8A, Sphera_24CI, OwenClass_8AC, OwenClass_KM,
         OwenClass_SimDI, OwenClass_SimAI, OwenClass_NL_8R
<1>3. Roster[l][t] \in names
  BY <1>1, RosterAssumption
<1>. QED
  BY <1>2, <1>3

LEMMA RosterIs ==
    ASSUME NEW l \in Line
    PROVE  Len(Roster[l]) \in Nat \ {0} /\ DOMAIN Roster[l] = 1..Len(Roster[l])
<1>1. Roster[l] \in Seq(DOMAIN Blocks) /\ Roster[l] # <<>>
  BY RosterAssumption
<1>2. \A S : \A q \in Seq(S) : q # <<>> => Len(q) \in Nat \ {0} /\ DOMAIN q = 1..Len(q)
  BY EmptySeq, LenProperties
<1>. QED
  BY <1>1, <1>2, Zenon

LEMMA OwenInit == Init => OwenInv
<1>. SUFFICES ASSUME Init PROVE OwenInv
  OBVIOUS
<1>1. Shaped
  BY DEF Init, Shaped, Steps
<1>2. ASSUME NEW l \in Line
      PROVE  LineOK(l)
  <2>1. Count(l) \in Nat \ {0} /\ 1 \in DOMAIN Roster[l] /\ 1 \in 1..2
    BY CountPositive, RosterIs
  <2>2. <<>> \in Seq(1..Count(l))
    OBVIOUS
  <2>. QED
    BY <2>1, <2>2 DEF Init, LineOK, Nowhere
<1>3. asked \in 0..MaxAsked
  BY OwenAssumption DEF Init
<1>. QED
  BY <1>1, <1>2, <1>3 DEF OwenInv

(* A step of a thread is about its own line.                               *)
LEMMA OthersKeep ==
    ASSUME Shaped, NEW k \in Line, LineThread(k)
    PROVE  /\ Shaped'
           /\ \A l \in Line \ {k} :
                /\ mainPos'[l] = mainPos[l] /\ subPos'[l] = subPos[l]
                /\ current'[l] = current[l] /\ currentSub'[l] = currentSub[l]
                /\ requests'[l] = requests[l] /\ pc'[l] = pc[l] /\ turn'[l] = turn[l]
                /\ block'[l] = block[l] /\ registers'[l] = registers[l] /\ rows'[l] = rows[l]
<1>. USE DEF Shaped, Steps, Goto
<1>1. CASE Wake(k)
  BY <1>1 DEF Wake, guidVars
<1>2. CASE hasNext(k)
  BY <1>2 DEF hasNext
<1>3. CASE get_address(k)
  BY <1>3 DEF get_address, NextOfSweep, NextOfQueue
<1>4. CASE isConnected(k)
  BY <1>4 DEF isConnected, guidVars
<1>5. CASE ReadAnswered(k)
  BY <1>5 DEF ReadAnswered, BlockOver, guidVars
<1>6. CASE ReadFailed(k)
  BY <1>6 DEF ReadFailed, BlockOver, guidVars
<1>7. CASE close(k)
  BY <1>7 DEF close, guidVars
<1>8. CASE push(k)
  BY <1>8 DEF push, guidVars
<1>. QED
  BY <1>1, <1>2, <1>3, <1>4, <1>5, <1>6, <1>7, <1>8 DEF LineThread

LEMMA AddressOK ==
    ASSUME Shaped, NEW l \in Line, LineOK(l), get_address(l)
    PROVE  LineOK(l)'
<1>1. Count(l) \in Nat \ {0}
  BY CountPositive
<1>. DEFINE n == Count(l)
<1>2. /\ turn' = turn /\ block' = block /\ pc'[l] = "lock"
      /\ registers'[l] = [registers[l] EXCEPT !.fresh = FALSE]
  BY DEF get_address, Goto, Shaped
<1>3. /\ DOMAIN registers'[l] = {"device", "start", "fresh"}
      /\ registers'[l].device = registers[l].device
  BY <1>2 DEF LineOK
<1>4. CASE NextOfSweep(l)
  <2>1. /\ mainPos'[l] = After(mainPos, l) /\ subPos'[l] = After(subPos, l)
        /\ current'[l] = After(mainPos, l) /\ currentSub'[l] = After(subPos, l)
        /\ requests' = requests
    BY <1>4 DEF NextOfSweep, Shaped
  <2>2. /\ After(mainPos, l) \in 1..n /\ After(mainPos, l) # 0
        /\ After(subPos, l) = After(mainPos, l)
    <3>1. CASE subPos[l] = mainPos[l]
      BY <1>1, <3>1 DEF After, LineOK
    <3>2. CASE mainPos[l] = 0 /\ subPos[l] = n
      BY <1>1, <3>2 DEF After
    <3>. QED
      BY <3>1, <3>2 DEF LineOK
  <2>. QED
    BY <1>1, <1>2, <1>3, <2>1, <2>2 DEF LineOK
<1>5. CASE NextOfQueue(l)
  <2>1. /\ mainPos' = mainPos /\ subPos' = subPos
        /\ current'[l] = Head(requests[l]) /\ currentSub'[l] = Head(requests[l])
        /\ requests'[l] = Tail(requests[l]) /\ requests[l] # <<>>
    BY <1>5 DEF NextOfQueue, Shaped
  <2>2. \A S : \A q \in Seq(S) : q # <<>> => Head(q) \in S /\ Tail(q) \in Seq(S)
    BY HeadTailProperties
  <2>3. Head(requests[l]) \in 1..n /\ Tail(requests[l]) \in Seq(1..n)
    BY <2>1, <2>2, Zenon DEF LineOK
  <2>4. current'[l] \in 1..n /\ current'[l] \in 0..n /\ current'[l] # 0
    BY <1>1, <2>1, <2>3
  <2>. QED
    BY <1>1, <1>2, <1>3, <2>1, <2>3, <2>4 DEF LineOK
<1>. QED
  BY <1>4, <1>5 DEF get_address

LEMMA BlockGoesOn ==
    ASSUME Shaped, NEW l \in Line, LineOK(l), pc[l] = "read", BlockOver(l)
    PROVE  /\ block'[l] \in 1..2 /\ pc'[l] \in {"read", "close"}
           /\ pc'[l] = "read" => block'[l] \in DOMAIN Blocks[Reader(l)]
<1>1. /\ Len(Blocks[Reader(l)]) \in 1..2
      /\ DOMAIN Blocks[Reader(l)] = 1..Len(Blocks[Reader(l)])
  BY BlockCounts DEF LineOK, Reader
<1>. DEFINE all == DOMAIN Blocks[Reader(l)]
<1>2. PICK c \in 1..2 : c = Len(Blocks[Reader(l)]) /\ all = 1..c
  BY <1>1
<1>. HIDE DEF all
<1>3. block[l] \in all
  BY DEF LineOK, all
<1>4. CASE block[l] < c
  <2>1. block'[l] = block[l] + 1 /\ pc' = pc
    BY <1>2, <1>4 DEF BlockOver, Shaped
  <2>2. block'[l] \in 1..c /\ block'[l] \in 1..2
    <3>1. PICK b \in 1..c : b = block[l]
      BY <1>2, <1>3
    <3>2. b < c /\ block'[l] = b + 1
      BY <1>4, <2>1, <3>1
    <3>3. c \in Nat /\ b \in Nat /\ 1 <= b /\ c <= 2
      OBVIOUS
    <3>4. b + 1 \in 1..c /\ b + 1 \in 1..2
      BY <3>2, <3>3
    <3>. QED
      BY <3>2, <3>4
  <2>3. block'[l] \in all
    BY <1>2, <2>2
  <2>. QED
    BY <2>1, <2>2, <2>3 DEF all
<1>5. CASE ~(block[l] < c)
  <2>1. pc'[l] = "close" /\ block' = block
    BY <1>2, <1>5 DEF BlockOver, Goto, Shaped
  <2>. QED
    BY <2>1 DEF LineOK
<1>. QED
  BY <1>4, <1>5

LEMMA OwnLineOK ==
    ASSUME Shaped, NEW l \in Line, LineOK(l), LineThread(l)
    PROVE  LineOK(l)'
<1>1. CASE Wake(l)
  BY <1>1 DEF Wake, Goto, guidVars, Shaped, LineOK, Reader
<1>2. CASE hasNext(l)
  <2>1. Count(l) \in Nat \ {0}
    BY CountPositive
  <2>2. CASE mainPos[l] < Count(l)
    BY <1>2, <2>2 DEF hasNext, Goto, Shaped, LineOK, Reader
  <2>3. CASE ~(mainPos[l] < Count(l))
    <3>1. mainPos[l] = Count(l) /\ subPos[l] = Count(l)
      BY <2>1, <2>3 DEF LineOK
    <3>. QED
      BY <1>2, <2>1, <2>3, <3>1 DEF hasNext, Goto, Shaped, LineOK, Reader
  <2>. QED
    BY <2>2, <2>3
<1>3. CASE get_address(l)
  BY <1>3, AddressOK
<1>4. CASE isConnected(l)
  <2>1. 1 \in DOMAIN Blocks[Reader(l)]
    BY BlockCounts DEF LineOK, Reader
  <2>2. block'[l] = 1 /\ 1 \in 1..2
    BY <1>4 DEF isConnected, Shaped
  <2>. QED
    BY <1>4, <2>1, <2>2 DEF isConnected, Goto, guidVars, Shaped, LineOK, Reader
<1>5. CASE ReadAnswered(l)
  <2>1. pc[l] = "read" /\ BlockOver(l)
    BY <1>5 DEF ReadAnswered
  <2>2. /\ block'[l] \in 1..2 /\ pc'[l] \in {"read", "close"}
        /\ pc'[l] = "read" => block'[l] \in DOMAIN Blocks[Reader(l)]
    BY <2>1, BlockGoesOn
  <2>3. registers'[l] = [device |-> current[l], start |-> Asking(l).start, fresh |-> TRUE]
    BY <1>5 DEF ReadAnswered, Shaped
  <2>4. DOMAIN registers'[l] = {"device", "start", "fresh"} /\ registers'[l].device = current[l]
    BY <2>3
  <2>. QED
    BY <1>5, <2>1, <2>2, <2>4 DEF ReadAnswered, guidVars, LineOK, Reader
<1>6. CASE ReadFailed(l)
  <2>1. pc[l] = "read" /\ BlockOver(l)
    BY <1>6 DEF ReadFailed
  <2>2. /\ block'[l] \in 1..2 /\ pc'[l] \in {"read", "close"}
        /\ pc'[l] = "read" => block'[l] \in DOMAIN Blocks[Reader(l)]
    BY <2>1, BlockGoesOn
  <2>. QED
    BY <1>6, <2>1, <2>2 DEF ReadFailed, guidVars, LineOK, Reader
<1>7. CASE close(l)
  BY <1>7 DEF close, Goto, guidVars, Shaped, LineOK, Reader
<1>8. CASE push(l)
  <2>1. turn'[l] \in DOMAIN Roster[l]
    BY <1>8, RosterIs DEF push, Shaped, LineOK
  <2>2. pc'[l] \notin {"lock", "read", "close", "push"}
    BY <1>8 DEF push, Goto, Shaped
  <2>. QED
    BY <1>8, <2>1, <2>2 DEF push, guidVars, LineOK
<1>. QED
  BY <1>1, <1>2, <1>3, <1>4, <1>5, <1>6, <1>7, <1>8 DEF LineThread

(* addQueue adds devices of the line to the queue of the line.             *)
LEMMA QueuesGrow ==
    ASSUME OwenInv, NEW n \in Nat, NEW guids, DOMAIN guids = 1..n, addQueue(guids)
    PROVE  /\ DOMAIN requests' = Line
           /\ \A l \in Line : requests'[l] \in Seq(1..Count(l))
<1>. SUFFICES ASSUME NEW l \in Line
              PROVE  requests[l] \o Enqueued(guids, l) \in Seq(1..Count(l))
  BY DEF addQueue
<1>1. requests[l] \in Seq(1..Count(l))
  BY DEF OwenInv, LineOK
<1>2. Enqueued(guids, l) \in Seq(1..Count(l))
  BY EnqueuedType
<1>3. \A S : \A p, q \in Seq(S) : p \o q \in Seq(S)
  BY ConcatProperties
<1>. QED
  BY <1>1, <1>2, <1>3, Zenon

(* An answer of the server with the guids it wants read makes a list of    *)
(* two lists, an exchange without one a list of one.                       *)
LEMMA AskedFor ==
    ASSUME OwenInv, getInfoFromServer
    PROVE  \/ requests' = requests /\ named' = {} /\ asked' = asked
           \/ \E n \in 0..(MaxAsked - asked) :
                 \E guids \in [1..n -> AllGuid] :
                    /\ addQueue(guids)
                    /\ named' = {guids[i] : i \in 1..n} /\ asked' = asked + n
<1>1. Append(AfterPeriod(<<>>), Ours) = <<Ours>> /\ <<Ours>>[1] = Ours
  BY DEF AfterPeriod
<1>2. \A given : Append(AfterPeriod(given), Ours) = <<Ours>>
  BY <1>1 DEF AfterPeriod
<1>3. <<Ours>> \o <<>> = <<Ours>> /\ Len(<<Ours>>) # 2
  OBVIOUS
<1>4. ASSUME NEW given, Ask(given, <<>>)
      PROVE  requests' = requests
  BY <1>2, <1>3, <1>4 DEF Ask
<1>5. GuidsOf(Ours) = AllGuid
  BY DEF GuidsOf, Ours
<1>6. ASSUME NEW given, NEW guids, Ask(given, <<Wanted(guids)>>)
      PROVE  addQueue(guids)
  <2>. DEFINE wanted == Wanted(guids)
  <2>1. wanted.what = "wanted" /\ wanted.guids = guids
    BY DEF Wanted
  <2>. HIDE DEF wanted
  <2>2. Len(<<Ours>> \o <<wanted>>) = 2 /\ (<<Ours>> \o <<wanted>>)[2] = wanted
    <3>. DEFINE o == <<Ours>>
                w == <<wanted>>
                S == {Ours, wanted}
    <3>1. o \in Seq(S) /\ w \in Seq(S) /\ Len(o) = 1 /\ Len(w) = 1 /\ w[1] = wanted
      OBVIOUS
    <3>. HIDE DEF o, w, S
    <3>2. /\ Len(o \o w) = Len(o) + Len(w)
          /\ \A i \in 1..(Len(o) + Len(w)) :
                (o \o w)[i] = IF i <= Len(o) THEN o[i] ELSE w[i - Len(o)]
      BY <3>1, ConcatProperties
    <3>. QED
      BY <3>1, <3>2 DEF o, w
  <2>3. \E all \in IF wanted.what = "ours" THEN [{1} -> AllGuid] ELSE {wanted.guids} :
           addQueue(all)
    BY <1>2, <1>6, <2>2 DEF Ask, wanted
  <2>. QED
    BY <2>1, <2>3
<1>7. PICK given \in {<<>>, <<Interval>>}, n \in 0..(MaxAsked - asked) :
         \/ Ask(given, <<>>) /\ named' = {} /\ UNCHANGED asked
         \/ \E guids \in [1..n -> GuidsOf(Ours)] :
               /\ Ask(given, <<Wanted(guids)>>)
               /\ named' = {guids[i] : i \in 1..n}
               /\ asked' = asked + n
  BY <1>1, <1>2 DEF getInfoFromServer
<1>. QED
  BY <1>4, <1>5, <1>6, <1>7

(* What is not a thread's step touches the queues only.                    *)
LEMMA OwenNext ==
    ASSUME OwenInv, [Next]_vars
    PROVE  OwenInv'
<1>1. CASE UNCHANGED vars
  BY <1>1 DEF OwenInv, Shaped, LineOK, Reader, vars, guidVars, threadVars
<1>2. ASSUME NEW k \in Line, LineThread(k)
      PROVE  OwenInv'
  <2>1. Shaped'
    BY <1>2, OthersKeep DEF OwenInv
  <2>2. ASSUME NEW l \in Line
        PROVE  LineOK(l)'
    <3>1. CASE l = k
      BY <1>2, <3>1, OwnLineOK DEF OwenInv
    <3>2. CASE l # k
      <4>1. /\ mainPos'[l] = mainPos[l] /\ subPos'[l] = subPos[l]
            /\ current'[l] = current[l] /\ currentSub'[l] = currentSub[l]
            /\ requests'[l] = requests[l] /\ pc'[l] = pc[l] /\ turn'[l] = turn[l]
            /\ block'[l] = block[l] /\ registers'[l] = registers[l]
        BY <1>2, <3>2, OthersKeep DEF OwenInv
      <4>. QED
        BY <4>1 DEF OwenInv, LineOK, Reader
    <3>. QED
      BY <3>1, <3>2
  <2>3. asked' = asked
    BY <1>2 DEF LineThread
  <2>. QED
    BY <2>1, <2>2, <2>3 DEF OwenInv
<1>3. ASSUME UNCHANGED <<mainPos, subPos, current, currentSub, taken, threadVars>>,
             DOMAIN requests' = Line, \A l \in Line : requests'[l] \in Seq(1..Count(l)),
             asked' \in 0..MaxAsked
      PROVE  OwenInv'
  BY <1>3 DEF OwenInv, Shaped, LineOK, Reader, threadVars
<1>4. asked \in 0..MaxAsked /\ MaxAsked \in Nat
  BY OwenAssumption DEF OwenInv
<1>5. CASE getInfoFromServer
  <2>1. UNCHANGED <<mainPos, subPos, current, currentSub, taken, threadVars>>
    BY <1>5 DEF getInfoFromServer
  <2>2. CASE requests' = requests /\ asked' = asked
    BY <1>3, <1>4, <2>1, <2>2 DEF OwenInv, Shaped, LineOK
  <2>3. ASSUME NEW n \in 0..(MaxAsked - asked), NEW guids \in [1..n -> AllGuid],
               addQueue(guids), asked' = asked + n
        PROVE  OwenInv'
    <3>1. n \in Nat /\ asked' \in 0..MaxAsked /\ DOMAIN guids = 1..n
      BY <1>4, <2>3
    <3>2. DOMAIN requests' = Line /\ \A l \in Line : requests'[l] \in Seq(1..Count(l))
      BY <2>3, <3>1, QueuesGrow
    <3>. QED
      BY <1>3, <2>1, <3>1, <3>2
  <2>. QED
    BY <1>5, <2>2, <2>3, AskedFor
<1>6. CASE TypedLine
  <2>1. UNCHANGED <<mainPos, subPos, current, currentSub, taken, threadVars>>
    BY <1>6 DEF TypedLine
  <2>2. PICK guid : addQueue(<<guid>>)
    BY <1>6 DEF TypedLine
  <2>3. DOMAIN <<guid>> = 1..1
    OBVIOUS
  <2>4. DOMAIN requests' = Line /\ \A l \in Line : requests'[l] \in Seq(1..Count(l))
    BY <2>2, <2>3, QueuesGrow
  <2>5. asked' \in 0..MaxAsked
    BY <1>4, <1>6 DEF TypedLine
  <2>. QED
    BY <1>3, <2>1, <2>4, <2>5
<1>. QED
  BY <1>1, <1>2, <1>5, <1>6 DEF Next

LEMMA OwenInvariant == Spec => []OwenInv
<1>. QED
  BY OwenInit, OwenNext, PTL DEF Spec

LEMMA OwenTypes == OwenInv => TypeOK
<1>. SUFFICES ASSUME OwenInv PROVE TypeOK
  OBVIOUS
<1>1. ASSUME NEW l \in Line
      PROVE  /\ mainPos[l] \in 0..Count(l) /\ subPos[l] \in 0..Count(l)
             /\ current[l] \in 0..Count(l) /\ currentSub[l] \in 0..Count(l)
             /\ requests[l] \in Seq(1..Count(l))
             /\ turn[l] \in DOMAIN Roster[l] /\ block[l] \in 1..2
             /\ registers[l].device \in 0..Count(l)
  BY CountPositive DEF OwenInv, LineOK
<1>. QED
  BY <1>1 DEF OwenInv, Shaped, Steps, TypeOK

(* The positions of the iterators, the devices being read and the requests *)
(* waiting are devices of the line, for any lines, tables and readers,     *)
(* whatever the server and the operator name.                              *)
THEOREM OwenTypeCorrect == Spec => []TypeOK
<1>. QED
  BY OwenInvariant, OwenTypes, PTL

-----------------------------------------------------------------------------
(* What the rows of a reader are made of.                                  *)

(* Every device has a key: with none, fromGuidTable asks for no key and    *)
(* the device has the channels of all of them.                             *)
Keyed == \A l \in Line : \A d \in 1..Count(l) : Tables[l].main[d].key # ""

(* The rows made of an answer are of the device that was asked, as both    *)
(* parts of what get_address sets are of one device.                       *)
LEMMA NewRows ==
    ASSUME Keyed, NEW l \in Line, LineOK(l), pc[l] = "read",
           NEW from, from = [device |-> current[l], start |-> Asking(l).start, fresh |-> TRUE],
           NEW row \in RowsOf(l, from)
    PROVE  /\ row.from.fresh
           /\ \E i \in DOMAIN Tables[l].sub :
                 /\ Tables[l].sub[i].guid = row.guid /\ Tables[l].sub[i].pin = row.pin
                 /\ Tables[l].sub[i].key = Tables[l].main[row.from.device].key
           /\ \E i \in DOMAIN Blocks[Reader(l)] :
                 /\ Blocks[Reader(l)][i].start = row.from.start
                 /\ row.pin \in Blocks[Reader(l)][i].pins
<1>. DEFINE d == current[l]
<1>1. d \in 1..Count(l) /\ currentSub[l] = d
  BY CountPositive DEF LineOK
<1>. HIDE DEF d
<1>2. PICK pin \in Asking(l).pins \cap DOMAIN sub_guid[l][d] :
        row = [guid |-> sub_guid[l][d][pin], pin |-> pin, from |-> from]
  BY <1>1 DEF RowsOf
<1>3. row.guid = sub_guid[l][d][pin] /\ row.pin = pin /\ row.from = from
  BY <1>2
<1>4. from.fresh = TRUE /\ from.device = d /\ from.start = Asking(l).start
  BY DEF d
<1>5. PICK i \in ChannelRows(l, d) :
        Tables[l].sub[i].pin = pin /\ Tables[l].sub[i].guid = sub_guid[l][d][pin]
  BY <1>1, <1>2, PinsOf
<1>6. i \in DOMAIN Tables[l].sub /\ Tables[l].sub[i].key = Tables[l].main[d].key
  <2>1. Tables[l].main[d].key # ""
    BY <1>1, Zenon DEF Keyed
  <2>. QED
    BY <1>5, <2>1, Zenon DEF ChannelRows, fromGuidTable
<1>7. /\ block[l] \in DOMAIN Blocks[Reader(l)] /\ pin \in Asking(l).pins
      /\ Asking(l) = Blocks[Reader(l)][block[l]]
  BY <1>2 DEF LineOK, Asking
<1>. QED
  BY <1>3, <1>4, <1>5, <1>6, <1>7

LEMMA RowsNext ==
    ASSUME Keyed, OwenInv, OwnRow, [Next]_vars
    PROVE  OwnRow'
<1>1. CASE UNCHANGED <<rows, turn>>
  BY <1>1 DEF OwnRow, Reader
<1>2. CASE UNCHANGED threadVars
  BY <1>1, <1>2 DEF threadVars
<1>3. ASSUME NEW k \in Line, LineThread(k)
      PROVE  OwnRow'
  <2>1. Shaped /\ LineOK(k)
    BY DEF OwenInv
  <2>2. \A l \in Line \ {k} : rows'[l] = rows[l] /\ turn'[l] = turn[l]
    BY <1>3, <2>1, OthersKeep
  <2>3. CASE Wake(k) \/ hasNext(k) \/ get_address(k) \/ isConnected(k) \/ ReadFailed(k) \/ close(k)
    BY <1>1, <2>3 DEF Wake, hasNext, get_address, isConnected, ReadFailed, close
  <2>4. CASE ReadAnswered(k)
    <3>. DEFINE from == [device |-> current[k], start |-> Asking(k).start, fresh |-> TRUE]
    <3>1. turn' = turn /\ rows'[k] = rows[k] \cup RowsOf(k, from) /\ pc[k] = "read"
      BY <2>1, <2>4 DEF ReadAnswered, Shaped
    <3>2. \A row \in RowsOf(k, from) :
            /\ row.from.fresh
            /\ \E i \in DOMAIN Tables[k].sub :
                  /\ Tables[k].sub[i].guid = row.guid /\ Tables[k].sub[i].pin = row.pin
                  /\ Tables[k].sub[i].key = Tables[k].main[row.from.device].key
            /\ \E i \in DOMAIN Blocks[Reader(k)] :
                  /\ Blocks[Reader(k)][i].start = row.from.start
                  /\ row.pin \in Blocks[Reader(k)][i].pins
      BY <2>1, <3>1, NewRows
    <3>. HIDE DEF from
    <3>. QED
      BY <2>2, <3>1, <3>2 DEF OwnRow, Reader
  <2>5. CASE push(k)
    <3>1. rows'[k] = {}
      BY <2>1, <2>5 DEF push, Shaped
    <3>. QED
      BY <2>2, <3>1 DEF OwnRow, Reader
  <2>. QED
    BY <1>3, <2>3, <2>4, <2>5 DEF LineThread
<1>4. CASE getInfoFromServer \/ TypedLine
  BY <1>2, <1>4 DEF getInfoFromServer, TypedLine
<1>. QED
  BY <1>2, <1>3, <1>4 DEF Next, vars

(* A row a reader reports was read from the device its guid belongs to, by *)
(* the question its pin belongs to, and in this reading, whatever fails    *)
(* and whoever shares the registers; provided every device has a key.      *)
THEOREM OwnRows ==
    ASSUME Keyed
    PROVE  Spec => []OwnRow
<1>1. Init => OwnRow
  BY DEF Init, OwnRow
<1>2. OwenInv /\ OwnRow /\ [Next]_vars => OwnRow'
  BY RowsNext
<1>. QED
  BY <1>1, <1>2, OwenInvariant, PTL DEF Spec

-----------------------------------------------------------------------------
(* Whom the requests name.                                                 *)

(* The tables tell the devices apart: a line has its own tables, a guid is *)
(* that of one channel of one device, a pin of a device has one channel,   *)
(* and no two devices have the same row of a main table.                   *)
Distinct ==
    /\ \A i, j \in DOMAIN Lines : Lines[i] = Lines[j] => i = j
    /\ \A l, m \in Line : \A d \in 1..Count(l), e \in 1..Count(m) :
          /\ Tables[l].main[d] = Tables[m].main[e] => l = m /\ d = e
          /\ \A i \in ChannelRows(l, d), j \in ChannelRows(m, e) :
                Tables[l].sub[i].guid = Tables[m].sub[j].guid => l = m /\ d = e
    /\ \A l \in Line : \A d \in 1..Count(l) : \A i, j \in ChannelRows(l, d) :
          Tables[l].sub[i].pin = Tables[l].sub[j].pin => i = j

(* find_guid finds the device one of whose channels has the guid.          *)
Finds(guid, l, d) ==
    Found(guid) /\ Lines[find_guid(guid)[1]] = l /\ find_guid(guid)[2] = d

LEMMA FindsWhose ==
    ASSUME Distinct, NEW guid, NEW l \in Line, NEW d \in 1..Count(l)
    PROVE  Finds(guid, l, d) <=> \E i \in ChannelRows(l, d) : Tables[l].sub[i].guid = guid
<1>1. ASSUME NEW h \in Holders(guid)
      PROVE  /\ Lines[h[1]] \in Line /\ h[2] \in 1..Count(Lines[h[1]])
             /\ \E j \in ChannelRows(Lines[h[1]], h[2]) : Tables[Lines[h[1]]].sub[j].guid = guid
  <2>1. /\ Lines[h[1]] \in Line /\ h[2] \in 1..Count(Lines[h[1]])
        /\ \E pin \in DOMAIN sub_guid[Lines[h[1]]][h[2]] :
              sub_guid[Lines[h[1]]][h[2]][pin] = guid
    BY HoldersAre
  <2>. DEFINE m == Lines[h[1]]
              e == h[2]
  <2>. HIDE DEF m, e
  <2>2. /\ m \in Line /\ e \in 1..Count(m)
        /\ \E pin \in DOMAIN sub_guid[m][e] : sub_guid[m][e][pin] = guid
    BY <2>1 DEF m, e
  <2>3. \E j \in ChannelRows(m, e) : Tables[m].sub[j].guid = guid
    BY <2>2, PinsOf
  <2>. QED
    BY <2>2, <2>3 DEF m, e
<1>2. ASSUME Finds(guid, l, d)
      PROVE  \E i \in ChannelRows(l, d) : Tables[l].sub[i].guid = guid
  BY <1>1, <1>2, FoundIsHolder DEF Finds
<1>3. ASSUME NEW i \in ChannelRows(l, d), Tables[l].sub[i].guid = guid
      PROVE  Finds(guid, l, d)
  <2>. DEFINE pin == Tables[l].sub[i].pin
  <2>1. pin \in DOMAIN sub_guid[l][d]
    BY PinsOf
  <2>2. PICK j \in ChannelRows(l, d) :
          Tables[l].sub[j].pin = pin /\ Tables[l].sub[j].guid = sub_guid[l][d][pin]
    BY <2>1, PinsOf
  <2>3. j = i
    BY <2>2, Zenon DEF Distinct
  <2>4. sub_guid[l][d][pin] = guid
    BY <1>3, <2>2, <2>3
  <2>5. PICK a \in DOMAIN Lines : Lines[a] = l
    BY DEF Line
  <2>6. <<a, d>> \in Holders(guid)
    <3>. DEFINE whose(k) == {b \in 1..Count(Lines[k]) :
                              \E p \in DOMAIN sub_guid[Lines[k]][b] :
                                  sub_guid[Lines[k]][b][p] = guid}
    <3>1. d \in whose(a)
      BY <2>1, <2>4, <2>5
    <3>2. Holders(guid) = UNION {{<<k, b>> : b \in whose(k)} : k \in DOMAIN Lines}
      BY Zenon DEF Holders
    <3>. HIDE DEF whose
    <3>. QED
      BY <2>5, <3>1, <3>2
  <2>7. Found(guid)
    BY <2>6 DEF Found
  <2>. DEFINE h == find_guid(guid)
  <2>8. h \in Holders(guid)
    BY <2>7, FoundIsHolder
  <2>. HIDE DEF h
  <2>. DEFINE m == Lines[h[1]]
              e == h[2]
  <2>9. PICK k \in ChannelRows(m, e) : Tables[m].sub[k].guid = guid
    BY <1>1, <2>8
  <2>10. m \in Line /\ e \in 1..Count(m)
    BY <1>1, <2>8
  <2>. HIDE DEF m, e
  <2>11. l = m /\ d = e
    <3>1. \A x \in ChannelRows(l, d), y \in ChannelRows(m, e) :
             Tables[l].sub[x].guid = Tables[m].sub[y].guid => l = m /\ d = e
      BY <2>10, Zenon DEF Distinct
    <3>. QED
      BY <1>3, <2>9, <3>1
  <2>. QED
    BY <2>7, <2>11 DEF Finds, h, m, e
<1>. QED
  BY <1>2, <1>3

(* The devices that join the queue of a line are those find_guid finds,    *)
(* each of them once.                                                      *)
LEMMA EnqueuedAre ==
    ASSUME Distinct, NEW n \in Nat, NEW guids, DOMAIN guids = 1..n, NEW l \in Line
    PROVE  LET found == {d \in 1..Count(l) : \E i \in 1..n : Finds(guids[i], l, d)}
           IN  /\ {Enqueued(guids, l)[k] : k \in DOMAIN Enqueued(guids, l)} = found
               /\ Len(Enqueued(guids, l)) = Cardinality(found)
<1>. DEFINE mine == Joining(guids, l)
            found == {d \in 1..Count(l) : \E i \in 1..n : Finds(guids[i], l, d)}
            device(i) == find_guid(guids[i])[2]
            row(i) == Row(find_guid(guids[i]))
            c == Cardinality(mine)
<1>1. \A i \in mine : i \in 1..n /\ Finds(guids[i], l, device(i)) /\ device(i) \in 1..Count(l)
  <2>. SUFFICES ASSUME NEW i \in mine
                PROVE  i \in 1..n /\ Finds(guids[i], l, device(i)) /\ device(i) \in 1..Count(l)
    OBVIOUS
  <2>1. i \in 1..n /\ Found(guids[i]) /\ Lines[find_guid(guids[i])[1]] = l
    BY DEF Joining
  <2>2. device(i) \in 1..Count(l)
    BY <2>1, FoundIsHolder, HoldersAre
  <2>. QED
    BY <2>1, <2>2 DEF Finds
<1>2. ASSUME NEW i \in 1..n, NEW d \in 1..Count(l), Finds(guids[i], l, d)
      PROVE  row(i) = Tables[l].main[d]
  BY <1>2 DEF Finds, Row
<1>3. ASSUME NEW i \in mine, NEW j \in mine, device(i) = device(j)
      PROVE  i = j
  <2>1. row(i) = row(j)
    BY <1>1, <1>2, <1>3
  <2>2. \A h \in mine : \A k \in 1..(h - 1) : Found(guids[k]) => row(k) # row(h)
    BY DEF Joining
  <2>3. i \in 1..n /\ j \in 1..n /\ Found(guids[i]) /\ Found(guids[j])
    BY <1>1 DEF Finds
  <2>. HIDE DEF mine, row
  <2>4. ~(i < j) /\ ~(j < i)
    <3>1. i < j => i \in 1..(j - 1)
      BY <2>3
    <3>2. j < i => j \in 1..(i - 1)
      BY <2>3
    <3>. QED
      BY <2>1, <2>2, <2>3, <3>1, <3>2
  <2>. QED
    BY <2>3, <2>4
<1>4. ASSUME NEW d \in found
      PROVE  \E i \in mine : device(i) = d
  <2>. DEFINE S == {i \in 1..n : Finds(guids[i], l, d)}
  <2>1. S \in SUBSET Nat /\ S # {}
    OBVIOUS
  <2>2. PICK i \in S : \A j \in S : i <= j
    BY <2>1, LeastPlace
  <2>3. i \in 1..n /\ Finds(guids[i], l, d) /\ d \in 1..Count(l)
    BY <2>2
  <2>4. ASSUME NEW j \in 1..(i - 1), Found(guids[j])
        PROVE  row(j) # row(i)
    <3>1. j \in 1..n /\ j < i
      BY <2>3
    <3>. DEFINE m == Lines[find_guid(guids[j])[1]]
                e == find_guid(guids[j])[2]
    <3>2. m \in Line /\ e \in 1..Count(m)
      BY <2>4, FoundIsHolder, HoldersAre
    <3>3. row(j) = Tables[m].main[e] /\ Finds(guids[j], m, e)
      BY <2>4 DEF Row, Finds
    <3>4. row(i) = Tables[l].main[d]
      BY <1>2, <2>3
    <3>. HIDE DEF m, e, row
    <3>5. row(j) = row(i) => m = l /\ e = d
      <4>1. \A x, y \in Line : \A a \in 1..Count(x), b \in 1..Count(y) :
               Tables[x].main[a] = Tables[y].main[b] => x = y /\ a = b
        BY DEF Distinct
      <4>. QED
        BY <2>3, <3>2, <3>3, <3>4, <4>1
    <3>6. j \notin S
      BY <2>2, <3>1
    <3>7. ~Finds(guids[j], l, d)
      BY <3>1, <3>6
    <3>. QED
      BY <3>3, <3>5, <3>7
  <2>5. i \in mine
    BY <2>3, <2>4 DEF Joining, Finds
  <2>. QED
    BY <2>3, <2>5 DEF Finds
<1>5. /\ IsFiniteSet(mine) /\ c \in Nat
      /\ \A k \in 1..c :
           /\ Nth(mine, k) \in mine
           /\ Cardinality({j \in mine : j <= Nth(mine, k)}) = k
  <2>1. \A x \in Nat : \A g : DOMAIN g = 1..x => \A y :
          /\ IsFiniteSet(Joining(g, y)) /\ Cardinality(Joining(g, y)) \in Nat
          /\ \A k \in 1..Cardinality(Joining(g, y)) :
               /\ Nth(Joining(g, y), k) \in Joining(g, y)
               /\ Cardinality({j \in Joining(g, y) : j <= Nth(Joining(g, y), k)}) = k
    BY NthIs
  <2>. QED
    BY <2>1
<1>6. \A i \in mine : \E k \in 1..c : Nth(mine, k) = i
  <2>. SUFFICES ASSUME NEW i \in mine PROVE \E k \in 1..c : Nth(mine, k) = i
    OBVIOUS
  <2>1. mine \in SUBSET (1..n)
    BY DEF Joining
  <2>. HIDE DEF mine
  <2>. DEFINE k == Cardinality({j \in mine : j <= i})
  <2>2. k \in 1..Cardinality(mine)
    BY <2>1, Ranks
  <2>3. Nth(mine, k) \in mine /\ Cardinality({j \in mine : j <= Nth(mine, k)}) = k
    BY <1>5, <2>2
  <2>4. \A a, b \in mine :
          Cardinality({h \in mine : h <= a}) = Cardinality({h \in mine : h <= b}) => a = b
    BY <2>1, Ranks
  <2>5. Nth(mine, k) = i
    BY <2>3, <2>4
  <2>. QED
    BY <2>2, <2>5
<1>7. Enqueued(guids, l) = [k \in 1..c |-> device(Nth(mine, k))]
  BY DEF Enqueued
<1>8. \A i \in mine : device(i) \in found
  BY <1>1
<1>. HIDE DEF mine, found, device
<1>9. {Enqueued(guids, l)[k] : k \in DOMAIN Enqueued(guids, l)} = found
  <2>1. DOMAIN Enqueued(guids, l) = 1..c
    BY <1>7
  <2>2. \A k \in 1..c : Enqueued(guids, l)[k] = device(Nth(mine, k))
    BY <1>7
  <2>3. \A k \in 1..c : Enqueued(guids, l)[k] \in found
    BY <1>5, <1>8, <2>2
  <2>4. \A d \in found : \E k \in 1..c : Enqueued(guids, l)[k] = d
    BY <1>4, <1>6, <2>2
  <2>. HIDE DEF c
  <2>. QED
    BY <2>1, <2>3, <2>4
<1>10. Cardinality(found) = c
  <2>. DEFINE dev == [i \in mine |-> device(i)]
  <2>1. dev \in [mine -> found]
    BY <1>8
  <2>2. /\ \A d \in found : \E i \in mine : dev[i] = d
        /\ \A i, j \in mine : dev[i] = dev[j] => i = j
    BY <1>3, <1>4
  <2>. HIDE DEF dev
  <2>3. dev \in Surjection(mine, found) /\ dev \in Injection(mine, found)
    BY <2>1, <2>2, Fun_IsSurj, Fun_IsInj
  <2>. QED
    BY <1>5, <2>3, FS_Surjection
<1>11. Len(Enqueued(guids, l)) = c
  BY EnqueuedType DEF mine
<1>. QED
  BY <1>9, <1>10, <1>11 DEF found

(* The requests a list adds to the queue of a line, seen in the queue.     *)
LEMMA Added ==
    ASSUME NEW S, NEW p \in Seq(S), NEW q \in Seq(S)
    PROVE  /\ SubSeq(p \o q, 1, Len(p)) = p
           /\ SubSeq(p \o q, Len(p) + 1, Len(p \o q)) = q
<1>1. Len(p) \in Nat /\ Len(q) \in Nat /\ Len(p \o q) = Len(p) + Len(q)
  BY LenProperties, ConcatProperties
<1>. DEFINE a == Len(p)
            b == Len(q)
<1>2. SubSeq(p, 1, a) = p /\ SubSeq(q, 1, b) = q
  BY SubSeqFull
<1>3. SubSeq(p \o q, 1, a) = p
  <2>1. CASE a = 0
    <3>1. SubSeq(p \o q, 1, 0) = <<>>
      BY SubSeqEmpty
    <3>2. p = <<>>
      BY <2>1, EmptySeq
    <3>. QED
      BY <2>1, <3>1, <3>2
  <2>2. CASE a # 0
    <3>1. 1 \in 1..a /\ a \in 1..a
      BY <1>1, <2>2
    <3>2. SubSeq(p \o q, 1, a) = SubSeq(p, 1, a)
      BY <3>1, SubSeqOfConcat1
    <3>. QED
      BY <1>2, <3>2
  <2>. QED
    BY <2>1, <2>2
<1>4. SubSeq(p \o q, a + 1, a + b) = q
  <2>1. CASE b = 0
    <3>1. a + 1 \in Int /\ a + b \in Int /\ a + b < a + 1
      BY <1>1, <2>1
    <3>2. SubSeq(p \o q, a + 1, a + b) = <<>>
      BY <3>1, SubSeqEmpty
    <3>3. q = <<>>
      BY <2>1, EmptySeq
    <3>. QED
      BY <3>2, <3>3
  <2>2. CASE b # 0
    <3>1. a + 1 \in a + 1..a + b /\ a + b \in a + 1..a + b
      BY <1>1, <2>2
    <3>2. SubSeq(p \o q, a + 1, a + b) = SubSeq(q, a + 1 - a, a + b - a)
      BY <3>1, SubSeqOfConcat2
    <3>3. a + 1 - a = 1 /\ a + b - a = b
      BY <1>1
    <3>. HIDE DEF a, b
    <3>. QED
      BY <1>2, <3>2, <3>3
  <2>. QED
    BY <2>1, <2>2
<1>. QED
  BY <1>1, <1>3, <1>4

(* What joins the queue of a line in a step that is not its thread's, or   *)
(* in one of its thread that goes on reading: nothing if nobody is named.  *)
LEMMA Joined ==
    ASSUME OwenInv, [Next]_vars, ~UNCHANGED vars, NEW l \in Line, pc'[l] = pc[l]
    PROVE  \/ requests'[l] = requests[l] /\ named' = {}
           \/ \E n \in Nat : \E guids :
                 DOMAIN guids = 1..n /\ addQueue(guids) /\ named' = {guids[i] : i \in 1..n}
<1>1. ASSUME NEW k \in Line, LineThread(k)
      PROVE  requests'[l] = requests[l] /\ named' = {}
  <2>1. Shaped
    BY DEF OwenInv
  <2>2. CASE k # l
    BY <1>1, <2>1, <2>2, OthersKeep DEF LineThread
  <2>3. CASE k = l
    <3>1. ~get_address(l)
      BY <2>1 DEF get_address, Goto, Shaped
    <3>. QED
      BY <1>1, <2>3, <3>1 DEF LineThread, Wake, hasNext, isConnected, ReadAnswered, ReadFailed,
                              close, push, guidVars
  <2>. QED
    BY <2>2, <2>3
<1>2. CASE getInfoFromServer
  <2>1. CASE requests' = requests /\ named' = {}
    BY <2>1
  <2>2. ASSUME NEW n \in 0..(MaxAsked - asked), NEW guids \in [1..n -> AllGuid],
               addQueue(guids), named' = {guids[i] : i \in 1..n}
        PROVE  n \in Nat /\ DOMAIN guids = 1..n
    BY OwenAssumption DEF OwenInv
  <2>. QED
    BY <1>2, <2>1, <2>2, AskedFor
<1>3. CASE TypedLine
  <2>1. PICK guid : named' = {guid} /\ addQueue(<<guid>>)
    BY <1>3 DEF TypedLine
  <2>2. DOMAIN <<guid>> = 1..1 /\ {<<guid>>[i] : i \in 1..1} = {guid}
    OBVIOUS
  <2>. QED
    BY <2>1, <2>2
<1>. QED
  BY <1>1, <1>2, <1>3 DEF Next

(* The list of guids of an exchange or a typed line, and whom it brings.   *)
LEMMA NamedJoin ==
    ASSUME Keyed, Distinct, NEW l \in Line, NEW n \in Nat, NEW guids,
           DOMAIN guids = 1..n, addQueue(guids), named' = {guids[i] : i \in 1..n}
    PROVE  LET new == Enqueued(guids, l)
               wanted == {d \in 1..Count(l) : \E i \in DOMAIN Tables[l].sub :
                             /\ Tables[l].sub[i].key = Tables[l].main[d].key
                             /\ Tables[l].sub[i].guid \in named'}
           IN /\ new \in Seq(1..Count(l)) /\ requests'[l] = requests[l] \o new
              /\ {new[k] : k \in DOMAIN new} = wanted /\ Len(new) = Cardinality(wanted)
<1>. DEFINE new == Enqueued(guids, l)
            wanted == {d \in 1..Count(l) : \E i \in DOMAIN Tables[l].sub :
                          /\ Tables[l].sub[i].key = Tables[l].main[d].key
                          /\ Tables[l].sub[i].guid \in named'}
            found == {d \in 1..Count(l) : \E i \in 1..n : Finds(guids[i], l, d)}
<1>1. requests'[l] = requests[l] \o new
  BY DEF addQueue
<1>2. new \in Seq(1..Count(l))
  BY EnqueuedType
<1>3. {new[k] : k \in DOMAIN new} = found /\ Len(new) = Cardinality(found)
  BY EnqueuedAre
<1>4. wanted = found
  <2>. SUFFICES ASSUME NEW d \in 1..Count(l)
                PROVE  (\E i \in DOMAIN Tables[l].sub :
                           /\ Tables[l].sub[i].key = Tables[l].main[d].key
                           /\ Tables[l].sub[i].guid \in named')
                        <=> \E i \in 1..n : Finds(guids[i], l, d)
    OBVIOUS
  <2>1. \A i : i \in ChannelRows(l, d) <=>
              i \in DOMAIN Tables[l].sub /\ Tables[l].sub[i].key = Tables[l].main[d].key
    <3>1. Tables[l].main[d].key # ""
      BY Zenon DEF Keyed
    <3>. QED
      BY <3>1, Zenon DEF ChannelRows, fromGuidTable
  <2>2. \A j \in 1..n : Finds(guids[j], l, d) <=>
              \E i \in ChannelRows(l, d) : Tables[l].sub[i].guid = guids[j]
    BY FindsWhose
  <2>3. \A g : g \in named' <=> \E j \in 1..n : g = guids[j]
    OBVIOUS
  <2>4. ASSUME NEW i \in ChannelRows(l, d), Tables[l].sub[i].guid \in named'
        PROVE  \E j \in 1..n : Finds(guids[j], l, d)
    <3>1. PICK j \in 1..n : Tables[l].sub[i].guid = guids[j]
      BY <2>3, <2>4
    <3>. QED
      BY <2>2, <3>1
  <2>5. ASSUME NEW j \in 1..n, Finds(guids[j], l, d)
        PROVE  \E i \in ChannelRows(l, d) : Tables[l].sub[i].guid \in named'
    BY <2>2, <2>3, <2>5
  <2>. QED
    BY <2>1, <2>4, <2>5
<1>. HIDE DEF new, found, wanted
<1>5. /\ new \in Seq(1..Count(l)) /\ requests'[l] = requests[l] \o new
      /\ {new[k] : k \in DOMAIN new} = wanted /\ Len(new) = Cardinality(wanted)
  BY <1>1, <1>2, <1>3, <1>4
<1>. QED
  BY <1>5 DEF new, wanted

LEMMA QueuedStep ==
    ASSUME Keyed, Distinct, OwenInv, [Next]_vars, ~UNCHANGED vars, NEW l \in Line,
           pc'[l] = pc[l]
    PROVE  LET waiting == Len(requests[l])
               fresh == SubSeq(requests'[l], waiting + 1, Len(requests'[l]))
               wanted == {d \in 1..Count(l) : \E i \in DOMAIN Tables[l].sub :
                             /\ Tables[l].sub[i].key = Tables[l].main[d].key
                             /\ Tables[l].sub[i].guid \in named'}
           IN /\ SubSeq(requests'[l], 1, waiting) = requests[l]
              /\ {fresh[i] : i \in DOMAIN fresh} = wanted
              /\ Len(fresh) = Cardinality(wanted)
<1>. DEFINE wanted == {d \in 1..Count(l) : \E i \in DOMAIN Tables[l].sub :
                          /\ Tables[l].sub[i].key = Tables[l].main[d].key
                          /\ Tables[l].sub[i].guid \in named'}
<1>1. \E new \in Seq(1..Count(l)) :
        /\ requests'[l] = requests[l] \o new
        /\ {new[k] : k \in DOMAIN new} = wanted /\ Len(new) = Cardinality(wanted)
  <2>1. CASE requests'[l] = requests[l] /\ named' = {}
    <3>1. requests[l] \in Seq(1..Count(l)) /\ <<>> \in Seq(1..Count(l))
      BY DEF OwenInv, LineOK
    <3>2. requests'[l] = requests[l] \o <<>>
      BY <2>1, <3>1, ConcatEmptySeq
    <3>3. wanted = {} /\ {<<>>[k] : k \in DOMAIN <<>>} = {} /\ Len(<<>>) = 0
      BY <2>1
    <3>4. Cardinality({}) = 0
      BY FS_EmptySet
    <3>. HIDE DEF wanted
    <3>. QED
      BY <3>1, <3>2, <3>3, <3>4
  <2>2. ASSUME NEW n \in Nat, NEW guids, DOMAIN guids = 1..n, addQueue(guids),
               named' = {guids[i] : i \in 1..n}
        PROVE  LET new == Enqueued(guids, l) IN
               /\ new \in Seq(1..Count(l)) /\ requests'[l] = requests[l] \o new
               /\ {new[k] : k \in DOMAIN new} = wanted /\ Len(new) = Cardinality(wanted)
    BY <2>2, NamedJoin
  <2>. HIDE DEF wanted
  <2>. QED
    BY <2>1, <2>2, Joined
<1>2. PICK new \in Seq(1..Count(l)) :
        /\ requests'[l] = requests[l] \o new
        /\ {new[k] : k \in DOMAIN new} = wanted /\ Len(new) = Cardinality(wanted)
  BY <1>1
<1>3. requests[l] \in Seq(1..Count(l))
  BY DEF OwenInv, LineOK
<1>4. /\ SubSeq(requests'[l], 1, Len(requests[l])) = requests[l]
      /\ SubSeq(requests'[l], Len(requests[l]) + 1, Len(requests'[l])) = new
  <2>. DEFINE p == requests[l]
              r == requests'[l]
  <2>1. p \in Seq(1..Count(l)) /\ r = p \o new
    BY <1>2, <1>3
  <2>. HIDE DEF p, r
  <2>2. SubSeq(r, 1, Len(p)) = p /\ SubSeq(r, Len(p) + 1, Len(r)) = new
    BY <2>1, Added
  <2>. QED
    BY <2>2 DEF p, r
<1>. HIDE DEF wanted
<1>5. LET fresh == SubSeq(requests'[l], Len(requests[l]) + 1, Len(requests'[l]))
      IN  {fresh[i] : i \in DOMAIN fresh} = wanted /\ Len(fresh) = Cardinality(wanted)
  BY <1>2, <1>4
<1>. QED
  BY <1>4, <1>5 DEF wanted

(* In every step but those of its own thread a queue grows, behind what    *)
(* waits in it, by the devices one of whose channels is named in the step, *)
(* each once and all of them, and by nothing if no one is named; provided  *)
(* the tables tell the devices apart.                                      *)
THEOREM RequestsAsNamed ==
    ASSUME Keyed, Distinct
    PROVE  Spec => QueuedAsNamed
<1>1. OwenInv /\ [Next]_vars =>
        [\A l \in Line : pc'[l] = pc[l] =>
          LET waiting == Len(requests[l])
              fresh == SubSeq(requests'[l], waiting + 1, Len(requests'[l]))
              wanted == {d \in 1..Count(l) : \E i \in DOMAIN Tables[l].sub :
                            /\ Tables[l].sub[i].key = Tables[l].main[d].key
                            /\ Tables[l].sub[i].guid \in named'}
          IN /\ SubSeq(requests'[l], 1, waiting) = requests[l]
             /\ {fresh[i] : i \in DOMAIN fresh} = wanted
             /\ Len(fresh) = Cardinality(wanted)]_vars
  BY QueuedStep
<1>. QED
  BY <1>1, OwenInvariant, PTL DEF Spec, QueuedAsNamed
=============================================================================
