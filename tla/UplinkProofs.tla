---------------------------- MODULE UplinkProofs ----------------------------
(***************************************************************************)
(* Proofs about Uplink for every number of samples, every batch size and   *)
(* every fault environment: its types, and that no sample is lost when     *)
(* the keys of a request do not wrap and the environment shows only the    *)
(* faults sendToServer is built for.  Then of its single rows, under every *)
(* fault but the one each theorem names, a crash at any moment included:   *)
(* what the flag of a kept row means, and that a sample is kept in one     *)
(* place only.  Last, that Uplink implements Outbox: each of its calls     *)
(* records a sample, is one exchange with the server, or does nothing that *)
(* can be seen from outside.                                               *)
(***************************************************************************)
EXTENDS Uplink, FiniteSetTheorems, SequenceTheorems,
        WellFoundedInduction, TLAPS

-----------------------------------------------------------------------------
(* A non-empty set of naturals has a least element, and a non-empty set of *)
(* indices of a sequence has a greatest one.                               *)
LEMMA LeastNatural ==
    ASSUME NEW T, T \subseteq Nat, T # {}
    PROVE  \E x \in T : \A y \in T : x <= y
<1>. DEFINE R == OpToRel(<, Nat)
<1>1. R = {ss \in Nat \X Nat : ss[1] < ss[2]}
  BY DEF OpToRel
<1>2. IsWellFoundedOn(R, Nat)
  BY NatLessThanWellFounded
<1>. HIDE DEF R
<1>3. PICK x \in T : \A y \in T : ~(<<y, x>> \in R)
  BY <1>2, WFMin
<1>4. ASSUME NEW y \in T
      PROVE  x <= y
  <2>1. x \in Nat /\ y \in Nat
    OBVIOUS
  <2>2. y < x => <<y, x>> \in R
    BY <1>1, <2>1
  <2>. QED
    BY <1>3, <2>1, <2>2
<1>. QED
  BY <1>4

LEMMA GreatestIndex ==
    ASSUME NEW n \in Nat, NEW I, I \subseteq 1..n, I # {}
    PROVE  \E m \in I : \A j \in I : j <= m
<1>. DEFINE T == {n - i : i \in I}
<1>0. \A i \in I : i \in Nat /\ n - i \in Nat
  <2>1. ASSUME NEW i \in I
        PROVE  i \in 1..n
    OBVIOUS
  <2>2. \A i \in 1..n : i \in Nat /\ n - i \in Nat
    OBVIOUS
  <2>. QED
    BY <2>1, <2>2
<1>1. T \subseteq Nat /\ T # {}
  BY <1>0
<1>2. PICK x \in T : \A y \in T : x <= y
  BY <1>1, LeastNatural
<1>3. PICK m \in I : x = n - m
  OBVIOUS
<1>4. ASSUME NEW j \in I
      PROVE  j <= m
  <2>1. x <= n - j
    BY <1>2
  <2>2. j \in Nat /\ m \in Nat
    BY <1>0
  <2>. QED
    BY <1>3, <2>1, <2>2
<1>. QED
  BY <1>4

(* The value sent under a key is the sample of the last row with that key. *)
LEMMA RequestRow ==
    ASSUME NEW rows \in Seq(Row), NEW k \in DOMAIN Request(rows)
    PROVE  /\ LastRow(rows, k) \in DOMAIN rows
           /\ Key(LastRow(rows, k)) = k
           /\ Request(rows)[k] = rows[LastRow(rows, k)].sample
           /\ Request(rows)[k] \in Sample
<1>. DEFINE I == {i \in DOMAIN rows : Key(i) = k}
<1>1. DOMAIN rows = 1..Len(rows) /\ Len(rows) \in Nat
  BY LenProperties
<1>2. k \in Keys(rows) /\ Request(rows)[k] = rows[LastRow(rows, k)].sample
  BY DEF Request
<1>3. I # {} /\ I \subseteq 1..Len(rows)
  BY <1>1, <1>2 DEF Keys
<1>4. \E m \in I : \A j \in I : j <= m
  <2>. HIDE DEF I
  <2>. QED
    BY <1>1, <1>3, GreatestIndex
<1>5. LastRow(rows, k) \in DOMAIN rows /\ Key(LastRow(rows, k)) = k
  BY <1>4 DEF LastRow
<1>6. rows[LastRow(rows, k)] \in Row
  BY <1>5
<1>. QED
  BY <1>2, <1>5, <1>6 DEF Row

-----------------------------------------------------------------------------
(* process_response rewrites flags: the batch keeps its length and its     *)
(* samples, and every flag is one of the three.                            *)
LEMMA FlaggedRows ==
    ASSUME NEW rows \in Seq(Row), NEW D, NEW a \in [D -> Verdict]
    PROVE  /\ Flagged(rows, a) \in Seq(Row)
           /\ DOMAIN Flagged(rows, a) = DOMAIN rows
           /\ \A i \in DOMAIN rows :
                /\ Flagged(rows, a)[i].sample = rows[i].sample
                /\ Flagged(rows, a)[i].flag = FlagAfter(rows, a, i)
<1>1. ASSUME NEW i \in DOMAIN rows
      PROVE  FlagAfter(rows, a, i) \in ErrorFlag
  <2>1. rows[i] \in Row
    BY <1>1
  <2>2. VerdictOf(a, i) \in Verdict
    BY DEF VerdictOf, Verdict
  <2>. QED
    BY <2>1, <2>2 DEF FlagAfter, Row, ErrorFlag, Verdict
<1>2. ASSUME NEW i \in DOMAIN rows
      PROVE  /\ [rows[i] EXCEPT !.flag = FlagAfter(rows, a, i)] \in Row
             /\ [rows[i] EXCEPT !.flag = FlagAfter(rows, a, i)].sample = rows[i].sample
             /\ [rows[i] EXCEPT !.flag = FlagAfter(rows, a, i)].flag = FlagAfter(rows, a, i)
  <2>1. rows[i] \in Row
    BY <1>2
  <2>. QED
    BY <1>1, <2>1 DEF Row
<1>3. DOMAIN rows = 1..Len(rows) /\ Len(rows) \in Nat
  BY LenProperties
<1>4. Flagged(rows, a) \in [1..Len(rows) -> Row]
  BY <1>2, <1>3 DEF Flagged
<1>5. Flagged(rows, a) \in Seq(Row)
  BY <1>3, <1>4, SeqDef
<1>. QED
  BY <1>2, <1>5 DEF Flagged

LEMMA AllFailedRows ==
    ASSUME NEW rows \in Seq(Row)
    PROVE  /\ AllFailed(rows) \in Seq(Row)
           /\ DOMAIN AllFailed(rows) = DOMAIN rows
           /\ \A i \in DOMAIN rows :
                /\ AllFailed(rows)[i].sample = rows[i].sample
                /\ AllFailed(rows)[i].flag = 1
<1>1. ASSUME NEW i \in DOMAIN rows
      PROVE  /\ [rows[i] EXCEPT !.flag = 1] \in Row
             /\ [rows[i] EXCEPT !.flag = 1].sample = rows[i].sample
             /\ [rows[i] EXCEPT !.flag = 1].flag = 1
  <2>1. rows[i] \in Row
    BY <1>1
  <2>. QED
    BY <2>1 DEF Row, ErrorFlag
<1>2. DOMAIN rows = 1..Len(rows) /\ Len(rows) \in Nat
  BY LenProperties
<1>3. AllFailed(rows) \in [1..Len(rows) -> Row]
  BY <1>1, <1>2 DEF AllFailed
<1>4. AllFailed(rows) \in Seq(Row)
  BY <1>2, <1>3, SeqDef
<1>. QED
  BY <1>1, <1>4 DEF AllFailed

(* Numbering the rowids anew keeps a table a finite set of table rows with *)
(* the same samples and flags.                                             *)
LEMMA RenumberedRows ==
    ASSUME NEW rows, rows \subseteq TableRow, IsFiniteSet(rows)
    PROVE  /\ Renumbered(rows) \subseteq TableRow
           /\ IsFiniteSet(Renumbered(rows))
           /\ \A r \in rows : \E q \in Renumbered(rows) :
                 q.sample = r.sample /\ q.flag = r.flag
           /\ \A q \in Renumbered(rows) : \E r \in rows :
                 q.sample = r.sample /\ q.flag = r.flag
<1>. DEFINE Rank(r) == Cardinality({q \in rows : q.rowid <= r.rowid})
            New(r)  == [r EXCEPT !.rowid = Rank(r)]
            f       == [r \in rows |-> New(r)]
<1>1. ASSUME NEW r \in rows
      PROVE  Rank(r) \in Nat \ {0}
  <2>1. r.rowid <= r.rowid
    BY <1>1 DEF TableRow
  <2>2. IsFiniteSet({q \in rows : q.rowid <= r.rowid})
    BY FS_Subset
  <2>3. {q \in rows : q.rowid <= r.rowid} # {}
    BY <2>1
  <2>. QED
    BY <2>2, <2>3, FS_CardinalityType, FS_EmptySet
<1>2. ASSUME NEW r \in rows
      PROVE  New(r) \in TableRow /\ New(r).sample = r.sample /\ New(r).flag = r.flag
  <2>1. r \in TableRow /\ Rank(r) \in Nat \ {0}
    BY <1>1
  <2>. HIDE DEF Rank
  <2>. QED
    BY <2>1 DEF TableRow
<1>3. Renumbered(rows) = {New(r) : r \in rows}
  BY DEF Renumbered
<1>4. IsFiniteSet(Renumbered(rows))
  <2>1. f \in Surjection(rows, Renumbered(rows))
    <3>. HIDE DEF New
    <3>. QED
      BY <1>3 DEF Surjection
  <2>. QED
    BY <2>1, FS_Surjection
<1>. HIDE DEF New
<1>. QED
  BY <1>2, <1>3, <1>4

-----------------------------------------------------------------------------
(* Every variable keeps its type.                                          *)
LEMMA TypeInit == Init => TypeOK
BY FS_EmptySet, UplinkAssumption DEF Init, TypeOK, Row, TableRow

LEMMA TypeNext == TypeOK /\ [Next]_vars => TypeOK'
<1>. SUFFICES ASSUME TypeOK, [Next]_vars PROVE TypeOK'
  OBVIOUS
<1>. USE UplinkAssumption
<1>1. CASE Push
  <2>1. PICK s \in Sample \ produced :
          /\ produced' = produced \cup {s}
          /\ queue' = Append(queue, [sample |-> s, flag |-> 0])
    BY <1>1 DEF Push
  <2>2. [sample |-> s, flag |-> 0] \in Row
    BY DEF Row, ErrorFlag
  <2>3. queue' \in Seq(Row)
    BY <2>1, <2>2, AppendProperties DEF TypeOK
  <2>. QED
    BY <1>1, <2>1, <2>3 DEF Push, TypeOK
<1>2. CASE Pop
  <2>. DEFINE n == IF Len(queue) < PopMax THEN Len(queue) ELSE PopMax
  <2>1. n \in Nat /\ n <= Len(queue) /\ Len(queue) \in Nat
    BY LenProperties DEF TypeOK
  <2>2. \A i \in 1..Len(queue) : queue[i] \in Row
    BY ElementOfSeq DEF TypeOK
  <2>3. SubSeq(queue, 1, n) \in Seq(Row)
    BY <2>1, <2>2, SubSeqProperties
  <2>4. SubSeq(queue, n + 1, Len(queue)) \in Seq(Row)
    BY <2>1, <2>2, SubSeqProperties
  <2>. QED
    BY <1>2, <2>3, <2>4 DEF Pop, TypeOK
<1>3. CASE SkipPost
  BY <1>3 DEF SkipPost, TypeOK
<1>4. CASE PostAnswered
  <2>. DEFINE req == Request(batch)
  <2>1. PICK a \in Answers(req) :
          /\ received' = received \cup {req[k] : k \in {j \in DOMAIN req : a[j] = "true"}}
          /\ batch' = Flagged(batch, a)
    BY <1>4 DEF PostAnswered
  <2>2. a \in [DOMAIN req -> Verdict]
    BY DEF Answers
  <2>3. batch' \in Seq(Row)
    BY <2>1, <2>2, FlaggedRows DEF TypeOK
  <2>4. \A k \in DOMAIN req : req[k] \in Sample
    BY RequestRow DEF TypeOK
  <2>5. received' \subseteq Sample
    BY <2>1, <2>4 DEF TypeOK
  <2>. QED
    BY <1>4, <2>3, <2>5 DEF PostAnswered, TypeOK
<1>5. CASE PostUnanswered
  <2>. DEFINE req == Request(batch)
  <2>1. \A k \in DOMAIN req : req[k] \in Sample
    BY RequestRow DEF TypeOK
  <2>2. received' \subseteq Sample
    BY <1>5, <2>1 DEF PostUnanswered, TypeOK
  <2>3. batch' \in Seq(Row)
    BY <1>5, AllFailedRows DEF PostUnanswered, TypeOK
  <2>. QED
    BY <1>5, <2>2, <2>3 DEF PostUnanswered, TypeOK
<1>6. CASE OpenForSave
  BY <1>6 DEF OpenForSave, TypeOK
<1>7. CASE OpenForSaveFails
  BY <1>7 DEF OpenForSaveFails, LeaveSave, TypeOK
<1>8. CASE InsertRow
  <2>. DEFINE r == [sample |-> batch[next].sample, flag |-> batch[next].flag,
                    rowid |-> NewRowid]
  <2>1. batch[next] \in Row
    BY <1>8, LenProperties DEF InsertRow, TypeOK
  <2>2. NewRowid \in Nat \ {0}
    BY FS_CardinalityType DEF NewRowid, TypeOK
  <2>3. batch[next].flag # 0 => r \in TableRow
    BY <2>1, <2>2 DEF Row, TableRow, ErrorFlag
  <2>4. IsFiniteSet(table \cup {r})
    BY FS_AddElement DEF TypeOK
  <2>5. table' \subseteq TableRow /\ IsFiniteSet(table')
    <3>. HIDE DEF r
    <3>1. table' = table \/ (batch[next].flag # 0 /\ table' = table \cup {r})
      BY <1>8 DEF InsertRow, ToSave, r
    <3>. QED
      BY <2>3, <2>4, <3>1 DEF TypeOK
  <2>. QED
    BY <1>8, <2>5 DEF InsertRow, TypeOK
<1>9. CASE CloseSave
  BY <1>9 DEF CloseSave, LeaveSave, TypeOK
<1>10. CASE OpenForFetch
  BY <1>10 DEF OpenForFetch, TypeOK
<1>11. CASE OpenForFetchFails
  BY <1>11 DEF OpenForFetchFails, TypeOK
<1>12. CASE FetchRow
  <2>1. PICK r \in Ahead :
          /\ batch' = Append(batch, [sample |-> r.sample, flag |-> r.flag])
          /\ cursor' = r.rowid
          /\ table' = table \ SameFields(r) \/ table' = table
    BY <1>12 DEF FetchRow
  <2>2. r \in TableRow
    BY DEF Ahead, TypeOK
  <2>3. [sample |-> r.sample, flag |-> r.flag] \in Row
    BY <2>2 DEF TableRow, Row, ErrorFlag
  <2>4. batch' \in Seq(Row)
    BY <2>1, <2>3, AppendProperties DEF TypeOK
  <2>5. cursor' \in Nat
    BY <2>1, <2>2 DEF TableRow
  <2>6. table' \subseteq TableRow /\ IsFiniteSet(table')
    BY <2>1, FS_Difference DEF TypeOK
  <2>. QED
    BY <1>12, <2>4, <2>5, <2>6 DEF FetchRow, TypeOK
<1>13. CASE CloseFetch
  BY <1>13, RenumberedRows DEF CloseFetch, TypeOK
<1>14. CASE Crash
  BY <1>14, RenumberedRows, EmptySeq DEF Crash, Restart, TypeOK
<1>15. CASE PostGarbled
  <2>1. \A k \in DOMAIN Request(batch) : Request(batch)[k] \in Sample
    BY RequestRow DEF TypeOK
  <2>2. received' \subseteq Sample
    BY <1>15, <2>1 DEF PostGarbled, TypeOK
  <2>. QED
    BY <1>15, <2>2, RenumberedRows, EmptySeq DEF PostGarbled, Restart, TypeOK
<1>16. CASE UNCHANGED vars
  BY <1>16 DEF vars, TypeOK
<1>. QED
  BY <1>1, <1>2, <1>3, <1>4, <1>5, <1>6, <1>7, <1>8, <1>9, <1>10, <1>11, <1>12,
     <1>13, <1>14, <1>15, <1>16 DEF Next, Loop

(* The values the process and the database hold are always of the types    *)
(* the code gives them: rows of five fields with a flag 0..2 in memory,    *)
(* flag 1 or 2 in the table (toDataTable skips 0).                         *)
THEOREM TypeCorrect == Spec => []TypeOK
<1>1. Init => TypeOK
  BY TypeInit
<1>2. TypeOK /\ [Next]_vars => TypeOK'
  BY TypeNext
<1>. QED
  BY <1>1, <1>2, PTL DEF Spec

-----------------------------------------------------------------------------
(* What no loss rests on: no two rows of a request share a key, and the    *)
(* environment shows none of the faults that destroy rows.                 *)
Gentle ==
    /\ PopMax <= KeyMod /\ FetchMax <= KeyMod
    /\ Faults \cap LossyFault = {}

(* The strengthening: every batch has a key for each of its rows.          *)
BatchFits == Len(batch) <= KeyMod

KeepInv == TypeOK /\ NoSampleLost /\ BatchFits

LEMMA SmallKey ==
    ASSUME NEW i \in Nat \ {0}, i <= KeyMod
    PROVE  Key(i) = i - 1
<1>1. KeyMod \in Nat \ {0} /\ i - 1 \in Nat /\ i - 1 < KeyMod
  BY UplinkAssumption
<1>2. \A x, m \in Nat : x < m => x % m = x
  OBVIOUS
<1>. QED
  BY <1>1, <1>2 DEF Key

(* In a batch that fits, the key of a row carries that row's sample.       *)
LEMMA OwnKey ==
    ASSUME NEW rows \in Seq(Row), Len(rows) <= KeyMod, NEW i \in DOMAIN rows
    PROVE  /\ i - 1 \in DOMAIN Request(rows)
           /\ Request(rows)[i - 1] = rows[i].sample
<1>1. DOMAIN rows = 1..Len(rows) /\ Len(rows) \in Nat /\ KeyMod \in Nat
  BY LenProperties, UplinkAssumption
<1>2. \A j \in DOMAIN rows : Key(j) = j - 1
  BY <1>1, SmallKey
<1>3. i - 1 \in DOMAIN Request(rows)
  BY <1>2 DEF Request, Keys
<1>4. LastRow(rows, i - 1) = i
  <2>1. LastRow(rows, i - 1) \in DOMAIN rows /\ Key(LastRow(rows, i - 1)) = i - 1
    BY <1>3, RequestRow
  <2>. QED
    BY <1>1, <1>2, <2>1
<1>. QED
  BY <1>3, <1>4, RequestRow

(* After an answer, a row of a batch that fits either keeps a flag that    *)
(* saves it, or its sample is settled: stored or refused.                  *)
LEMMA AnswerSettles ==
    ASSUME NEW rows \in Seq(Row), Len(rows) <= KeyMod, "reject" \notin Faults,
           NEW a \in Answers(Request(rows)), NEW i \in DOMAIN rows,
           FlagAfter(rows, a, i) = 0
    PROVE  \/ rows[i].sample \in received \cup Unknown
           \/ \E k \in DOMAIN Request(rows) :
                 a[k] = "true" /\ Request(rows)[k] = rows[i].sample
<1>. DEFINE req == Request(rows)
<1>1. i - 1 \in DOMAIN req /\ req[i - 1] = rows[i].sample
  BY OwnKey
<1>2. a \in [DOMAIN req -> Verdict]
  BY DEF Answers
<1>3. /\ a[i - 1] = "wrongsecret" => req[i - 1] \in Unknown
      /\ a[i - 1] = "duplicate" =>
            \/ req[i - 1] \in received
            \/ \E j \in DOMAIN req : req[j] = req[i - 1] /\ a[j] = "true"
      /\ a[i - 1] # "error"
  BY <1>1 DEF Answers
<1>4. a[i - 1] \in {"true", "duplicate", "wrongsecret"}
  BY <1>1, <1>2, <1>3 DEF Verdict
<1>. HIDE DEF req
<1>5. CASE a[i - 1] = "true"
  BY <1>1, <1>5 DEF req
<1>6. CASE a[i - 1] = "duplicate"
  BY <1>1, <1>3, <1>6 DEF req
<1>7. CASE a[i - 1] = "wrongsecret"
  BY <1>1, <1>3, <1>7
<1>. QED
  BY <1>4, <1>5, <1>6, <1>7

(* What is left of a sequence without its first n elements.                *)
LEMMA DropFirst ==
    ASSUME NEW S, NEW s \in Seq(S), NEW n \in 0..Len(s)
    PROVE  /\ Len(SubSeq(s, n + 1, Len(s))) = Len(s) - n
           /\ \A i \in 1..(Len(s) - n) : SubSeq(s, n + 1, Len(s))[i] = s[n + i]
<1>. DEFINE L == Len(s)
<1>1. L \in Nat /\ n \in Nat /\ n <= L
  BY LenProperties
<1>2. \A i \in (n + 1)..L : s[i] \in S
  BY <1>1, ElementOfSeq
<1>3. /\ Len(SubSeq(s, n + 1, L)) = IF n + 1 <= L THEN L - (n + 1) + 1 ELSE 0
      /\ \A i \in 1 .. L - (n + 1) + 1 : SubSeq(s, n + 1, L)[i] = s[(n + 1) + i - 1]
  <2>. HIDE DEF L
  <2>1. n + 1 \in Int /\ L \in Int
    BY <1>1
  <2>. QED
    BY <1>2, <2>1, SubSeqProperties
<1>. HIDE DEF L
<1>4. /\ L - (n + 1) + 1 = L - n
      /\ (IF n + 1 <= L THEN L - (n + 1) + 1 ELSE 0) = L - n
  BY <1>1
<1>5. \A i \in Int : (n + 1) + i - 1 = n + i
  BY <1>1
<1>6. ASSUME NEW i \in 1..(L - n)
      PROVE  SubSeq(s, n + 1, L)[i] = s[n + i]
  <2>1. i \in Int /\ (n + 1) + i - 1 = n + i
    BY <1>1
  <2>. QED
    BY <1>3, <1>4, <2>1
<1>. QED
  BY <1>3, <1>4, <1>6 DEF L

LEMMA SameLength ==
    ASSUME NEW m \in Nat, NEW n \in Nat, 1..m = 1..n
    PROVE  m = n
<1>1. m # 0 => m \in 1..m
  OBVIOUS
<1>2. n # 0 => n \in 1..n
  OBVIOUS
<1>3. \A i \in 1..m : i <= m /\ 1 <= i
  OBVIOUS
<1>4. \A i \in 1..n : i <= n /\ 1 <= i
  OBVIOUS
<1>5. m # 0 => m <= n /\ n # 0
  BY <1>1, <1>4
<1>6. n # 0 => n <= m
  BY <1>2, <1>3
<1>. QED
  BY <1>5, <1>6

(* The step from one state to the next: no sample leaves the three places  *)
(* a sample can be in, except to the server or by refusal.                 *)
LEMMA KeepNext ==
    ASSUME Gentle, KeepInv, TypeOK', [Next]_vars
    PROVE  NoSampleLost' /\ BatchFits'
<1>. USE UplinkAssumption DEF KeepInv
<1>0. /\ DOMAIN batch = 1..Len(batch) /\ Len(batch) \in Nat
      /\ DOMAIN batch' = 1..Len(batch') /\ Len(batch') \in Nat
      /\ DOMAIN queue = 1..Len(queue) /\ Len(queue) \in Nat
      /\ DOMAIN queue' = 1..Len(queue') /\ Len(queue') \in Nat
  BY LenProperties DEF TypeOK
<1>1. CASE Push
  <2>1. PICK s \in Sample \ produced :
          /\ produced' = produced \cup {s}
          /\ queue' = Append(queue, [sample |-> s, flag |-> 0])
    BY <1>1 DEF Push
  <2>2. [sample |-> s, flag |-> 0] \in Row
    BY DEF Row, ErrorFlag
  <2>3. /\ Len(queue') = Len(queue) + 1
        /\ \A i \in DOMAIN queue : queue'[i] = queue[i]
        /\ queue'[Len(queue) + 1].sample = s
    BY <1>0, <2>1, <2>2, AppendProperties DEF TypeOK
  <2>4. InQueue \cup {s} \subseteq InQueue'
    <3>1. \A i \in DOMAIN queue : i \in DOMAIN queue'
      BY <1>0, <2>3
    <3>2. Len(queue) + 1 \in DOMAIN queue'
      BY <1>0, <2>3
    <3>. QED
      BY <2>3, <3>1, <3>2 DEF InQueue, SamplesOf
  <2>5. InHand' = InHand /\ InTable' = InTable
    BY <1>1 DEF Push, InHand, Pending, InTable
  <2>6. received' = received /\ batch' = batch
    BY <1>1 DEF Push
  <2>. QED
    BY <2>1, <2>4, <2>5, <2>6 DEF NoSampleLost, Held, BatchFits
<1>2. CASE Pop
  <2>. DEFINE n == IF Len(queue) < PopMax THEN Len(queue) ELSE PopMax
  <2>1. n \in Nat /\ n <= Len(queue) /\ n <= PopMax
    BY <1>0
  <2>2. batch' = SubSeq(queue, 1, n) /\ queue' = SubSeq(queue, n + 1, Len(queue))
    BY <1>2 DEF Pop
  <2>3. \A i \in 1..Len(queue) : queue[i] \in Row
    BY ElementOfSeq DEF TypeOK
  <2>4. /\ Len(batch') = n
        /\ \A i \in 1..n : batch'[i] = queue[i]
    BY <2>1, <2>2, <2>3, SubSeqProperties, Z3
  <2>5. /\ Len(queue') = Len(queue) - n
        /\ \A i \in 1..(Len(queue) - n) : queue'[i] = queue[n + i]
    <3>. HIDE DEF n
    <3>1. n \in 0..Len(queue)
      BY <1>0, <2>1
    <3>. QED
      BY <2>2, <3>1, DropFirst DEF TypeOK
  <2>6. InQueue \subseteq InHand' \cup InQueue'
    <3>. HIDE DEF n
    <3>1. SUFFICES ASSUME NEW i \in DOMAIN queue
                   PROVE  queue[i].sample \in InHand' \cup InQueue'
      BY DEF InQueue, SamplesOf
    <3>2. CASE i <= n
      <4>1. i \in DOMAIN batch' /\ batch'[i] = queue[i]
        BY <1>0, <2>1, <2>4, <3>2
      <4>2. pc' = "post"
        BY <1>2 DEF Pop
      <4>. QED
        BY <4>1, <4>2 DEF InHand, Pending
    <3>3. CASE i > n
      <4>1. i - n \in DOMAIN queue' /\ queue'[i - n] = queue[i]
        <5>1. i - n \in 1..(Len(queue) - n) /\ n + (i - n) = i
          BY <1>0, <2>1, <3>3
        <5>. QED
          BY <1>0, <2>5, <5>1
      <4>. QED
        BY <4>1 DEF InQueue, SamplesOf
    <3>. QED
      BY <1>0, <2>1, <3>2, <3>3
  <2>7. InHand = {} /\ InTable' = InTable /\ received' = received /\ produced' = produced
    BY <1>2 DEF Pop, InHand, Pending, InTable
  <2>8. BatchFits'
    BY <2>1, <2>4 DEF BatchFits, Gentle
  <2>. QED
    BY <2>6, <2>7, <2>8 DEF NoSampleLost, Held
<1>3. CASE SkipPost
  <2>1. batch = <<>> /\ DOMAIN batch = {}
    BY <1>3 DEF SkipPost
  <2>2. InHand = {} /\ InQueue' = InQueue /\ InTable' = InTable
    BY <1>3, <2>1 DEF SkipPost, InHand, Pending, InQueue, SamplesOf, InTable
  <2>. QED
    BY <1>3, <2>2 DEF SkipPost, NoSampleLost, Held, BatchFits
<1>4. CASE PostAnswered
  <2>. DEFINE req == Request(batch)
  <2>1. PICK a \in Answers(req) :
          /\ received' = received \cup {req[k] : k \in {j \in DOMAIN req : a[j] = "true"}}
          /\ batch' = Flagged(batch, a)
    BY <1>4 DEF PostAnswered
  <2>2. a \in [DOMAIN req -> Verdict]
    BY DEF Answers
  <2>3. /\ DOMAIN batch' = DOMAIN batch
        /\ \A i \in DOMAIN batch :
              /\ batch'[i].sample = batch[i].sample
              /\ batch'[i].flag = FlagAfter(batch, a, i)
    BY <2>1, <2>2, FlaggedRows DEF TypeOK
  <2>4. ASSUME NEW i \in DOMAIN batch
        PROVE  batch[i].sample \in InHand' \cup received' \cup Unknown
    <3>1. CASE FlagAfter(batch, a, i) = 0
      <4>1. "reject" \notin Faults
        BY DEF Gentle, LossyFault
      <4>2. \/ batch[i].sample \in received \cup Unknown
            \/ \E k \in DOMAIN req : a[k] = "true" /\ req[k] = batch[i].sample
        BY <3>1, <4>1, AnswerSettles DEF TypeOK, BatchFits
      <4>. HIDE DEF req
      <4>. QED
        BY <2>1, <4>2
    <3>2. CASE FlagAfter(batch, a, i) # 0
      <4>1. i \in Pending'
        BY <1>4, <2>3, <3>2 DEF PostAnswered, Pending
      <4>. QED
        BY <2>3, <4>1 DEF InHand
    <3>. QED
      BY <3>1, <3>2
  <2>5. InHand \subseteq InHand' \cup received' \cup Unknown
    BY <2>4 DEF InHand, Pending
  <2>6. received \subseteq received'
    BY <2>1
  <2>7. InQueue' = InQueue /\ InTable' = InTable /\ produced' = produced
    BY <1>4 DEF PostAnswered, InQueue, SamplesOf, InTable
  <2>8. Len(batch') = Len(batch)
    BY <1>0, <2>3, SameLength
  <2>. QED
    BY <2>5, <2>6, <2>7, <2>8 DEF NoSampleLost, Held, BatchFits

<1>5. CASE PostUnanswered
  <2>1. /\ DOMAIN batch' = DOMAIN batch
        /\ \A i \in DOMAIN batch :
              batch'[i].sample = batch[i].sample /\ batch'[i].flag = 1
    BY <1>5, AllFailedRows DEF PostUnanswered, TypeOK
  <2>2. InHand \subseteq InHand'
    <3>0. pc' = "save"
      BY <1>5 DEF PostUnanswered
    <3>1. \A i \in DOMAIN batch : i \in Pending'
      BY <2>1, <3>0 DEF Pending
    <3>. QED
      BY <2>1, <3>1 DEF InHand, Pending
  <2>3. received \subseteq received'
    BY <1>5 DEF PostUnanswered
  <2>4. InQueue' = InQueue /\ InTable' = InTable /\ produced' = produced
    BY <1>5 DEF PostUnanswered, InQueue, SamplesOf, InTable
  <2>5. Len(batch') = Len(batch)
    BY <1>0, <2>1, SameLength
  <2>. QED
    BY <2>2, <2>3, <2>4, <2>5 DEF NoSampleLost, Held, BatchFits
<1>6. CASE OpenForSave
  <2>1. InHand \subseteq InHand' /\ InQueue' = InQueue /\ InTable' = InTable
    BY <1>0, <1>6 DEF OpenForSave, InHand, Pending, InQueue, SamplesOf, InTable
  <2>. QED
    BY <1>6, <2>1 DEF OpenForSave, NoSampleLost, Held, BatchFits
<1>7. CASE OpenForSaveFails
  BY <1>7 DEF OpenForSaveFails, Gentle, LossyFault
<1>8. CASE InsertRow
  <2>1. "insert" \notin Faults
    BY DEF Gentle, LossyFault
  <2>2. \/ batch[next].flag = 0 /\ table' = table
        \/ /\ batch[next].flag # 0
           /\ table' = table \cup
                {[sample |-> batch[next].sample, flag |-> batch[next].flag,
                  rowid |-> NewRowid]}
    BY <1>8, <2>1 DEF InsertRow, ToSave
  <2>. DEFINE r == [sample |-> batch[next].sample, flag |-> batch[next].flag,
                    rowid |-> NewRowid]
  <2>3. InTable \subseteq InTable'
    BY <2>2 DEF InTable
  <2>4. batch[next].flag # 0 => batch[next].sample \in InTable'
    <3>1. r.sample = batch[next].sample
      OBVIOUS
    <3>2. batch[next].flag # 0 => r \in table'
      BY <2>2
    <3>. HIDE DEF r
    <3>. QED
      BY <3>1, <3>2 DEF InTable
  <2>5. InHand \subseteq InHand' \cup InTable'
    <3>1. SUFFICES ASSUME NEW i \in Pending
                   PROVE  batch[i].sample \in InHand' \cup InTable'
      BY DEF InHand
    <3>2. i \in DOMAIN batch /\ i >= next /\ batch[i].flag # 0
      BY <1>8 DEF InsertRow, Pending
    <3>3. CASE i = next
      BY <2>4, <3>2, <3>3
    <3>4. CASE i # next
      <4>1. i >= next + 1
        BY <1>0, <3>2, <3>4 DEF TypeOK
      <4>2. i \in Pending'
        BY <1>8, <3>2, <4>1 DEF InsertRow, Pending
      <4>. QED
        BY <1>8, <4>2 DEF InsertRow, InHand
    <3>. QED
      BY <3>3, <3>4
  <2>6. InQueue' = InQueue
    BY <1>8 DEF InsertRow, InQueue, SamplesOf
  <2>. QED
    BY <1>8, <2>3, <2>5, <2>6 DEF InsertRow, NoSampleLost, Held, BatchFits
<1>9. CASE CloseSave
  <2>1. InHand = {}
    BY <1>0, <1>9 DEF CloseSave, InHand, Pending, TypeOK
  <2>2. InQueue' = InQueue /\ InTable' = InTable
    BY <1>9 DEF CloseSave, InQueue, SamplesOf, InTable
  <2>3. Len(batch') = 0
    BY <1>9 DEF CloseSave, LeaveSave
  <2>. QED
    BY <1>9, <2>1, <2>2, <2>3 DEF CloseSave, NoSampleLost, Held, BatchFits
<1>10. CASE OpenForFetch
  <2>1. InHand = {} /\ InQueue' = InQueue /\ InTable' = InTable
    BY <1>10 DEF OpenForFetch, InHand, Pending, InQueue, SamplesOf, InTable
  <2>. QED
    BY <1>10, <2>1 DEF OpenForFetch, NoSampleLost, Held, BatchFits
<1>11. CASE OpenForFetchFails
  <2>1. InHand = {} /\ InQueue' = InQueue /\ InTable' = InTable
    BY <1>11 DEF OpenForFetchFails, InHand, Pending, InQueue, SamplesOf, InTable
  <2>. QED
    BY <1>11, <2>1 DEF OpenForFetchFails, NoSampleLost, Held, BatchFits
<1>12. CASE FetchRow
  <2>1. PICK r \in Ahead :
          /\ batch' = Append(batch, [sample |-> r.sample, flag |-> r.flag])
          /\ table' = table \ SameFields(r) \/ table' = table
    BY <1>12 DEF FetchRow
  <2>2. [sample |-> r.sample, flag |-> r.flag] \in Row
    BY DEF Ahead, TypeOK, TableRow, Row, ErrorFlag
  <2>3. /\ Len(batch') = Len(batch) + 1
        /\ \A i \in DOMAIN batch : batch'[i] = batch[i]
        /\ batch'[Len(batch) + 1].sample = r.sample
    BY <1>0, <2>1, <2>2, AppendProperties DEF TypeOK
  <2>4. Pending = DOMAIN batch /\ Pending' = DOMAIN batch'
    BY <1>12 DEF FetchRow, Pending
  <2>5. InHand \cup {r.sample} \subseteq InHand'
    <3>1. DOMAIN batch \subseteq DOMAIN batch' /\ Len(batch) + 1 \in DOMAIN batch'
      BY <1>0, <2>3
    <3>. QED
      BY <2>3, <2>4, <3>1 DEF InHand
  <2>6. InTable \subseteq InTable' \cup {r.sample}
    BY <2>1 DEF InTable, SameFields
  <2>7. BatchFits'
    BY <1>0, <1>12, <2>3 DEF FetchRow, BatchFits, Gentle
  <2>8. InQueue' = InQueue
    BY <1>12 DEF FetchRow, InQueue, SamplesOf
  <2>. QED
    BY <1>12, <2>5, <2>6, <2>7, <2>8 DEF FetchRow, NoSampleLost, Held
<1>13. CASE CloseFetch
  <2>1. \A r \in table : \E q \in table' : q.sample = r.sample
    BY <1>13, RenumberedRows DEF CloseFetch, TypeOK
  <2>2. InTable \subseteq InTable'
    BY <2>1 DEF InTable
  <2>3. InHand' = InHand /\ InQueue' = InQueue
    BY <1>13 DEF CloseFetch, InHand, Pending, InQueue, SamplesOf
  <2>. QED
    BY <1>13, <2>2, <2>3 DEF CloseFetch, NoSampleLost, Held, BatchFits
<1>14. CASE Crash
  BY <1>14 DEF Crash, Gentle, LossyFault
<1>15. CASE PostGarbled
  BY <1>15 DEF PostGarbled, Gentle, LossyFault
<1>16. CASE UNCHANGED vars
  <2>1. InHand' = InHand /\ InQueue' = InQueue /\ InTable' = InTable
    BY <1>16 DEF vars, InHand, Pending, InQueue, SamplesOf, InTable
  <2>. QED
    BY <1>16, <2>1 DEF vars, NoSampleLost, Held, BatchFits
<1>. QED
  BY <1>1, <1>2, <1>3, <1>4, <1>5, <1>6, <1>7, <1>8, <1>9, <1>10, <1>11, <1>12,
     <1>13, <1>14, <1>15, <1>16 DEF Next, Loop

(* No sample is lost, for every number of samples and every batch size,    *)
(* when a request never has more rows than keys and the faults are lost    *)
(* answers, a table that does not open for reading and failing DELETEs:    *)
(* what sendToServer's save-and-fetch cycle is written to guarantee.       *)
THEOREM NoLoss ==
    ASSUME Gentle
    PROVE  Spec => []NoSampleLost
<1>1. Init => KeepInv
  <2>1. Init => TypeOK
    BY TypeInit
  <2>2. Init => Len(batch) = 0 /\ produced = {}
    BY DEF Init
  <2>. QED
    BY <2>1, <2>2, UplinkAssumption DEF KeepInv, NoSampleLost, BatchFits
<1>2. KeepInv /\ [Next]_vars => KeepInv'
  BY TypeNext, KeepNext DEF KeepInv
<1>3. KeepInv => NoSampleLost
  BY DEF KeepInv
<1>. QED
  BY <1>1, <1>2, <1>3, PTL DEF Spec

-----------------------------------------------------------------------------
(* The keys of a request do not wrap.                                      *)
KeysFit == PopMax <= KeyMod /\ FetchMax <= KeyMod

(* Only push() writes to the queue, and it writes DATA_ERROR_FLAG0.        *)
QueueClean == \A i \in DOMAIN queue : queue[i].flag = 0

FlagInv == TypeOK /\ BatchFits /\ QueueClean /\ Flag2MeansReceived

(* The first n elements of a sequence and the rest of it.                  *)
LEMMA SplitQueue ==
    ASSUME TypeOK, Pop
    PROVE  \E n \in 0..Len(queue) :
             /\ n <= PopMax
             /\ DOMAIN batch' = 1..n /\ Len(batch') = n
             /\ \A i \in 1..n : batch'[i] = queue[i]
             /\ DOMAIN queue' = 1..(Len(queue) - n)
             /\ \A i \in 1..(Len(queue) - n) : queue'[i] = queue[n + i]
<1>. DEFINE n == IF Len(queue) < PopMax THEN Len(queue) ELSE PopMax
<1>1. Len(queue) \in Nat /\ PopMax \in Nat /\ DOMAIN queue = 1..Len(queue)
  BY LenProperties, UplinkAssumption DEF TypeOK
<1>2. n \in 0..Len(queue) /\ n <= PopMax
  BY <1>1
<1>3. batch' = SubSeq(queue, 1, n) /\ queue' = SubSeq(queue, n + 1, Len(queue))
  BY DEF Pop
<1>. HIDE DEF n
<1>4. \A i \in 1..Len(queue) : queue[i] \in Row
  BY ElementOfSeq DEF TypeOK
<1>5. Len(batch') = n /\ \A i \in 1..n : batch'[i] = queue[i]
  BY <1>1, <1>2, <1>3, <1>4, SubSeqProperties, Z3
<1>6. /\ Len(queue') = Len(queue) - n
      /\ \A i \in 1..(Len(queue) - n) : queue'[i] = queue[n + i]
  BY <1>2, <1>3, DropFirst DEF TypeOK
<1>7. batch' \in Seq(Row) /\ queue' \in Seq(Row)
  <2>1. TypeOK'
    BY TypeNext DEF Next, Loop
  <2>. QED
    BY <2>1 DEF TypeOK
<1>8. DOMAIN batch' = 1..n /\ DOMAIN queue' = 1..(Len(queue) - n)
  BY <1>5, <1>6, <1>7, LenProperties
<1>. QED
  BY <1>2, <1>5, <1>6, <1>8

(* A row the answer leaves with DATA_ERROR_FLAG2 is stored at the server,  *)
(* by this request or by an earlier one.                                   *)
LEMMA FlagTwoStored ==
    ASSUME NEW rows \in Seq(Row), Len(rows) <= KeyMod,
           NEW a \in Answers(Request(rows)), NEW i \in DOMAIN rows,
           FlagAfter(rows, a, i) = 2
    PROVE  \/ rows[i].flag = 2
           \/ \E k \in DOMAIN Request(rows) :
                 a[k] = "true" /\ Request(rows)[k] = rows[i].sample
<1>. DEFINE req == Request(rows)
<1>1. i - 1 \in DOMAIN req /\ req[i - 1] = rows[i].sample
  BY OwnKey
<1>2. a \in [DOMAIN req -> Verdict]
  BY DEF Answers
<1>. HIDE DEF req
<1>3. VerdictOf(a, i) = a[i - 1] /\ a[i - 1] \in Verdict
  BY <1>1, <1>2 DEF VerdictOf
<1>4. CASE a[i - 1] = "true"
  BY <1>1, <1>4 DEF req
<1>5. CASE a[i - 1] = "error"
  BY <1>3, <1>5 DEF FlagAfter
<1>6. CASE a[i - 1] \in {"duplicate", "wrongsecret"}
  BY <1>3, <1>6 DEF FlagAfter
<1>. QED
  BY <1>3, <1>4, <1>5, <1>6 DEF Verdict

LEMMA FlagInit == Init => FlagInv
<1>1. Init => TypeOK
  BY TypeInit
<1>2. Init => Len(batch) = 0 /\ batch = <<>> /\ queue = <<>> /\ table = {}
  BY DEF Init
<1>. QED
  BY <1>1, <1>2, UplinkAssumption
     DEF FlagInv, BatchFits, QueueClean, Flag2MeansReceived

LEMMA FlagNext ==
    ASSUME KeysFit, FlagInv, [Next]_vars
    PROVE  FlagInv'
<1>. USE UplinkAssumption DEF FlagInv
<1>0. TypeOK'
  BY TypeNext
<1>1. /\ DOMAIN batch = 1..Len(batch) /\ Len(batch) \in Nat
      /\ DOMAIN batch' = 1..Len(batch') /\ Len(batch') \in Nat
      /\ DOMAIN queue = 1..Len(queue) /\ Len(queue) \in Nat
  BY <1>0, LenProperties DEF TypeOK
<1>2. CASE Push
  <2>1. PICK s \in Sample : queue' = Append(queue, [sample |-> s, flag |-> 0])
    BY <1>2 DEF Push
  <2>2. [sample |-> s, flag |-> 0] \in Row
    BY DEF Row, ErrorFlag
  <2>3. QueueClean'
    BY <1>1, <2>1, <2>2, AppendProperties DEF QueueClean, TypeOK
  <2>. QED
    BY <1>0, <1>2, <2>3 DEF Push, BatchFits, Flag2MeansReceived
<1>3. CASE Pop
  <2>1. PICK n \in 0..Len(queue) :
          /\ n <= PopMax
          /\ DOMAIN batch' = 1..n /\ Len(batch') = n
          /\ \A i \in 1..n : batch'[i] = queue[i]
          /\ DOMAIN queue' = 1..(Len(queue) - n)
          /\ \A i \in 1..(Len(queue) - n) : queue'[i] = queue[n + i]
    BY <1>3, SplitQueue
  <2>2. \A i \in 1..n : i \in DOMAIN queue
    BY <1>1, <2>1
  <2>3. \A i \in 1..(Len(queue) - n) : n + i \in DOMAIN queue
    BY <1>1, <2>1
  <2>4. QueueClean'
    BY <2>1, <2>3 DEF QueueClean
  <2>5. \A i \in DOMAIN batch' : batch'[i].flag = 0
    BY <2>1, <2>2 DEF QueueClean
  <2>6. table' = table /\ received' = received
    BY <1>3 DEF Pop
  <2>7. BatchFits'
    BY <2>1 DEF KeysFit, BatchFits
  <2>. QED
    BY <1>0, <2>4, <2>5, <2>6, <2>7 DEF Flag2MeansReceived
<1>4. CASE PostAnswered
  <2>. DEFINE req == Request(batch)
  <2>1. PICK a \in Answers(req) :
          /\ received' = received \cup {req[k] : k \in {j \in DOMAIN req : a[j] = "true"}}
          /\ batch' = Flagged(batch, a)
    BY <1>4 DEF PostAnswered
  <2>2. a \in [DOMAIN req -> Verdict]
    BY DEF Answers
  <2>3. /\ DOMAIN batch' = DOMAIN batch
        /\ \A i \in DOMAIN batch :
              /\ batch'[i].sample = batch[i].sample
              /\ batch'[i].flag = FlagAfter(batch, a, i)
    BY <2>1, <2>2, FlaggedRows DEF TypeOK
  <2>4. ASSUME NEW i \in DOMAIN batch, FlagAfter(batch, a, i) = 2
        PROVE  batch[i].sample \in received'
    <3>1. \/ batch[i].flag = 2
          \/ \E k \in DOMAIN req : a[k] = "true" /\ req[k] = batch[i].sample
      BY <2>4, FlagTwoStored DEF TypeOK, BatchFits
    <3>2. batch[i].flag = 2 => batch[i].sample \in received
      BY DEF Flag2MeansReceived
    <3>. HIDE DEF req
    <3>. QED
      BY <2>1, <3>1, <3>2
  <2>5. \A r \in table' : r.flag = 2 => r.sample \in received'
    BY <1>4, <2>1 DEF PostAnswered, Flag2MeansReceived
  <2>6. Len(batch') = Len(batch)
    BY <1>1, <2>3, SameLength
  <2>. QED
    BY <1>0, <1>4, <2>3, <2>4, <2>5, <2>6
       DEF PostAnswered, BatchFits, QueueClean, Flag2MeansReceived
<1>5. CASE PostUnanswered
  <2>1. /\ DOMAIN batch' = DOMAIN batch
        /\ \A i \in DOMAIN batch : batch'[i].flag = 1
    BY <1>5, AllFailedRows DEF PostUnanswered, TypeOK
  <2>2. \A r \in table' : r.flag = 2 => r.sample \in received'
    BY <1>5 DEF PostUnanswered, Flag2MeansReceived
  <2>3. Len(batch') = Len(batch)
    BY <1>1, <2>1, SameLength
  <2>. QED
    BY <1>0, <1>5, <2>1, <2>2, <2>3
       DEF PostUnanswered, BatchFits, QueueClean, Flag2MeansReceived
<1>6. CASE OpenForSaveFails \/ CloseSave
  <2>1. batch' = <<>> /\ Len(batch') = 0
    BY <1>6 DEF OpenForSaveFails, CloseSave, LeaveSave
  <2>. QED
    BY <1>0, <1>6, <2>1
       DEF OpenForSaveFails, CloseSave, BatchFits, QueueClean, Flag2MeansReceived
<1>7. CASE InsertRow
  <2>. DEFINE r == [sample |-> batch[next].sample, flag |-> batch[next].flag,
                    rowid |-> NewRowid]
  <2>1. table' = table \/ table' = table \cup {r}
    BY <1>7 DEF InsertRow
  <2>2. next \in DOMAIN batch
    BY <1>1, <1>7 DEF InsertRow, TypeOK
  <2>3. r.flag = 2 => r.sample \in received
    BY <2>2 DEF Flag2MeansReceived
  <2>. HIDE DEF r
  <2>. QED
    BY <1>0, <1>7, <2>1, <2>3
       DEF InsertRow, BatchFits, QueueClean, Flag2MeansReceived
<1>8. CASE FetchRow
  <2>1. PICK r \in Ahead :
          /\ batch' = Append(batch, [sample |-> r.sample, flag |-> r.flag])
          /\ table' = table \ SameFields(r) \/ table' = table
    BY <1>8 DEF FetchRow
  <2>2. r \in table /\ [sample |-> r.sample, flag |-> r.flag] \in Row
    BY DEF Ahead, TypeOK, TableRow, Row, ErrorFlag
  <2>3. /\ Len(batch') = Len(batch) + 1
        /\ \A i \in DOMAIN batch : batch'[i] = batch[i]
        /\ batch'[Len(batch) + 1].sample = r.sample
        /\ batch'[Len(batch) + 1].flag = r.flag
    BY <1>1, <2>1, <2>2, AppendProperties DEF TypeOK
  <2>4. \A i \in DOMAIN batch' : i \in DOMAIN batch \/ i = Len(batch) + 1
    BY <1>1, <2>3
  <2>5. \A i \in DOMAIN batch' : batch'[i].flag = 2 => batch'[i].sample \in received
    BY <2>2, <2>3, <2>4 DEF Flag2MeansReceived
  <2>6. \A q \in table' : q.flag = 2 => q.sample \in received
    BY <2>1 DEF Flag2MeansReceived
  <2>7. BatchFits'
    BY <1>1, <1>8, <2>3 DEF FetchRow, BatchFits, KeysFit
  <2>. QED
    BY <1>0, <1>8, <2>5, <2>6, <2>7 DEF FetchRow, QueueClean, Flag2MeansReceived
<1>9. CASE CloseFetch
  <2>1. \A q \in table' : q.flag = 2 => q.sample \in received
    BY <1>9, RenumberedRows DEF CloseFetch, TypeOK, Flag2MeansReceived
  <2>. QED
    BY <1>0, <1>9, <2>1
       DEF CloseFetch, BatchFits, QueueClean, Flag2MeansReceived
<1>10. CASE Crash \/ PostGarbled
  <2>1. Restart /\ received \subseteq received'
    BY <1>10 DEF Crash, PostGarbled
  <2>2. \A q \in table' : q.flag = 2 => q.sample \in received'
    BY <2>1, RenumberedRows DEF Restart, TypeOK, Flag2MeansReceived
  <2>3. batch' = <<>> /\ queue' = <<>> /\ Len(batch') = 0
    BY <2>1 DEF Restart
  <2>. QED
    BY <1>0, <2>2, <2>3 DEF BatchFits, QueueClean, Flag2MeansReceived
<1>11. CASE SkipPost \/ OpenForSave \/ OpenForFetch \/ OpenForFetchFails
            \/ UNCHANGED vars
  <2>1. UNCHANGED <<queue, table, batch, received>>
    BY <1>11 DEF SkipPost, OpenForSave, OpenForFetch, OpenForFetchFails, vars
  <2>. QED
    BY <1>0, <2>1 DEF BatchFits, QueueClean, Flag2MeansReceived
<1>. QED
  BY <1>2, <1>3, <1>4, <1>5, <1>6, <1>7, <1>8, <1>9, <1>10, <1>11 DEF Next, Loop

(* A kept row with DATA_ERROR_FLAG2 is stored at the server already, so    *)
(* that process_response may drop it on DUPLICATE: whatever fails and      *)
(* wherever the process dies, as long as the keys of a request, numbered   *)
(* by a quint8, do not wrap.                                               *)
THEOREM FlagTwoIsStored ==
    ASSUME KeysFit
    PROVE  Spec => []Flag2MeansReceived
<1>1. Init => FlagInv
  BY FlagInit
<1>2. FlagInv /\ [Next]_vars => FlagInv'
  BY FlagNext
<1>3. FlagInv => Flag2MeansReceived
  BY DEF FlagInv
<1>. QED
  BY <1>1, <1>2, <1>3, PTL DEF Spec

-----------------------------------------------------------------------------
(* One place for a sample: the strengthening says that only produced       *)
(* samples are held, which keeps a fresh one apart from all others, and    *)
(* that the scan of the table starts with an empty batch.                  *)
HoldInv ==
    /\ TypeOK
    /\ HeldOnce
    /\ Held \subseteq produced
    /\ pc = "fetch" => batch = <<>>

(* A step that moves no row between queue, table and batch can only let    *)
(* rows of the batch go.                                                   *)
LEMMA HoldShrinks ==
    ASSUME HeldOnce, Held \subseteq produced,
           queue' = queue, table' = table, produced' = produced,
           Pending' \subseteq Pending,
           \A i \in Pending' : batch'[i].sample = batch[i].sample
    PROVE  HeldOnce' /\ (Held \subseteq produced)'
<1>1. InQueue' = InQueue /\ InTable' = InTable
  BY DEF InQueue, SamplesOf, InTable
<1>2. InHand' \subseteq InHand
  BY DEF InHand
<1>3. \A i, j \in Pending' : batch'[i].sample = batch'[j].sample => i = j
  BY DEF HeldOnce
<1>. QED
  BY <1>1, <1>2, <1>3 DEF HeldOnce, Held

(* Numbering the rowids anew never makes two rows of one.                  *)
LEMMA RenumberedOnce ==
    ASSUME NEW rows, rows \subseteq TableRow,
           \A q, r \in rows : q.sample = r.sample => q = r
    PROVE  \A q, r \in Renumbered(rows) : q.sample = r.sample => q = r
<1>. DEFINE Rank(r) == Cardinality({q \in rows : q.rowid <= r.rowid})
            New(r)  == [r EXCEPT !.rowid = Rank(r)]
<1>1. ASSUME NEW r \in rows
      PROVE  New(r).sample = r.sample
  <2>. HIDE DEF Rank
  <2>. QED
    BY DEF TableRow
<1>2. Renumbered(rows) = {New(r) : r \in rows}
  BY DEF Renumbered
<1>. HIDE DEF New
<1>. QED
  BY <1>1, <1>2

LEMMA RenumberedTable ==
    ASSUME TypeOK, HeldOnce, table' = Renumbered(table)
    PROVE  /\ InTable' = InTable
           /\ \A q, r \in table' : q.sample = r.sample => q = r
<1>1. \A q, r \in table : q.sample = r.sample => q = r
  BY DEF HeldOnce
<1>2. \A q, r \in table' : q.sample = r.sample => q = r
  BY <1>1, RenumberedOnce DEF TypeOK
<1>3. /\ \A r \in table : \E q \in table' : q.sample = r.sample
      /\ \A q \in table' : \E r \in table : q.sample = r.sample
  BY RenumberedRows DEF TypeOK
<1>. QED
  BY <1>2, <1>3 DEF InTable

LEMMA HoldInit == Init => HoldInv
<1>. SUFFICES ASSUME Init PROVE HoldInv
  OBVIOUS
<1>1. TypeOK
  BY TypeInit
<1>2. queue = <<>> /\ batch = <<>> /\ table = {} /\ pc = "sweep"
  BY DEF Init
<1>3. InQueue = {} /\ InHand = {} /\ InTable = {} /\ Pending = {}
  BY <1>2 DEF InQueue, SamplesOf, InHand, InTable, Pending
<1>. QED
  BY <1>1, <1>2, <1>3 DEF HoldInv, HeldOnce, Held

LEMMA HoldNext ==
    ASSUME "delete" \notin Faults, HoldInv, [Next]_vars
    PROVE  HoldInv'
<1>. USE UplinkAssumption DEF HoldInv
<1>0. TypeOK'
  BY TypeNext
<1>1. /\ DOMAIN batch = 1..Len(batch) /\ Len(batch) \in Nat
      /\ DOMAIN batch' = 1..Len(batch') /\ Len(batch') \in Nat
      /\ DOMAIN queue = 1..Len(queue) /\ Len(queue) \in Nat
  BY <1>0, LenProperties DEF TypeOK
<1>2. CASE Push
  <2>1. PICK s \in Sample \ produced :
          /\ produced' = produced \cup {s}
          /\ queue' = Append(queue, [sample |-> s, flag |-> 0])
    BY <1>2 DEF Push
  <2>2. [sample |-> s, flag |-> 0] \in Row
    BY DEF Row, ErrorFlag
  <2>3. /\ DOMAIN queue' = 1..(Len(queue) + 1)
        /\ \A i \in DOMAIN queue : queue'[i] = queue[i]
        /\ queue'[Len(queue) + 1].sample = s
    BY <1>1, <2>1, <2>2, AppendProperties, LenProperties DEF TypeOK
  <2>4. \A i \in DOMAIN queue' : i \in DOMAIN queue \/ i = Len(queue) + 1
    BY <1>1, <2>3
  <2>5. InQueue' \subseteq InQueue \cup {s}
    BY <2>3, <2>4 DEF InQueue, SamplesOf
  <2>6. \A i \in DOMAIN queue : queue[i].sample # s
    BY <2>1 DEF Held, InQueue, SamplesOf
  <2>7. \A i, j \in DOMAIN queue' : queue'[i].sample = queue'[j].sample => i = j
    BY <2>3, <2>4, <2>6 DEF HeldOnce
  <2>8. /\ Pending' = Pending /\ InHand' = InHand /\ InTable' = InTable
        /\ batch' = batch /\ table' = table /\ pc' = pc
    BY <1>2 DEF Push, Pending, InHand, InTable
  <2>9. s \notin InHand \cup InTable
    BY <2>1 DEF Held
  <2>. QED
    BY <1>0, <2>1, <2>5, <2>7, <2>8, <2>9 DEF HeldOnce, Held
<1>3. CASE Pop
  <2>1. PICK n \in 0..Len(queue) :
          /\ DOMAIN batch' = 1..n
          /\ \A i \in 1..n : batch'[i] = queue[i]
          /\ DOMAIN queue' = 1..(Len(queue) - n)
          /\ \A i \in 1..(Len(queue) - n) : queue'[i] = queue[n + i]
    BY <1>3, SplitQueue
  <2>2. \A i \in 1..n : i \in DOMAIN queue
    BY <1>1, <2>1
  <2>3. \A i \in 1..(Len(queue) - n) : n + i \in DOMAIN queue
    BY <1>1, <2>1
  <2>4. /\ pc' = "post" /\ produced' = produced
        /\ table' = table /\ InTable' = InTable
    BY <1>3 DEF Pop, InTable
  <2>5. Pending' = 1..n
    BY <2>1, <2>4 DEF Pending
  <2>6. InHand' \subseteq InQueue /\ InQueue' \subseteq InQueue
    BY <2>1, <2>2, <2>3, <2>5 DEF InHand, InQueue, SamplesOf
  <2>7. \A i, j \in Pending' : batch'[i].sample = batch'[j].sample => i = j
    BY <2>1, <2>2, <2>5 DEF HeldOnce
  <2>8. \A i, j \in DOMAIN queue' : queue'[i].sample = queue'[j].sample => i = j
    <3>1. ASSUME NEW i \in DOMAIN queue', NEW j \in DOMAIN queue',
                 queue'[i].sample = queue'[j].sample
          PROVE  i = j
      <4>1. n + i = n + j
        BY <2>1, <2>3, <3>1 DEF HeldOnce
      <4>. QED
        BY <1>1, <2>1, <4>1
    <3>. QED
      BY <3>1
  <2>9. InHand' \cap InQueue' = {}
    <3>1. ASSUME NEW i \in 1..n, NEW j \in 1..(Len(queue) - n)
          PROVE  queue[i].sample # queue[n + j].sample
      <4>1. i # n + j
        BY <1>1
      <4>. QED
        BY <2>2, <2>3, <4>1 DEF HeldOnce
    <3>2. ASSUME NEW s \in InHand'
          PROVE  \E i \in 1..n : s = queue[i].sample
      BY <2>1, <2>5 DEF InHand
    <3>3. ASSUME NEW s \in InQueue'
          PROVE  \E j \in 1..(Len(queue) - n) : s = queue[n + j].sample
      BY <2>1 DEF InQueue, SamplesOf
    <3>. QED
      BY <3>1, <3>2, <3>3
  <2>. QED
    BY <1>0, <2>4, <2>6, <2>7, <2>8, <2>9 DEF HeldOnce, Held
<1>4. CASE SkipPost \/ OpenForSave \/ OpenForSaveFails \/ CloseSave
           \/ OpenForFetch \/ OpenForFetchFails \/ UNCHANGED vars
  <2>1. UNCHANGED <<queue, table, produced>>
    BY <1>4 DEF SkipPost, OpenForSave, OpenForSaveFails, CloseSave,
                OpenForFetch, OpenForFetchFails, vars
  <2>2. /\ Pending' \subseteq Pending
        /\ \A i \in Pending' : batch'[i].sample = batch[i].sample
    <3>1. CASE SkipPost \/ OpenForSave \/ UNCHANGED vars
      BY <3>1 DEF SkipPost, OpenForSave, Pending, vars
    <3>2. CASE OpenForSaveFails \/ CloseSave
      <4>1. batch' = <<>>
        BY <3>2 DEF OpenForSaveFails, CloseSave, LeaveSave
      <4>. QED
        BY <4>1 DEF Pending
    <3>3. CASE OpenForFetch \/ OpenForFetchFails
      <4>1. batch' = <<>>
        BY <3>3 DEF OpenForFetch, OpenForFetchFails
      <4>. QED
        BY <4>1 DEF Pending
    <3>. QED
      BY <1>4, <3>1, <3>2, <3>3
  <2>3. pc' = "fetch" => batch' = <<>>
    BY <1>4 DEF SkipPost, OpenForSave, OpenForSaveFails, CloseSave, LeaveSave,
                OpenForFetch, OpenForFetchFails, vars
  <2>. QED
    BY <1>0, <2>1, <2>2, <2>3, HoldShrinks
<1>5. CASE PostAnswered \/ PostUnanswered
  <2>1. /\ UNCHANGED <<queue, table, produced>>
        /\ pc = "post" /\ pc' = "save"
    BY <1>5 DEF PostAnswered, PostUnanswered
  <2>2. /\ DOMAIN batch' = DOMAIN batch
        /\ \A i \in DOMAIN batch : batch'[i].sample = batch[i].sample
    <3>1. CASE PostAnswered
      <4>1. PICK a \in Answers(Request(batch)) : batch' = Flagged(batch, a)
        BY <3>1 DEF PostAnswered
      <4>2. a \in [DOMAIN Request(batch) -> Verdict]
        BY DEF Answers
      <4>. QED
        BY <4>1, <4>2, FlaggedRows DEF TypeOK
    <3>2. CASE PostUnanswered
      BY <3>2, AllFailedRows DEF PostUnanswered, TypeOK
    <3>. QED
      BY <1>5, <3>1, <3>2
  <2>3. /\ Pending' \subseteq Pending
        /\ \A i \in Pending' : batch'[i].sample = batch[i].sample
    BY <2>1, <2>2 DEF Pending
  <2>. QED
    BY <1>0, <2>1, <2>3, HoldShrinks
<1>6. CASE InsertRow
  <2>. DEFINE r == [sample |-> batch[next].sample, flag |-> batch[next].flag,
                    rowid |-> NewRowid]
  <2>1. /\ UNCHANGED <<queue, produced, batch>>
        /\ pc = "insert" /\ pc' = "insert"
        /\ next \in DOMAIN batch /\ next' = next + 1 /\ next \in Nat
    BY <1>1, <1>6 DEF InsertRow, TypeOK
  <2>2. Pending' = Pending \ {next}
    BY <1>1, <2>1 DEF Pending
  <2>3. \/ table' = table
        \/ next \in Pending /\ table' = table \cup {r}
    BY <1>6, <2>1 DEF InsertRow, ToSave, Pending
  <2>4. CASE table' = table
    BY <1>0, <2>1, <2>2, <2>4, HoldShrinks
  <2>5. CASE next \in Pending /\ table' = table \cup {r}
    <3>. DEFINE s == batch[next].sample
    <3>1. s \in InHand
      BY <2>5 DEF InHand
    <3>2. s \notin InTable /\ s \notin InQueue
      BY <3>1 DEF HeldOnce
    <3>3. InHand' \subseteq InHand \ {s}
      BY <2>1, <2>2, <2>5 DEF InHand, HeldOnce
    <3>4. r.sample = s
      OBVIOUS
    <3>. HIDE DEF r, s
    <3>5. InTable' = InTable \cup {s}
      BY <2>5, <3>4 DEF InTable
    <3>6. \A p, q \in table' : p.sample = q.sample => p = q
      BY <2>5, <3>2, <3>4 DEF InTable, HeldOnce
    <3>7. \A i, j \in Pending' : batch'[i].sample = batch'[j].sample => i = j
      BY <2>1, <2>2 DEF HeldOnce
    <3>8. InQueue' = InQueue
      BY <2>1 DEF InQueue, SamplesOf
    <3>. QED
      BY <1>0, <2>1, <3>1, <3>2, <3>3, <3>5, <3>6, <3>7, <3>8 DEF HeldOnce, Held
  <2>. QED
    BY <2>3, <2>4, <2>5
<1>7. CASE FetchRow
  <2>1. PICK r \in Ahead :
          /\ batch' = Append(batch, [sample |-> r.sample, flag |-> r.flag])
          /\ table' = table \ SameFields(r)
    BY <1>7 DEF FetchRow
  <2>2. r \in table /\ [sample |-> r.sample, flag |-> r.flag] \in Row
    BY DEF Ahead, TypeOK, TableRow, Row, ErrorFlag
  <2>3. /\ DOMAIN batch' = 1..(Len(batch) + 1)
        /\ \A i \in DOMAIN batch : batch'[i] = batch[i]
        /\ batch'[Len(batch) + 1].sample = r.sample
    BY <1>1, <2>1, <2>2, AppendProperties DEF TypeOK
  <2>4. \A i \in DOMAIN batch' : i \in DOMAIN batch \/ i = Len(batch) + 1
    BY <1>1, <2>3
  <2>5. Pending = DOMAIN batch /\ Pending' = DOMAIN batch'
    BY <1>7 DEF FetchRow, Pending
  <2>6. InTable' \subseteq InTable \ {r.sample}
    <3>1. ASSUME NEW q \in table'
          PROVE  q.sample \in InTable /\ q.sample # r.sample
      <4>1. q \in table /\ q \notin SameFields(r)
        BY <2>1
      <4>2. q # r
        BY <2>2, <4>1 DEF SameFields
      <4>. QED
        BY <2>2, <4>1, <4>2 DEF HeldOnce, InTable
    <3>. QED
      BY <3>1 DEF InTable
  <2>7. InHand' \subseteq InHand \cup {r.sample}
    BY <2>3, <2>4, <2>5 DEF InHand
  <2>8. r.sample \in InTable /\ r.sample \notin InHand /\ r.sample \notin InQueue
    BY <2>2 DEF InTable, HeldOnce
  <2>9. \A i, j \in Pending' : batch'[i].sample = batch'[j].sample => i = j
    BY <2>3, <2>4, <2>5, <2>8 DEF InHand, HeldOnce
  <2>10. /\ queue' = queue /\ InQueue' = InQueue
         /\ produced' = produced /\ pc' = "select"
    BY <1>7 DEF FetchRow, InQueue, SamplesOf
  <2>11. \A p, q \in table' : p.sample = q.sample => p = q
    BY <2>1 DEF HeldOnce
  <2>. QED
    BY <1>0, <2>6, <2>7, <2>8, <2>9, <2>10, <2>11 DEF HeldOnce, Held
<1>8. CASE CloseFetch
  <2>1. /\ UNCHANGED <<queue, batch, produced>>
        /\ pc = "select" /\ pc' = "post" /\ table' = Renumbered(table)
    BY <1>8 DEF CloseFetch
  <2>2. /\ InTable' = InTable
        /\ \A p, q \in table' : p.sample = q.sample => p = q
    BY <2>1, RenumberedTable
  <2>3. Pending' = Pending /\ InHand' = InHand /\ InQueue' = InQueue
    BY <2>1 DEF Pending, InHand, InQueue, SamplesOf
  <2>. QED
    BY <1>0, <2>1, <2>2, <2>3 DEF HeldOnce, Held
<1>9. CASE Crash \/ PostGarbled
  <2>1. /\ queue' = <<>> /\ batch' = <<>> /\ produced' = produced
        /\ pc' = "sweep" /\ table' = Renumbered(table)
    BY <1>9 DEF Crash, PostGarbled, Restart
  <2>2. /\ InTable' = InTable
        /\ \A p, q \in table' : p.sample = q.sample => p = q
    BY <2>1, RenumberedTable
  <2>3. Pending' = {} /\ InHand' = {} /\ InQueue' = {}
    BY <2>1 DEF Pending, InHand, InQueue, SamplesOf
  <2>. QED
    BY <1>0, <2>1, <2>2, <2>3 DEF HeldOnce, Held
<1>. QED
  BY <1>2, <1>3, <1>4, <1>5, <1>6, <1>7, <1>8, <1>9 DEF Next, Loop

(* A sample is kept once: pop and fromDataTable hand a row out and remove  *)
(* it, toDataTable saves it once, and a crash between any two calls copies *)
(* nothing, as long as no DELETE fails.                                    *)
THEOREM KeptOnce ==
    ASSUME "delete" \notin Faults
    PROVE  Spec => []HeldOnce
<1>1. Init => HoldInv
  BY HoldInit
<1>2. HoldInv /\ [Next]_vars => HoldInv'
  BY HoldNext
<1>3. HoldInv => HeldOnce
  BY DEF HoldInv
<1>. QED
  BY <1>1, <1>2, <1>3, PTL DEF Spec

-----------------------------------------------------------------------------
(* What the mapping needs beside NoSampleLost: only produced samples are   *)
(* held or stored, and the scan of the table starts with an empty batch.   *)
OutboxInv ==
    /\ KeepInv
    /\ Held \subseteq produced
    /\ received \subseteq produced
    /\ pc = "fetch" => batch = <<>>

(* The request carries samples that are in the process's hands.            *)
LEMMA RequestInHand ==
    ASSUME TypeOK, pc = "post", NEW k \in DOMAIN Request(batch)
    PROVE  Request(batch)[k] \in InHand
<1>1. /\ LastRow(batch, k) \in DOMAIN batch
      /\ Request(batch)[k] = batch[LastRow(batch, k)].sample
  BY RequestRow DEF TypeOK
<1>2. LastRow(batch, k) \in Pending
  BY <1>1 DEF Pending
<1>. QED
  BY <1>1, <1>2 DEF InHand

(* What the server stores was held, and is of a sensor it knows.           *)
LEMMA StoredWasHeld ==
    ASSUME TypeOK, [Next]_vars
    PROVE  /\ received \subseteq received'
           /\ received' \ received \subseteq Held \ Unknown
<1>1. CASE PostAnswered
  <2>. DEFINE req == Request(batch)
  <2>1. PICK a \in Answers(req) :
          received' = received \cup {req[k] : k \in {j \in DOMAIN req : a[j] = "true"}}
    BY <1>1 DEF PostAnswered
  <2>2. ASSUME NEW k \in DOMAIN req, a[k] = "true"
        PROVE  req[k] \notin Unknown
    BY <2>2 DEF Answers
  <2>3. \A k \in DOMAIN req : req[k] \in InHand
    BY <1>1, RequestInHand DEF PostAnswered
  <2>. HIDE DEF req
  <2>. QED
    BY <2>1, <2>2, <2>3 DEF Held
<1>2. CASE PostUnanswered \/ PostGarbled
  <2>. DEFINE req == Request(batch)
  <2>1. PICK stored \in SUBSET {req[k] : k \in DOMAIN req} :
          received' = received \cup (stored \ Unknown)
    BY <1>2 DEF PostUnanswered, PostGarbled
  <2>2. \A k \in DOMAIN req : req[k] \in InHand
    BY <1>2, RequestInHand DEF PostUnanswered, PostGarbled
  <2>. HIDE DEF req
  <2>. QED
    BY <2>1, <2>2 DEF Held
<1>3. CASE Push \/ Pop \/ SkipPost \/ OpenForSave \/ OpenForSaveFails \/ InsertRow
           \/ CloseSave \/ OpenForFetch \/ OpenForFetchFails \/ FetchRow
           \/ CloseFetch \/ Crash \/ UNCHANGED vars
  <2>1. received' = received
    BY <1>3 DEF Push, Pop, SkipPost, OpenForSave, OpenForSaveFails, InsertRow,
                CloseSave, OpenForFetch, OpenForFetchFails, FetchRow,
                CloseFetch, Crash, vars
  <2>. QED
    BY <2>1
<1>. QED
  BY <1>1, <1>2, <1>3 DEF Next, Loop

(* No sample comes to be held but by Push.                                 *)
LEMMA HeldComesByPush ==
    ASSUME OutboxInv, [Next]_vars, ~Push
    PROVE  Held' \subseteq Held /\ produced' = produced
<1>. USE UplinkAssumption DEF OutboxInv, KeepInv
<1>0. TypeOK'
  BY TypeNext
<1>1. /\ DOMAIN batch = 1..Len(batch) /\ Len(batch) \in Nat
      /\ DOMAIN queue = 1..Len(queue) /\ Len(queue) \in Nat
  BY LenProperties DEF TypeOK
<1>2. CASE Pop
  <2>1. PICK n \in 0..Len(queue) :
          /\ DOMAIN batch' = 1..n
          /\ \A i \in 1..n : batch'[i] = queue[i]
          /\ DOMAIN queue' = 1..(Len(queue) - n)
          /\ \A i \in 1..(Len(queue) - n) : queue'[i] = queue[n + i]
    BY <1>2, SplitQueue
  <2>2. \A i \in 1..n : i \in DOMAIN queue
    BY <1>1, <2>1
  <2>3. \A i \in 1..(Len(queue) - n) : n + i \in DOMAIN queue
    BY <1>1, <2>1
  <2>4. InHand' \subseteq InQueue /\ InQueue' \subseteq InQueue
    <3>1. Pending' \subseteq 1..n
      BY <2>1 DEF Pending
    <3>2. \A i \in Pending' : \E j \in DOMAIN queue : batch'[i].sample = queue[j].sample
      BY <2>1, <2>2, <3>1
    <3>3. \A i \in DOMAIN queue' : \E j \in DOMAIN queue : queue'[i].sample = queue[j].sample
      BY <2>1, <2>3
    <3>. QED
      BY <3>2, <3>3 DEF InHand, InQueue, SamplesOf
  <2>5. InTable' = InTable /\ produced' = produced
    BY <1>2 DEF Pop, InTable
  <2>. QED
    BY <2>4, <2>5 DEF Held
<1>3. CASE SkipPost \/ OpenForSave \/ OpenForSaveFails \/ CloseSave
           \/ OpenForFetch \/ OpenForFetchFails \/ UNCHANGED vars
  <2>1. UNCHANGED <<queue, table, produced>>
    BY <1>3 DEF SkipPost, OpenForSave, OpenForSaveFails, CloseSave,
                OpenForFetch, OpenForFetchFails, vars
  <2>2. InHand' \subseteq InHand
    <3>1. CASE SkipPost \/ OpenForSave \/ UNCHANGED vars
      <4>1. batch' = batch /\ Pending' \subseteq Pending
        BY <3>1 DEF SkipPost, OpenForSave, Pending, vars
      <4>. QED
        BY <4>1 DEF InHand
    <3>2. CASE OpenForSaveFails \/ CloseSave \/ OpenForFetch \/ OpenForFetchFails
      <4>1. batch' = <<>>
        BY <3>2 DEF OpenForSaveFails, CloseSave, LeaveSave, OpenForFetch,
                    OpenForFetchFails
      <4>. QED
        BY <4>1 DEF InHand, Pending
    <3>. QED
      BY <1>3, <3>1, <3>2
  <2>. QED
    BY <2>1, <2>2 DEF Held, InQueue, SamplesOf, InTable
<1>4. CASE PostAnswered \/ PostUnanswered
  <2>1. UNCHANGED <<queue, table, produced>> /\ pc = "post" /\ pc' = "save"
    BY <1>4 DEF PostAnswered, PostUnanswered
  <2>2. /\ DOMAIN batch' = DOMAIN batch
        /\ \A i \in DOMAIN batch : batch'[i].sample = batch[i].sample
    <3>1. CASE PostAnswered
      <4>1. PICK a \in Answers(Request(batch)) : batch' = Flagged(batch, a)
        BY <3>1 DEF PostAnswered
      <4>2. a \in [DOMAIN Request(batch) -> Verdict]
        BY DEF Answers
      <4>. QED
        BY <4>1, <4>2, FlaggedRows DEF TypeOK
    <3>2. CASE PostUnanswered
      BY <3>2, AllFailedRows DEF PostUnanswered, TypeOK
    <3>. QED
      BY <1>4, <3>1, <3>2
  <2>3. InHand' \subseteq InHand
    BY <2>1, <2>2 DEF InHand, Pending
  <2>. QED
    BY <2>1, <2>3 DEF Held, InQueue, SamplesOf, InTable
<1>5. CASE InsertRow
  <2>. DEFINE r == [sample |-> batch[next].sample, flag |-> batch[next].flag,
                    rowid |-> NewRowid]
  <2>1. /\ UNCHANGED <<queue, produced, batch>>
        /\ pc = "insert" /\ pc' = "insert"
        /\ next \in DOMAIN batch /\ next' = next + 1 /\ next \in Nat
    BY <1>1, <1>5 DEF InsertRow, TypeOK
  <2>2. table' = table \/ (next \in Pending /\ table' = table \cup {r})
    BY <1>5, <2>1 DEF InsertRow, ToSave, Pending
  <2>3. next \in Pending => batch[next].sample \in InHand
    BY DEF InHand
  <2>4. r.sample = batch[next].sample
    OBVIOUS
  <2>. HIDE DEF r
  <2>5. InTable' \subseteq InTable \cup InHand
    BY <2>2, <2>3, <2>4 DEF InTable
  <2>6. Pending' \subseteq Pending
    BY <1>1, <2>1 DEF Pending
  <2>7. InHand' \subseteq InHand /\ InQueue' = InQueue
    BY <2>1, <2>6 DEF InHand, InQueue, SamplesOf
  <2>. QED
    BY <2>1, <2>5, <2>7 DEF Held
<1>6. CASE FetchRow
  <2>1. PICK r \in Ahead :
          /\ batch' = Append(batch, [sample |-> r.sample, flag |-> r.flag])
          /\ table' = table \ SameFields(r) \/ table' = table
    BY <1>6 DEF FetchRow
  <2>2. r \in table /\ [sample |-> r.sample, flag |-> r.flag] \in Row
    BY DEF Ahead, TypeOK, TableRow, Row, ErrorFlag
  <2>3. /\ DOMAIN batch' = 1..(Len(batch) + 1)
        /\ \A i \in DOMAIN batch : batch'[i] = batch[i]
        /\ batch'[Len(batch) + 1].sample = r.sample
    BY <1>1, <2>1, <2>2, AppendProperties, LenProperties DEF TypeOK
  <2>4. \A i \in DOMAIN batch' : i \in DOMAIN batch \/ i = Len(batch) + 1
    BY <1>1, <2>3
  <2>5. Pending = DOMAIN batch /\ Pending' = DOMAIN batch'
    BY <1>6 DEF FetchRow, Pending
  <2>6. InHand' \subseteq InHand \cup InTable
    BY <2>2, <2>3, <2>4, <2>5 DEF InHand, InTable
  <2>7. InTable' \subseteq InTable
    BY <2>1 DEF InTable
  <2>. QED
    BY <1>6, <2>6, <2>7 DEF FetchRow, Held, InQueue, SamplesOf
<1>7. CASE CloseFetch
  <2>1. InTable' \subseteq InTable
    BY <1>7, RenumberedRows DEF CloseFetch, TypeOK, InTable
  <2>. QED
    BY <1>7, <2>1 DEF CloseFetch, Held, InHand, Pending, InQueue, SamplesOf
<1>8. CASE Crash \/ PostGarbled
  <2>1. /\ queue' = <<>> /\ batch' = <<>> /\ produced' = produced
        /\ table' = Renumbered(table)
    BY <1>8 DEF Crash, PostGarbled, Restart
  <2>2. InTable' \subseteq InTable
    BY <2>1, RenumberedRows DEF TypeOK, InTable
  <2>. QED
    BY <2>1, <2>2 DEF Held, InHand, Pending, InQueue, SamplesOf
<1>. QED
  BY <1>2, <1>3, <1>4, <1>5, <1>6, <1>7, <1>8 DEF Next, Loop

(* What one push adds to the samples held.                                 *)
LEMMA PushHolds ==
    ASSUME TypeOK, Push
    PROVE  \E s \in Sample \ produced :
             produced' = produced \cup {s} /\ Held' = Held \cup {s}
<1>1. PICK s \in Sample \ produced :
        /\ produced' = produced \cup {s}
        /\ queue' = Append(queue, [sample |-> s, flag |-> 0])
  BY DEF Push
<1>2. DOMAIN queue = 1..Len(queue) /\ Len(queue) \in Nat
  BY LenProperties DEF TypeOK
<1>3. [sample |-> s, flag |-> 0] \in Row
  BY DEF Row, ErrorFlag
<1>4. /\ DOMAIN queue' = 1..(Len(queue) + 1)
      /\ \A i \in DOMAIN queue : queue'[i] = queue[i]
      /\ queue'[Len(queue) + 1].sample = s
  BY <1>1, <1>2, <1>3, AppendProperties, LenProperties DEF TypeOK
<1>5. DOMAIN queue' = DOMAIN queue \cup {Len(queue) + 1}
  BY <1>2, <1>4
<1>6. InQueue' = InQueue \cup {s}
  BY <1>4, <1>5 DEF InQueue, SamplesOf
<1>7. InHand' = InHand /\ InTable' = InTable
  BY DEF Push, InHand, Pending, InTable
<1>. QED
  BY <1>1, <1>6, <1>7 DEF Held

LEMMA FetchStartsEmpty ==
    ASSUME pc = "fetch" => batch = <<>>, [Next]_vars
    PROVE  pc' = "fetch" => batch' = <<>>
BY DEF Next, Loop, Push, Pop, SkipPost, PostAnswered, PostUnanswered, OpenForSave,
       OpenForSaveFails, InsertRow, CloseSave, LeaveSave, OpenForFetch,
       OpenForFetchFails, FetchRow, CloseFetch, Crash, PostGarbled, Restart, vars

LEMMA OutboxInit == Init => OutboxInv
<1>. SUFFICES ASSUME Init PROVE OutboxInv
  OBVIOUS
<1>1. HoldInv
  BY HoldInit
<1>2. Len(batch) = 0 /\ produced = {} /\ received = {}
  BY DEF Init
<1>. QED
  BY <1>1, <1>2, UplinkAssumption
     DEF HoldInv, OutboxInv, KeepInv, NoSampleLost, BatchFits

LEMMA OutboxNext ==
    ASSUME Gentle, OutboxInv, [Next]_vars
    PROVE  OutboxInv'
<1>1. KeepInv'
  BY TypeNext, KeepNext DEF OutboxInv, KeepInv
<1>2. pc' = "fetch" => batch' = <<>>
  BY FetchStartsEmpty DEF OutboxInv
<1>3. Held' \subseteq produced' /\ produced \subseteq produced'
  <2>1. CASE Push
    BY <2>1, PushHolds DEF OutboxInv, KeepInv
  <2>2. CASE ~Push
    BY <2>2, HeldComesByPush DEF OutboxInv
  <2>. QED
    BY <2>1, <2>2
<1>4. received' \subseteq produced'
  BY <1>3, StoredWasHeld DEF OutboxInv, KeepInv
<1>. QED
  BY <1>1, <1>2, <1>3, <1>4 DEF OutboxInv

(* A step of Uplink is a step of Outbox, or changes nothing of it.         *)
LEMMA StepMaps ==
    ASSUME Gentle, OutboxInv, OutboxInv', [Next]_vars
    PROVE  AsOutbox!Record \/ AsOutbox!Exchange
<1>1. CASE Push
  <2>1. PICK s \in Sample \ produced :
          produced' = produced \cup {s} /\ Held' = Held \cup {s}
    BY <1>1, PushHolds DEF OutboxInv, KeepInv
  <2>2. received' = received
    BY <1>1 DEF Push
  <2>3. s \notin received
    BY DEF OutboxInv
  <2>4. (Held \ received)' = (Held \ received) \cup {s}
    BY <2>1, <2>2, <2>3
  <2>5. AsOutbox!Record
    BY <2>1, <2>2, <2>4 DEF AsOutbox!Record
  <2>. QED
    BY <2>5
<1>2. CASE ~Push
  <2>. DEFINE stored  == received' \ received
              waiting == Held \ received
              refused == waiting \ (Held' \cup stored)
  <2>1. Held' \subseteq Held /\ produced' = produced
    BY <1>2, HeldComesByPush
  <2>2. received \subseteq received' /\ stored \subseteq Held \ Unknown
    BY StoredWasHeld DEF OutboxInv, KeepInv
  <2>3. Held \subseteq Held' \cup received' \cup Unknown
    BY <2>1 DEF OutboxInv, KeepInv, NoSampleLost
  <2>4. stored \in SUBSET (waiting \ Unknown)
    BY <2>2
  <2>5. refused \in SUBSET (waiting \cap Unknown)
    BY <2>3
  <2>6. received' = received \cup stored
    BY <2>2
  <2>7. (Held \ received)' = waiting \ (stored \cup refused)
    BY <2>1, <2>2
  <2>8. AsOutbox!Exchange
    <3>. HIDE DEF stored, refused
    <3>. QED
      BY <2>1, <2>4, <2>5, <2>6, <2>7 DEF AsOutbox!Exchange
  <2>. QED
    BY <2>8
<1>. QED
  BY <1>1, <1>2

(* The store-and-forward cycle of sendToServer is an outbox: a sample that *)
(* is read waits until the server stores it or refuses it, and each is     *)
(* stored only once it was read, for lost answers, unreadable tables and   *)
(* failing DELETEs, and requests with a key for each row.                  *)
THEOREM UplinkIsOutbox ==
    ASSUME Gentle
    PROVE  Spec => ImplementsOutbox
<1>1. Init => AsOutbox!Init
  <2>1. Init => HoldInv /\ produced = {} /\ received = {}
    BY HoldInit DEF Init
  <2>. QED
    BY <2>1 DEF HoldInv, AsOutbox!Init
<1>2. Init => OutboxInv
  BY OutboxInit
<1>3. OutboxInv /\ [Next]_vars => OutboxInv'
  BY OutboxNext
<1>4. OutboxInv /\ OutboxInv' /\ [Next]_vars
        => [AsOutbox!Record \/ AsOutbox!Exchange]_(AsOutbox!vars)
  BY StepMaps
<1>. QED
  BY <1>1, <1>2, <1>3, <1>4, PTL DEF Spec, ImplementsOutbox, AsOutbox!Spec
=============================================================================
