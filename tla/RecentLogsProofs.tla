--------------------------- MODULE RecentLogsProofs ---------------------------
(***************************************************************************)
(* For any number of requests and workers and any length of the list: what  *)
(* the list of recent logs may repeat, and what it may leave out.          *)
(***************************************************************************)
EXTENDS RecentLogs, SequenceLemmas, SequenceTheorems, FiniteSetTheorems, TLAPS

(* The requests that hold a call on its way to the queue or to MySQL.       *)
Hands   == {r \in Requests : pc[r] \in {"trim", "enqueue", "record"}}
InHands == {mine[r] : r \in Hands}
InQueue == ToSet(queue)
Listed  == ToSet(list)

(* A call is on its way in one place or has a row; it has both, or two      *)
(* rows, only if an INSERT of it landed and answered an error.              *)
CallsOnce ==
  /\ InRows \cup InQueue \cup InHands \subseteq 1 .. made
  /\ \A p, q \in rows : p # q /\ p.call = q.call => p.call \in unsure
  /\ IsInjective(queue)
  /\ \A p, q \in Hands : mine[p] = mine[q] => p = q
  /\ InQueue \cap InRows \subseteq unsure
  /\ InHands \cap (InRows \cup InQueue) = {}

(* What a refill brings comes from rows, each call once or from a repeated  *)
(* INSERT.                                                                 *)
RefillsFromRows ==
  \A r \in Refilling : RepeatsOnly(got[r], unsure) /\ ToSet(got[r]) \subseteq 1 .. made

(* While no two refills overlap, a refill adds to a list from which it has  *)
(* deleted what it brings.                                                 *)
RefillsApart ==
  \/ mixed
  \/ /\ \A p, q \in Refilling : p = q
     /\ \A r \in Requests : pc[r] = "fill" => Listed \cap ToSet(got[r]) = {}
     /\ RepeatsOnly(list, unsure)

(* The calls newer than one of s, and without a cause in H to be missing,    *)
(* stand before it: true of s, it is true of every prefix of s.            *)
SoundBut(s, H) ==
  \A i \in DOMAIN s, d \in 1 .. made :
    Newer(d, s[i]) /\ d \notin H => \E j \in 1 .. i - 1 : s[j] = d

Sound(s) == SoundBut(s, hidden)

GapInv == Sound(list) /\ \A r \in Refilling : Sound(got[r])

ListInv == Listed \subseteq 1 .. made /\ RefillsFromRows /\ RefillsApart

IInv == TypeOK /\ CallsOnce /\ ListInv /\ GapInv

-------------------------------------------------------------------------------
(* The sequences that the actions build.                                   *)

LEMMA FirstProperties ==
  ASSUME NEW S, NEW s \in Seq(S), NEW n \in Nat
  PROVE  /\ First(s, n) \in Seq(S) /\ Len(First(s, n)) \in 0 .. Len(s)
         /\ \A i \in 1 .. Len(First(s, n)) : First(s, n)[i] = s[i]
         /\ ToSet(First(s, n)) \subseteq ToSet(s)
         /\ \A K : RepeatsOnly(s, K) => RepeatsOnly(First(s, n), K)
<1> DEFINE m == IF Len(s) < n THEN Len(s) ELSE n
<1>1. Len(s) \in Nat /\ m \in 0 .. Len(s) /\ DOMAIN s = 1 .. Len(s) /\ \A i \in 1 .. Len(s) : s[i] \in S
  BY LenProperties
<1> HIDE DEF m
<1>2. /\ SubSeq(s, 1, m) \in Seq(S) /\ Len(SubSeq(s, 1, m)) = m
      /\ \A i \in 1 .. m : SubSeq(s, 1, m)[i] = s[i]
  <2>1. \A i \in 1 .. m : s[i] \in S
    BY <1>1
  <2> QED BY <1>1, <2>1, SubSeqProperties
<1>3. First(s, n) = SubSeq(s, 1, m)
  BY DEF First, m
<1>4. DOMAIN First(s, n) = 1 .. m /\ \A i \in 1 .. m : i \in 1 .. Len(s)
  BY <1>1, <1>2, <1>3, LenProperties
<1>5. ToSet(First(s, n)) \subseteq ToSet(s)
  BY <1>1, <1>2, <1>3, <1>4 DEF ToSet
<1>6. ASSUME NEW K, RepeatsOnly(s, K) PROVE RepeatsOnly(First(s, n), K)
  BY <1>1, <1>2, <1>3, <1>4, <1>6 DEF RepeatsOnly
<1> QED BY <1>1, <1>2, <1>3, <1>5, <1>6

(* A new row.                                                               *)
LEMMA InsertRow ==
  ASSUME TypeOK, NEW c \in Call, Insert(c)
  PROVE  /\ rows \subseteq rows' /\ rows' \subseteq Row
         /\ InRows' = InRows \cup {c}
         /\ \A p \in rows' : p \in rows \/ p.call = c
         /\ \A p, q \in rows' : p \notin rows /\ q \notin rows => p = q
         /\ \A p \in rows : p.call = c => c \in InRows
<1> DEFINE row == [call |-> c, at |-> now, try |-> tried[c]]
<1>1. row \in Row /\ rows' = rows \cup {row} /\ row.call = c
  BY DEF TypeOK, Row, Insert
<1> HIDE DEF row
<1> QED BY <1>1 DEF InRows, TypeOK

LEMMA RowsAreFinite == ASSUME TypeOK, NEW Q \in SUBSET rows PROVE IsFiniteSet(Q)
<1> DEFINE Tries  == 0 .. MaxTries - 1
           Triple == (Call \X Time) \X Tries
           row    == [x \in Triple |-> [call |-> x[1][1], at |-> x[1][2], try |-> x[2]]]
<1>1. IsFiniteSet(Call) /\ IsFiniteSet(Time) /\ IsFiniteSet(Tries)
  BY ConstantsAssumption, FS_Interval DEF Call, Time
<1>2. IsFiniteSet(Triple)
  <2> HIDE DEF Tries
  <2> QED BY <1>1, FS_Product
<1>3. row \in Surjection(Triple, Row)
  <2>1. \A x \in Triple : row[x] \in Row
    BY DEF Row
  <2>2. ASSUME NEW q \in Row PROVE \E x \in Triple : row[x] = q
    <3>1. <<<<q.call, q.at>>, q.try>> \in Triple
      BY DEF Row
    <3>2. row[<<<<q.call, q.at>>, q.try>>] = q
      BY <3>1 DEF Row
    <3> QED BY <3>1, <3>2
  <2> HIDE DEF Triple
  <2>3. row \in [Triple -> Row]
    BY <2>1
  <2> QED BY <2>2, <2>3 DEF Surjection
<1>4. IsFiniteSet(Row)
  <2> HIDE DEF Triple, row
  <2> QED BY <1>2, <1>3, FS_Surjection
<1> QED BY <1>4, FS_Subset DEF TypeOK

(* What MySQL answers: each row once, none before a row of a later second.  *)
LEMMA NewestRows ==
  ASSUME TypeOK, NEW Q \in SUBSET rows, NEW logs \in Newest(Q)
  PROVE  /\ logs \in Seq(Call) /\ DOMAIN logs = 1 .. Len(logs) /\ Len(logs) \in Nat
         /\ \E s \in [1 .. Len(logs) -> Q] :
              /\ \A i \in 1 .. Len(logs) : logs[i] = s[i].call
              /\ \A i, j \in 1 .. Len(logs) : i < j => s[i].at >= s[j].at
              /\ \A i, j \in 1 .. Len(logs) : s[i] = s[j] => i = j
              /\ \A q \in Q : \E i \in 1 .. Len(logs) : s[i] = q
<1> DEFINE n == Cardinality(Q)
<1>1. n \in Nat
  BY RowsAreFinite, FS_CardinalityType
<1> HIDE DEF n
<1>2. PICK s \in Bijection(1 .. n, Q) :
        /\ \A i, j \in DOMAIN s : i < j => s[i].at >= s[j].at
        /\ logs = [i \in DOMAIN s |-> s[i].call]
  BY DEF Newest, n
<1>3. /\ s \in [1 .. n -> Q] /\ DOMAIN s = 1 .. n
      /\ \A i, j \in 1 .. n : s[i] = s[j] => i = j
      /\ \A q \in Q : \E i \in 1 .. n : s[i] = q
  BY <1>2 DEF Bijection, Injection, Surjection, IsInjective
<1>4. \A i \in 1 .. n : s[i].call \in Call
  BY <1>3 DEF TypeOK, Row
<1>5. logs \in [1 .. n -> Call] /\ \A i \in 1 .. n : logs[i] = s[i].call
  BY <1>2, <1>3, <1>4
<1>6. logs \in Seq(Call) /\ DOMAIN logs = 1 .. n /\ Len(logs) = n
  BY <1>1, <1>5
<1> QED BY <1>1, <1>2, <1>3, <1>5, <1>6

LEMMA NewestLists ==
  ASSUME TypeOK, NEW Q \in SUBSET rows, NEW logs \in Newest(Q)
  PROVE  ToSet(logs) \subseteq {q.call : q \in Q}
<1>1. DOMAIN logs = 1 .. Len(logs)
  BY NewestRows
<1>2. PICK s \in [1 .. Len(logs) -> Q] : \A i \in 1 .. Len(logs) : logs[i] = s[i].call
  BY NewestRows
<1> QED BY <1>1, <1>2 DEF ToSet

(* It repeats what a repeated INSERT has repeated.                          *)
LEMMA NewestRepeats ==
  ASSUME TypeOK, CallsOnce, NEW Q \in SUBSET rows, NEW logs \in Newest(Q)
  PROVE  RepeatsOnly(logs, unsure) /\ ToSet(logs) \subseteq 1 .. made
<1>1. DOMAIN logs = 1 .. Len(logs)
  BY NewestRows
<1>2. PICK s \in [1 .. Len(logs) -> Q] :
        /\ \A i \in 1 .. Len(logs) : logs[i] = s[i].call
        /\ \A i, j \in 1 .. Len(logs) : s[i] = s[j] => i = j
  BY NewestRows
<1>3. \A q \in Q : q \in rows /\ q.call \in 1 .. made
  BY DEF CallsOnce, InRows
<1>4. ToSet(logs) \subseteq 1 .. made
  BY <1>1, <1>2, <1>3 DEF ToSet
<1>5. ASSUME NEW i \in 1 .. Len(logs), NEW j \in 1 .. Len(logs), i # j, logs[i] = logs[j]
      PROVE  logs[i] \in unsure
  <2>1. s[i] # s[j] /\ s[i] \in rows /\ s[j] \in rows /\ s[i].call = s[j].call
    BY <1>2, <1>3, <1>5
  <2> QED BY <1>2, <2>1 DEF CallsOnce
<1> QED BY <1>1, <1>4, <1>5 DEF RepeatsOnly

(* Newer calls stand first, those without a row excepted.                   *)
LEMMA NewestSound ==
  ASSUME TypeOK, NEW Q \in SUBSET rows, NEW logs \in Newest(Q)
  PROVE  SoundBut(logs, (1 .. made) \ {q.call : q \in Q})
<1>1. DOMAIN logs = 1 .. Len(logs) /\ Len(logs) \in Nat
  BY NewestRows
<1>2. PICK s \in [1 .. Len(logs) -> Q] :
        /\ \A i \in 1 .. Len(logs) : logs[i] = s[i].call
        /\ \A i, j \in 1 .. Len(logs) : i < j => s[i].at >= s[j].at
        /\ \A q \in Q : \E i \in 1 .. Len(logs) : s[i] = q
  BY NewestRows
<1>3. ASSUME NEW i \in 1 .. Len(logs), NEW q \in Q, Newer(q.call, logs[i])
      PROVE  \E j \in 1 .. i - 1 : logs[j] = q.call
  <2>1. PICK j \in 1 .. Len(logs) : s[j] = q
    BY <1>2
  <2>2. s[i] \in rows /\ q \in rows /\ s[i].call = logs[i]
    BY <1>2
  <2>3. s[i].at < q.at /\ s[i].at \in Nat /\ q.at \in Nat
    <3>1. s[i].at < q.at
      BY <1>3, <2>2 DEF Newer
    <3>2. s[i] \in Row /\ q \in Row
      BY <2>2 DEF TypeOK
    <3> QED BY <3>1, <3>2 DEF Row, Time
  <2>4. ~(i < j) /\ i # j
    <3>1. ~(s[i].at >= s[j].at)
      BY <2>1, <2>3
    <3>2. ~(i < j)
      BY <1>2, <3>1
    <3> QED BY <2>1, <2>3, <3>2
  <2>5. j \in 1 .. i - 1
    BY <1>1, <2>4
  <2> QED BY <1>2, <2>1, <2>5
<1> QED BY <1>1, <1>3 DEF SoundBut

-------------------------------------------------------------------------------
(* Types                                                                   *)

LEMMA InitInv == Init => IInv
<1> SUFFICES ASSUME Init PROVE IInv
  OBVIOUS
<1>1. InRows = {} /\ InQueue = {} /\ Listed = {} /\ Hands = {} /\ Refilling = {}
  BY DEF Init, InRows, InQueue, Listed, ToSet, Hands, Refilling
<1>2. TypeOK
  <2>1. list \in Seq(Call) /\ rows \subseteq Row /\ queue \in Seq(Call) /\ <<>> \in Seq(Call)
        /\ Len(queue) <= Capacity + WorkerCount
    BY ConstantsAssumption, EmptySeq DEF Init
  <2>2. /\ made \in 0 .. MaxCalls /\ now \in Time /\ mine \in [Requests -> 0 .. MaxCalls]
        /\ tried \in [Call -> 0 .. MaxTries - 1]
    BY ConstantsAssumption DEF Init, Time
  <2> QED BY <2>1, <2>2 DEF Init, TypeOK, Stages
<1>3. CallsOnce
  <2>1. IsInjective(<<>>)
    BY DEF IsInjective
  <2> QED BY <1>1, <2>1 DEF Init, CallsOnce, InHands
<1>4. ListInv
  BY <1>1 DEF Init, ListInv, RefillsFromRows, RefillsApart, RepeatsOnly
<1>5. GapInv
  BY <1>1 DEF Init, GapInv, Sound, SoundBut
<1> QED BY <1>2, <1>3, <1>4, <1>5 DEF IInv

(* A held call is a call.                                                   *)
LEMMA HeldIsCall ==
  ASSUME TypeOK, CallsOnce, NEW r \in Hands
  PROVE  mine[r] \in Call /\ mine[r] \in 1 .. made /\ mine[r] \notin InRows \cup InQueue
<1>1. mine[r] \in InHands
  BY DEF InHands
<1>2. mine[r] \in 1 .. made /\ mine[r] \notin InRows \cup InQueue
  BY <1>1 DEF CallsOnce
<1>3. 1 .. made \subseteq Call
  BY ConstantsAssumption DEF TypeOK, Call
<1> QED BY <1>2, <1>3

LEMMA LeaveTypes ==
  ASSUME TypeOK, NEW r \in Requests, Leave(r)
  PROVE  /\ pc' \in [Requests -> Stages] /\ mine' \in [Requests -> 0 .. MaxCalls]
         /\ got' \in [Requests -> Seq(Call)]
<1>1. 0 \in 0 .. MaxCalls /\ <<>> \in Seq(Call)
  BY ConstantsAssumption, EmptySeq
<1> QED BY <1>1 DEF Leave, Goto, TypeOK, Stages

LEMMA FetchTypes ==
  ASSUME TypeOK, NEW r \in Requests, NEW logs \in Seq(Call), Fetch(r, logs)
  PROVE  /\ pc' \in [Requests -> Stages] /\ got' \in [Requests -> Seq(Call)]
         /\ mixed' \in BOOLEAN
  BY DEF Fetch, Goto, TypeOK, Stages

(* What one attempt at call c of the queue does to it.                      *)
TakesOut(c) == \E i \in 1 .. Len(queue) : queue[i] = c /\ queue' = RemoveAt(queue, i)

Tries(c) ==
  /\ \/ Insert(c) /\ unsure' \in {unsure, unsure \cup {c}}
     \/ UNCHANGED <<rows, unsure>>
  /\ \/ /\ queue' = queue /\ tried[c] + 1 < MaxTries
        /\ tried' = [tried EXCEPT ![c] = @ + 1]
        /\ UNCHANGED rows \/ c \in unsure'
     \/ TakesOut(c) /\ tried' = [tried EXCEPT ![c] = 0]

LEMMA TriesOne ==
  ASSUME TypeOK
  PROVE  /\ WorkerTries => \E c \in InQueue : Tries(c)
         /\ \A c \in InQueue : Tries(c) =>
              /\ c \in Call /\ queue' \in Seq(Call) /\ Len(queue') <= Capacity + WorkerCount
              /\ InQueue' \subseteq InQueue
              /\ IsInjective(queue) => IsInjective(queue')
              /\ IsInjective(queue) /\ TakesOut(c) => c \notin InQueue'
              /\ rows \subseteq rows' /\ rows' \subseteq Row /\ unsure \subseteq unsure'
<1>q. /\ queue \in Seq(Call) /\ Len(queue) \in Nat /\ DOMAIN queue = 1 .. Len(queue)
      /\ \A i \in 1 .. Len(queue) : queue[i] \in Call /\ queue[i] \in InQueue
  BY LenProperties, ElementOfSeq DEF TypeOK, InQueue, ToSet
<1>1. ASSUME WorkerTries PROVE \E c \in InQueue : Tries(c)
  <2>1. PICK i \in 1 .. Len(queue) :
          \/ /\ Insert(queue[i]) /\ UNCHANGED unsure
             /\ queue' = RemoveAt(queue, i) /\ tried' = [tried EXCEPT ![queue[i]] = 0]
          \/ /\ \/ UNCHANGED <<rows, unsure>>
                \/ Insert(queue[i]) /\ unsure' = unsure \cup {queue[i]}
             /\ \/ /\ tried[queue[i]] + 1 < MaxTries
                   /\ tried' = [tried EXCEPT ![queue[i]] = @ + 1] /\ UNCHANGED queue
                \/ queue' = RemoveAt(queue, i) /\ tried' = [tried EXCEPT ![queue[i]] = 0]
    BY <1>1, <1>q DEF WorkerTries
  <2>2. Tries(queue[i])
    BY <2>1 DEF Tries, TakesOut
  <2> QED BY <1>q, <2>2
<1>2. ASSUME NEW c \in InQueue, Tries(c)
      PROVE  /\ c \in Call /\ queue' \in Seq(Call) /\ Len(queue') <= Capacity + WorkerCount
             /\ InQueue' \subseteq InQueue
             /\ IsInjective(queue) => IsInjective(queue')
             /\ IsInjective(queue) /\ TakesOut(c) => c \notin InQueue'
             /\ rows \subseteq rows' /\ rows' \subseteq Row /\ unsure \subseteq unsure'
  <2>c. c \in Call /\ InQueue' = ToSet(queue') /\ Len(queue) <= Capacity + WorkerCount
    BY <1>q DEF InQueue, ToSet, TypeOK
  <2>r. rows \subseteq rows' /\ rows' \subseteq Row /\ unsure \subseteq unsure'
    BY <1>2, <2>c, InsertRow DEF Tries, TypeOK
  <2>1. CASE queue' = queue /\ ~TakesOut(c)
    BY <1>q, <2>c, <2>r, <2>1 DEF InQueue
  <2>2. CASE TakesOut(c)
    <3>1. PICK i \in 1 .. Len(queue) : queue[i] = c /\ queue' = RemoveAt(queue, i)
      BY <2>2 DEF TakesOut
    <3>2. /\ queue' \in Seq(Call) /\ Len(queue') = Len(queue) - 1
          /\ ToSet(queue') \subseteq ToSet(queue)
          /\ (IsInjective(queue) => IsInjective(queue') /\ c \notin ToSet(queue'))
      BY <1>q, <3>1, RemoveAtProperties
    <3>3. Len(queue') <= Capacity + WorkerCount
      BY <1>q, <2>c, <3>2, ConstantsAssumption
    <3> QED BY <2>c, <2>r, <3>2, <3>3 DEF InQueue
  <2> QED BY <1>2, <2>1, <2>2 DEF Tries
<1> QED BY <1>1, <1>2

LEMMA TypeStep == TypeOK /\ CallsOnce /\ [Next]_vars => TypeOK'
<1> SUFFICES ASSUME TypeOK, CallsOnce, [Next]_vars PROVE TypeOK'
  OBVIOUS
<1> USE DEF owed
<1>1. ASSUME NEW r \in Requests, RecordCall(r) PROVE TypeOK'
  <2>1. made' \in 0 .. MaxCalls /\ made' \in Call
    BY <1>1, ConstantsAssumption DEF RecordCall, TypeOK, Call
  <2>2. list' \in Seq(Call)
    <3>1. <<made'>> \in Seq(Call)
      BY <2>1
    <3>2. <<made'>> \o list \in Seq(Call)
      BY <3>1, ConcatProperties DEF TypeOK
    <3> QED BY <1>1, <3>2 DEF RecordCall, TypeOK
  <2>3. pc' \in [Requests -> Stages] /\ mine' \in [Requests -> 0 .. MaxCalls]
    BY <1>1, <2>1 DEF RecordCall, Goto, TypeOK, Stages
  <2>4. hidden' \subseteq Call
    BY <1>1, <2>1 DEF RecordCall, TypeOK
  <2> QED BY <1>1, <2>1, <2>2, <2>3, <2>4 DEF RecordCall, TypeOK
<1>2. ASSUME NEW r \in Requests, TrimLog(r) PROVE TypeOK'
  <2>1. list' \in Seq(Call)
    BY <1>2, ConstantsAssumption, FirstProperties DEF TrimLog, TypeOK
  <2> QED BY <1>2, <2>1 DEF TrimLog, Goto, TypeOK, Stages
<1>3. ASSUME NEW r \in Requests, EnqueueLog(r) PROVE TypeOK'
  <2>1. CASE UNCHANGED queue /\ Goto(r, "record") /\ UNCHANGED <<mine, got>>
    BY <1>3, <2>1 DEF EnqueueLog, Goto, TypeOK, Stages
  <2>2. CASE Len(queue) < Capacity + WorkerCount /\ queue' = Append(queue, mine[r]) /\ Leave(r)
    <3>1. mine[r] \in Call
      BY <1>3, HeldIsCall DEF EnqueueLog, Hands
    <3>2. queue' \in Seq(Call) /\ Len(queue') = Len(queue) + 1 /\ Len(queue) \in Nat
      BY <2>2, <3>1, AppendProperties, LenProperties DEF TypeOK
    <3>3. Len(queue') <= Capacity + WorkerCount
      BY <2>2, <3>2, ConstantsAssumption
    <3> QED BY <1>3, <2>2, <3>2, <3>3, LeaveTypes DEF EnqueueLog, TypeOK
  <2> QED BY <1>3, <2>1, <2>2 DEF EnqueueLog
<1>4. ASSUME NEW r \in Requests, Record(r) PROVE TypeOK'
  <2>1. mine[r] \in Call
    BY <1>4, HeldIsCall DEF Record, Hands
  <2>2. rows' \subseteq Row
    BY <1>4, <2>1, InsertRow DEF Record, TypeOK
  <2> QED BY <1>4, <2>2, LeaveTypes DEF Record, TypeOK
<1>5. ASSUME NEW r \in Requests, ListExists(r) \/ ListRange(r) PROVE TypeOK'
  BY <1>5 DEF ListExists, ListRange, Goto, TypeOK, Stages
<1>fetch. ASSUME NEW r \in Requests,
                 \/ \E logs \in Seq(Call) : Fetch(r, logs)
                 \/ UNCHANGED <<got, mixed>> /\ (UNCHANGED pc \/ Goto(r, "idle")),
                 hidden' \subseteq Call, UNCHANGED <<list, rows, owed, made, now, mine, unsure>>
          PROVE  TypeOK'
  <2>1. pc' \in [Requests -> Stages] /\ got' \in [Requests -> Seq(Call)] /\ mixed' \in BOOLEAN
    BY <1>fetch, FetchTypes DEF TypeOK, Goto, Stages
  <2> QED BY <1>fetch, <2>1 DEF TypeOK
<1>call. 1 .. made \subseteq Call
  BY ConstantsAssumption DEF TypeOK, Call
<1>6. ASSUME NEW r \in Requests, ListFromRows(r) PROVE TypeOK'
  <2>1. \A logs \in Newest(rows), limit \in Limits : First(logs, limit) \in Seq(Call)
    BY ConstantsAssumption, NewestRows, FirstProperties
  <2>2. hidden' \subseteq Call
    BY <1>6, <1>call DEF ListFromRows, TypeOK
  <2> QED BY <1>6, <1>fetch, <2>1, <2>2 DEF ListFromRows
<1>7. ASSUME NEW r \in Requests, QueryByDate(r) PROVE TypeOK'
  <2>1. \A day : \A logs \in Newest(RowsOf(day)) : logs \in Seq(Call)
    BY NewestRows DEF RowsOf
  <2>2. hidden' \subseteq Call
    BY <1>7, <1>call DEF QueryByDate, TypeOK
  <2> QED BY <1>7, <1>fetch, <2>1, <2>2 DEF QueryByDate
<1>8. ASSUME NEW r \in Requests, ClearLogs(r) PROVE TypeOK'
  <2>1. list' \in Seq(Call)
    BY <1>8, EmptySeq DEF ClearLogs, TypeOK
  <2>2. /\ pc' \in [Requests -> Stages] /\ mine' \in [Requests -> 0 .. MaxCalls]
        /\ got' \in [Requests -> Seq(Call)]
    <3>1. CASE Goto(r, "fill") /\ UNCHANGED <<mine, got>>
      BY <3>1 DEF Goto, TypeOK, Stages
    <3> QED BY <1>8, <3>1, LeaveTypes DEF ClearLogs
  <2> QED BY <1>8, <2>1, <2>2 DEF ClearLogs, TypeOK
<1>9. ASSUME NEW r \in Requests, FillLogs(r) PROVE TypeOK'
  <2>1. got[r] \o list \in Seq(Call)
    BY ConcatProperties DEF TypeOK
  <2> QED BY <1>9, <2>1, LeaveTypes DEF FillLogs, TypeOK
<1>10. CASE WorkerTries
  <2>1. PICK c \in InQueue : Tries(c)
    BY <1>10, TriesOne
  <2>2. c \in Call /\ queue' \in Seq(Call) /\ Len(queue') <= Capacity + WorkerCount /\ rows' \subseteq Row
    BY <2>1, TriesOne
  <2>3. unsure' \subseteq Call
    BY <2>1, <2>2 DEF Tries, TypeOK
  <2>4. tried' \in [Call -> 0 .. MaxTries - 1]
    <3>1. tried[c] \in 0 .. MaxTries - 1 /\ 0 \in 0 .. MaxTries - 1 /\ MaxTries \in Nat
      BY <2>2, ConstantsAssumption DEF TypeOK
    <3>2. CASE tried' = [tried EXCEPT ![c] = 0]
      BY <3>1, <3>2 DEF TypeOK
    <3>3. CASE tried[c] + 1 < MaxTries /\ tried' = [tried EXCEPT ![c] = @ + 1]
      <4>1. tried[c] + 1 \in 0 .. MaxTries - 1
        BY <3>1, <3>3
      <4> QED BY <3>3, <4>1 DEF TypeOK
    <3> QED BY <2>1, <3>2, <3>3 DEF Tries
  <2> QED BY <1>10, <2>2, <2>3, <2>4 DEF WorkerTries, TypeOK
<1>11. CASE Tick
  BY <1>11, ConstantsAssumption DEF Tick, TypeOK, Time
<1>12. CASE ListIsLost \/ UNCHANGED vars
  BY <1>12, EmptySeq DEF ListIsLost, vars, TypeOK
<1>13. CASE Restart
  <2>1. /\ pc' \in [Requests -> Stages] /\ mine' \in [Requests -> 0 .. MaxCalls]
        /\ got' \in [Requests -> Seq(Call)] /\ queue' \in Seq(Call)
        /\ Len(queue') <= Capacity + WorkerCount
        /\ tried' \in [Call -> 0 .. MaxTries - 1]
    BY <1>13, ConstantsAssumption, EmptySeq DEF Restart, Stages
  <2> QED BY <1>13, <2>1 DEF Restart, TypeOK
<1>14. CASE CleanupOlderThan
  BY <1>14 DEF CleanupOlderThan, TypeOK, Row
<1> QED
  BY <1>1, <1>2, <1>3, <1>4, <1>5, <1>6, <1>7, <1>8, <1>9, <1>10, <1>11, <1>12, <1>13, <1>14
     DEF Next, Request

-------------------------------------------------------------------------------
(* Each call is in one place.                                              *)

(* Steps that bring no call anywhere.                                       *)
LEMMA OnceStays ==
  ASSUME CallsOnce, UNCHANGED <<queue, made, unsure>>, rows' \subseteq rows,
         \A r \in Hands' : r \in Hands /\ mine'[r] = mine[r]
  PROVE  CallsOnce'
<1>1. InHands' \subseteq InHands /\ InRows' \subseteq InRows /\ InQueue' = InQueue
  BY DEF InHands, InRows, InQueue
<1> QED BY <1>1 DEF CallsOnce

LEMMA OnceStep == TypeOK /\ CallsOnce /\ [Next]_vars => CallsOnce'
<1> SUFFICES ASSUME TypeOK, CallsOnce, [Next]_vars PROVE CallsOnce'
  OBVIOUS
<1> USE DEF owed
<1>pc. pc \in [Requests -> Stages] /\ mine \in [Requests -> 0 .. MaxCalls] /\ made \in Nat
  BY ConstantsAssumption DEF TypeOK
<1>leave. ASSUME NEW r \in Requests, Leave(r)
          PROVE  \A q \in Hands' : q \in Hands \ {r} /\ mine'[q] = mine[q]
  BY <1>pc, <1>leave DEF Leave, Goto, Hands
<1>1. ASSUME NEW r \in Requests, RecordCall(r) PROVE CallsOnce'
  <2>1. /\ made' = made + 1 /\ mine' = [mine EXCEPT ![r] = made + 1]
        /\ UNCHANGED <<rows, queue, unsure>>
        /\ \E to \in {"trim", "record"} : pc' = [pc EXCEPT ![r] = to]
    BY <1>1 DEF RecordCall, Goto
  <2>2. /\ \A q \in Hands' : q = r \/ q \in Hands
        /\ \A q \in Hands : q # r
        /\ \A q \in Requests : mine'[q] = IF q = r THEN made + 1 ELSE mine[q]
    BY <1>1, <1>pc, <2>1 DEF Hands, RecordCall
  <2>3. InHands' \subseteq InHands \cup {made + 1}
    BY <2>2 DEF InHands, Hands
  <2>4. made + 1 \notin 1 .. made /\ 1 .. made \subseteq 1 .. made' /\ made + 1 \in 1 .. made'
    BY <1>pc, <2>1
  <2>5. InRows' = InRows /\ InQueue' = InQueue
    BY <2>1 DEF InRows, InQueue
  <2>6. \A p, q \in Hands' : mine'[p] = mine'[q] => p = q
    <3>1. \A q \in Hands : mine[q] # made + 1
      BY <2>4 DEF CallsOnce, InHands
    <3> QED BY <2>2, <3>1 DEF CallsOnce, Hands
  <2> QED BY <2>1, <2>3, <2>4, <2>5, <2>6 DEF CallsOnce
<1>2. ASSUME NEW r \in Requests, EnqueueLog(r) PROVE CallsOnce'
  <2>1. r \in Hands /\ UNCHANGED <<rows, made, unsure>>
    BY <1>2 DEF EnqueueLog, Hands
  <2>2. CASE UNCHANGED queue /\ Goto(r, "record") /\ UNCHANGED <<mine, got>>
    BY <1>pc, <2>1, <2>2, OnceStays DEF Goto, Hands
  <2>3. CASE queue' = Append(queue, mine[r]) /\ Leave(r)
    <3>1. mine[r] \in Call \ InQueue /\ mine[r] \in 1 .. made /\ mine[r] \notin InRows
      BY <2>1, HeldIsCall
    <3>2. InQueue' = InQueue \cup {mine[r]} /\ IsInjective(queue)'
      BY <2>3, <3>1, ToSetAppend, AppendNewInjective DEF InQueue, TypeOK, CallsOnce
    <3>3. InHands' \subseteq InHands \ {mine[r]}
      BY <1>leave, <2>1, <2>3 DEF InHands, CallsOnce
    <3>4. InRows' = InRows
      BY <2>1 DEF InRows
    <3>5. \A p, q \in Hands' : mine'[p] = mine'[q] => p = q
      BY <1>leave, <2>3 DEF CallsOnce
    <3> QED BY <2>1, <3>1, <3>2, <3>3, <3>4, <3>5 DEF CallsOnce
  <2> QED BY <1>2, <2>2, <2>3 DEF EnqueueLog
<1>3. ASSUME NEW r \in Requests, Record(r) PROVE CallsOnce'
  <2>1. r \in Hands /\ UNCHANGED <<queue, made, unsure>> /\ Leave(r)
    BY <1>3 DEF Record, Hands
  <2>2. CASE UNCHANGED rows
    BY <1>leave, <2>1, <2>2, OnceStays
  <2>3. CASE Insert(mine[r])
    <3>1. mine[r] \in Call /\ mine[r] \in 1 .. made /\ mine[r] \notin InRows \cup InQueue
      BY <2>1, HeldIsCall
    <3>2. /\ InRows' = InRows \cup {mine[r]}
          /\ \A p, q \in rows' : p # q /\ p.call = q.call => p.call \in unsure
      BY <2>3, <3>1, InsertRow DEF CallsOnce
    <3>3. InHands' \subseteq InHands \ {mine[r]}
      BY <1>leave, <2>1 DEF InHands, CallsOnce
    <3>4. InQueue' = InQueue
      BY <2>1 DEF InQueue
    <3>5. \A p, q \in Hands' : mine'[p] = mine'[q] => p = q
      BY <1>leave, <2>1 DEF CallsOnce
    <3> QED BY <2>1, <3>1, <3>2, <3>3, <3>4, <3>5 DEF CallsOnce
  <2> QED BY <1>3, <2>2, <2>3 DEF Record
<1>4. CASE WorkerTries
  <2>1. PICK c \in InQueue : Tries(c)
    BY <1>4, TriesOne
  <2>2. /\ c \in Call /\ InQueue' \subseteq InQueue /\ IsInjective(queue')
        /\ (TakesOut(c) => c \notin InQueue')
    BY <2>1, TriesOne DEF CallsOnce
  <2>3. InHands' = InHands /\ Hands' = Hands /\ UNCHANGED <<made, mine>>
    BY <1>4 DEF WorkerTries, InHands, Hands
  <2>4. CASE UNCHANGED <<rows, unsure>>
    <3>1. InRows' = InRows
      BY <2>4 DEF InRows
    <3> QED BY <2>2, <2>3, <2>4, <3>1 DEF CallsOnce
  <2>5. CASE Insert(c) /\ unsure' \in {unsure, unsure \cup {c}}
    <3>1. c \in InRows => c \in unsure
      BY <2>1 DEF CallsOnce
    <3>2. /\ InRows' = InRows \cup {c}
          /\ \A p, q \in rows' : p # q /\ p.call = q.call => p.call \in unsure'
      BY <2>2, <2>5, <3>1, InsertRow DEF CallsOnce
    <3>3. CASE TakesOut(c)
      BY <2>1, <2>2, <2>3, <2>5, <3>2, <3>3 DEF CallsOnce
    <3>4. CASE UNCHANGED rows \/ c \in unsure'
      <4>1. c \in InRows' \cap InQueue' => c \in unsure'
        <5>1. UNCHANGED rows => InRows' = InRows
          BY DEF InRows
        <5> QED BY <2>5, <3>1, <3>4, <5>1
      <4> QED BY <2>1, <2>2, <2>3, <2>5, <3>2, <4>1 DEF CallsOnce
    <3> QED BY <2>1, <3>3, <3>4 DEF Tries
  <2> QED BY <2>1, <2>4, <2>5 DEF Tries
<1>5. ASSUME NEW r \in Requests, TrimLog(r) \/ ListExists(r) \/ ListRange(r) PROVE CallsOnce'
  <2>1. \A q \in Hands' : q \in Hands
    BY <1>5, <1>pc DEF TrimLog, ListExists, ListRange, Goto, Hands
  <2> QED BY <1>5, <2>1, OnceStays DEF TrimLog, ListExists, ListRange
<1>6. ASSUME NEW r \in Requests, ListFromRows(r) \/ QueryByDate(r) PROVE CallsOnce'
  <2>1. \A q \in Hands' : q \in Hands
    BY <1>6, <1>pc DEF ListFromRows, QueryByDate, Fetch, Goto, Hands
  <2> QED BY <1>6, <2>1, OnceStays DEF ListFromRows, QueryByDate
<1>7. ASSUME NEW r \in Requests, ClearLogs(r) \/ FillLogs(r) PROVE CallsOnce'
  <2>1. \A q \in Hands' : q \in Hands /\ mine'[q] = mine[q]
    <3>1. CASE Goto(r, "fill") /\ UNCHANGED <<mine, got>>
      BY <1>pc, <3>1 DEF Goto, Hands
    <3> QED BY <1>7, <1>leave, <3>1 DEF ClearLogs, FillLogs
  <2> QED BY <1>7, <2>1, OnceStays DEF ClearLogs, FillLogs
<1>8. CASE CleanupOlderThan \/ Tick \/ ListIsLost \/ UNCHANGED vars
  BY <1>8, OnceStays DEF CleanupOlderThan, Tick, ListIsLost, vars, Hands
<1>9. CASE Restart
  <2>1. /\ Hands' = {} /\ InHands' = {} /\ InQueue' = {} /\ queue' = <<>>
        /\ UNCHANGED <<rows, made, unsure>>
    BY <1>9 DEF Restart, Hands, InHands, InQueue, ToSet
  <2>2. InRows' = InRows /\ IsInjective(queue')
    BY <2>1 DEF InRows, IsInjective
  <2> QED BY <2>1, <2>2 DEF CallsOnce
<1> QED
  BY <1>1, <1>2, <1>3, <1>4, <1>5, <1>6, <1>7, <1>8, <1>9 DEF Next, Request

-------------------------------------------------------------------------------
(* No call is listed twice.                                                *)

(* Steps that list nothing and fetch nothing.                               *)
LEMMA ListStays ==
  ASSUME ListInv, Listed' \subseteq Listed,
         RepeatsOnly(list, unsure) => RepeatsOnly(list', unsure),
         1 .. made \subseteq 1 .. made', unsure \subseteq unsure', mixed => mixed',
         \A r \in Refilling' : r \in Refilling /\ got'[r] = got[r],
         \A r \in Requests : pc'[r] = "fill" => pc[r] = "fill" \/ Listed' = {}
  PROVE  ListInv'
<1>1. (Listed \subseteq 1 .. made)' /\ RefillsFromRows'
  BY RepeatsMore DEF ListInv, RefillsFromRows
<1>2. CASE mixed
  BY <1>1, <1>2 DEF ListInv, RefillsApart
<1>3. CASE ~mixed
  <2>1. /\ \A p, q \in Refilling : p = q
        /\ \A r \in Requests : pc[r] = "fill" => Listed \cap ToSet(got[r]) = {}
        /\ RepeatsOnly(list, unsure)
    BY <1>3 DEF ListInv, RefillsApart
  <2>2. \A p, q \in Refilling' : p = q
    BY <2>1
  <2>3. ASSUME NEW r \in Requests, pc'[r] = "fill" PROVE Listed' \cap ToSet(got'[r]) = {}
    <3>1. r \in Refilling' /\ got'[r] = got[r]
      BY <2>3 DEF Refilling
    <3> QED BY <2>1, <2>3, <3>1
  <2>4. RepeatsOnly(list', unsure')
    BY <2>1, RepeatsMore
  <2>5. RefillsApart'
    BY <2>2, <2>3, <2>4 DEF RefillsApart, ToSet, RepeatsOnly
  <2> QED BY <1>1, <2>5 DEF ListInv
<1> QED BY <1>2, <1>3

(* A refill that has fetched what it will put into the list.                *)
LEMMA ListFetched ==
  ASSUME TypeOK, ListInv, NEW r \in Requests, r \notin Refilling, NEW logs \in Seq(Call),
         RepeatsOnly(logs, unsure), ToSet(logs) \subseteq 1 .. made,
         Fetch(r, logs), UNCHANGED <<list, made, unsure>>
  PROVE  ListInv'
<1>1. /\ pc' = [pc EXCEPT ![r] = "clear"] /\ got' = [got EXCEPT ![r] = logs]
      /\ pc \in [Requests -> Stages] /\ got \in [Requests -> Seq(Call)]
  BY DEF Fetch, Goto, TypeOK
<1>2. Refilling' = Refilling \cup {r}
  BY <1>1 DEF Refilling
<1>3. Listed' = Listed
  BY DEF Listed
<1>4. \A q \in Requests : got'[q] = IF q = r THEN logs ELSE got[q]
  BY <1>1
<1>5. RefillsFromRows'
  BY <1>2, <1>4 DEF ListInv, RefillsFromRows, Refilling
<1>6. RefillsApart'
  <2>1. CASE mixed \/ Refilling # {}
    BY <2>1 DEF Fetch, RefillsApart
  <2>2. CASE ~mixed /\ Refilling = {}
    <3>1. \A p, q \in Refilling' : p = q
      BY <1>2, <2>2
    <3>2. \A q \in Requests : pc'[q] # "fill"
      BY <1>1, <2>2 DEF Refilling
    <3>3. RepeatsOnly(list, unsure)'
      BY <2>2 DEF ListInv, RefillsApart
    <3> QED BY <3>1, <3>2, <3>3 DEF RefillsApart
  <2> QED BY <2>1, <2>2
<1> QED BY <1>3, <1>5, <1>6 DEF ListInv

LEMMA ListStep == TypeOK /\ CallsOnce /\ ListInv /\ [Next]_vars => ListInv'
<1> SUFFICES ASSUME TypeOK, CallsOnce, ListInv, [Next]_vars PROVE ListInv'
  OBVIOUS
<1> USE DEF owed
<1>t. /\ pc \in [Requests -> Stages] /\ got \in [Requests -> Seq(Call)] /\ list \in Seq(Call)
      /\ made \in Nat /\ made' \in {made, made + 1}
      /\ 1 .. made \subseteq 1 .. made'
  <2>1. made \in Nat
    BY ConstantsAssumption DEF TypeOK
  <2>2. made' \in {made, made + 1}
    BY DEF Next, vars, Request, RecordCall, TrimLog, EnqueueLog, Record, ListExists, ListRange,
           ListFromRows, QueryByDate, ClearLogs, FillLogs, WorkerTries, CleanupOlderThan, Tick,
           ListIsLost, Restart
  <2>3. 1 .. made \subseteq 1 .. made + 1
    BY <2>1
  <2> QED BY <2>1, <2>2, <2>3 DEF TypeOK
<1>leave. ASSUME NEW r \in Requests, Leave(r)
          PROVE  /\ \A q \in Refilling' : q \in Refilling \ {r} /\ got'[q] = got[q]
                 /\ \A q \in Requests : pc'[q] = "fill" => pc[q] = "fill" /\ q # r
  BY <1>t, <1>leave DEF Leave, Goto, Refilling
<1>stay. ASSUME UNCHANGED list
         PROVE  Listed' = Listed /\ (RepeatsOnly(list, unsure) => RepeatsOnly(list', unsure))
  BY <1>stay DEF Listed
<1>1. ASSUME NEW r \in Requests, RecordCall(r) PROVE ListInv'
  <2>1. CASE UNCHANGED list
    <3>1. /\ \A q \in Refilling' : q \in Refilling /\ got'[q] = got[q]
          /\ \A q \in Requests : pc'[q] = "fill" => pc[q] = "fill"
          /\ UNCHANGED <<mixed, unsure>>
      BY <1>t, <1>1 DEF RecordCall, Goto, Refilling
    <3> QED BY <1>t, <1>stay, <2>1, <3>1, ListStays
  <2>2. CASE list' = <<made'>> \o list
    <3>1. /\ made' = made + 1 /\ UNCHANGED <<got, mixed, unsure>> /\ made' \in Call
          /\ \E to \in {"trim", "record"} : pc' = [pc EXCEPT ![r] = to]
          /\ pc[r] = "idle"
      BY <1>1, ConstantsAssumption DEF RecordCall, Goto, TypeOK, Call
    <3>2. Refilling' = Refilling /\ \A q \in Requests : pc'[q] = "fill" <=> pc[q] = "fill"
      BY <1>t, <3>1 DEF Refilling
    <3>4. <<made'>> \in Seq(Call) /\ ToSet(<<made'>>) = {made'} /\ RepeatsOnly(<<made'>>, unsure)
      BY <3>1 DEF ToSet, RepeatsOnly
    <3>5. Listed' = {made'} \cup Listed
      <4> DEFINE new == <<made'>>
      <4>0. new \in Seq(Call) /\ list \in Seq(Call)
        BY <1>t, <3>4
      <4> HIDE DEF new
      <4>1. ToSet(new \o list) = ToSet(new) \cup ToSet(list)
        BY <4>0, ToSetConcat
      <4>2. Listed' = ToSet(list')
        BY DEF Listed, ToSet
      <4> QED BY <2>2, <3>4, <4>1, <4>2 DEF Listed, new
    <3>6. made' \notin Listed /\ made' \notin 1 .. made /\ made' \in 1 .. made'
      <4>1. made' \notin 1 .. made /\ made' \in 1 .. made'
        BY <1>t, <3>1
      <4> QED BY <4>1 DEF ListInv
    <3>7. RepeatsOnly(list, unsure) => RepeatsOnly(list', unsure)
      BY <1>t, <2>2, <3>4, <3>6, ConcatRepeats DEF Listed
    <3>8. (Listed \subseteq 1 .. made)' /\ RefillsFromRows'
      BY <1>t, <3>1, <3>2, <3>5, <3>6 DEF ListInv, RefillsFromRows
    <3>9. RefillsApart'
      <4>1. \A q \in Refilling : made' \notin ToSet(got[q])
        BY <3>6 DEF ListInv, RefillsFromRows
      <4>2. \A q \in Requests : pc[q] = "fill" => q \in Refilling
        BY DEF Refilling
      <4>3. CASE mixed
        BY <3>1, <4>3 DEF RefillsApart
      <4>4. CASE ~mixed
        BY <3>1, <3>2, <3>5, <3>7, <4>1, <4>2, <4>4 DEF ListInv, RefillsApart
      <4> QED BY <4>3, <4>4
    <3> QED BY <3>8, <3>9 DEF ListInv
  <2> QED BY <1>1, <2>1, <2>2 DEF RecordCall
<1>2. ASSUME NEW r \in Requests, TrimLog(r) PROVE ListInv'
  <2>1. Listed' \subseteq Listed /\ (RepeatsOnly(list, unsure) => RepeatsOnly(list', unsure))
    BY <1>t, <1>2, ConstantsAssumption, FirstProperties DEF TrimLog, Listed
  <2>2. /\ \A q \in Refilling' : q \in Refilling /\ got'[q] = got[q]
        /\ \A q \in Requests : pc'[q] = "fill" => pc[q] = "fill"
        /\ UNCHANGED <<mixed, unsure>>
    BY <1>t, <1>2 DEF TrimLog, Goto, Refilling
  <2> QED BY <1>t, <2>1, <2>2, ListStays
<1>3. ASSUME NEW r \in Requests, EnqueueLog(r) \/ ListExists(r) \/ ListRange(r) PROVE ListInv'
  <2>1. UNCHANGED <<list, mixed, unsure>>
    BY <1>3 DEF EnqueueLog, ListExists, ListRange
  <2>2. /\ \A q \in Refilling' : q \in Refilling /\ got'[q] = got[q]
        /\ \A q \in Requests : pc'[q] = "fill" => pc[q] = "fill"
    <3>1. CASE Leave(r)
      BY <1>leave, <3>1
    <3>2. CASE UNCHANGED got /\ \E to \in {"record", "range", "readRows", "idle"} : Goto(r, to)
      BY <1>t, <3>2 DEF Goto, Refilling
    <3> QED BY <1>3, <3>1, <3>2 DEF EnqueueLog, ListExists, ListRange
  <2> QED BY <1>t, <1>stay, <2>1, <2>2, ListStays
<1>4. ASSUME NEW r \in Requests, Record(r) PROVE ListInv'
  BY <1>t, <1>4, <1>stay, <1>leave, ListStays DEF Record
<1>5. ASSUME NEW r \in Requests, ListFromRows(r) PROVE ListInv'
  <2>1. UNCHANGED <<list, made, unsure>> /\ r \notin Refilling
    BY <1>5 DEF ListFromRows, Refilling
  <2>2. CASE \E logs \in Newest(rows), limit \in Limits : Fetch(r, First(logs, limit))
    <3>1. PICK logs \in Newest(rows), limit \in Limits : Fetch(r, First(logs, limit))
      BY <2>2
    <3>2. /\ limit \in Nat /\ logs \in Seq(Call)
          /\ RepeatsOnly(logs, unsure) /\ ToSet(logs) \subseteq 1 .. made
      BY ConstantsAssumption, NewestRows, NewestRepeats
    <3>3. /\ First(logs, limit) \in Seq(Call) /\ RepeatsOnly(First(logs, limit), unsure)
          /\ ToSet(First(logs, limit)) \subseteq 1 .. made
      BY <3>2, FirstProperties
    <3> QED BY <2>1, <3>1, <3>3, ListFetched
  <2>3. CASE Goto(r, "idle") /\ UNCHANGED <<got, mixed>>
    <3>1. /\ \A q \in Refilling' : q \in Refilling /\ got'[q] = got[q]
          /\ \A q \in Requests : pc'[q] = "fill" => pc[q] = "fill"
      BY <1>t, <2>1, <2>3 DEF Goto, Refilling
    <3> QED BY <1>t, <1>stay, <2>1, <2>3, <3>1, ListStays
  <2> QED BY <1>5, <2>2, <2>3 DEF ListFromRows
<1>6. ASSUME NEW r \in Requests, QueryByDate(r) PROVE ListInv'
  <2>1. UNCHANGED <<list, made, unsure>> /\ r \notin Refilling
    BY <1>6 DEF QueryByDate, Refilling
  <2>2. CASE \E day : \E logs \in Newest(RowsOf(day)) : Fetch(r, logs)
    <3>1. PICK day : \E logs \in Newest(RowsOf(day)) : Fetch(r, logs)
      BY <2>2
    <3>2. RowsOf(day) \subseteq rows
      BY DEF RowsOf
    <3> QED BY <2>1, <3>1, <3>2, NewestRows, NewestRepeats, ListFetched
  <2>3. CASE UNCHANGED <<pc, got, mixed>>
    <3>1. /\ \A q \in Refilling' : q \in Refilling /\ got'[q] = got[q]
          /\ \A q \in Requests : pc'[q] = "fill" => pc[q] = "fill"
      BY <2>1, <2>3 DEF Refilling
    <3> QED BY <1>t, <1>stay, <2>1, <2>3, <3>1, ListStays
  <2> QED BY <1>6, <2>2, <2>3 DEF QueryByDate
<1>7. ASSUME NEW r \in Requests, ClearLogs(r) PROVE ListInv'
  <2>1. r \in Refilling /\ UNCHANGED <<unsure, made, mixed>> /\ pc[r] = "clear"
    BY <1>7 DEF ClearLogs, Refilling
  <2>3. CASE list' = <<>>
    <3>1. Listed' = {} /\ RepeatsOnly(list', unsure)
      BY <2>3 DEF Listed, ToSet, RepeatsOnly
    <3>2. \A q \in Refilling' : q \in Refilling /\ got'[q] = got[q]
      <4>1. CASE Goto(r, "fill") /\ UNCHANGED <<mine, got>>
        BY <1>t, <2>1, <4>1 DEF Goto, Refilling
      <4> QED BY <1>7, <1>leave, <4>1 DEF ClearLogs
    <3> QED BY <1>t, <2>1, <3>1, <3>2, ListStays
  <2>4. CASE Leave(r) /\ UNCHANGED list
    BY <1>t, <1>stay, <1>leave, <2>1, <2>4, ListStays
  <2> QED BY <1>7, <2>3, <2>4 DEF ClearLogs
<1>8. ASSUME NEW r \in Requests, FillLogs(r) PROVE ListInv'
  <2>1. r \in Refilling /\ UNCHANGED <<unsure, made, mixed>> /\ pc[r] = "fill" /\ Leave(r)
    BY <1>8 DEF FillLogs, Refilling
  <2>3. CASE UNCHANGED list
    BY <1>t, <1>stay, <1>leave, <2>1, <2>3, ListStays
  <2>4. CASE list' = got[r] \o list
    <3>1. got[r] \in Seq(Call) /\ RepeatsOnly(got[r], unsure) /\ ToSet(got[r]) \subseteq 1 .. made
      BY <1>t, <2>1 DEF ListInv, RefillsFromRows
    <3>2. Listed' = ToSet(got[r]) \cup Listed
      BY <1>t, <2>4, <3>1, ToSetConcat DEF Listed
    <3>3. (Listed \subseteq 1 .. made)'
      BY <1>t, <2>1, <3>1, <3>2 DEF ListInv
    <3>4. RefillsFromRows'
      BY <1>leave, <2>1 DEF ListInv, RefillsFromRows
    <3>5. RefillsApart'
      <4>1. CASE mixed
        BY <2>1, <4>1 DEF RefillsApart
      <4>2. CASE ~mixed
        <5>1. /\ \A q \in Refilling : q = r
              /\ Listed \cap ToSet(got[r]) = {} /\ RepeatsOnly(list, unsure)
          BY <2>1, <4>2 DEF ListInv, RefillsApart
        <5>2. Refilling' = {} /\ \A q \in Requests : pc'[q] # "fill"
          BY <1>leave, <2>1, <5>1 DEF Refilling
        <5>3. RepeatsOnly(list', unsure)
          BY <1>t, <2>4, <3>1, <5>1, ConcatRepeats DEF Listed
        <5> QED BY <2>1, <5>2, <5>3 DEF RefillsApart
      <4> QED BY <4>1, <4>2
    <3> QED BY <3>3, <3>4, <3>5 DEF ListInv
  <2> QED BY <1>8, <2>3, <2>4 DEF FillLogs
<1>9. CASE WorkerTries
  <2>1. unsure \subseteq unsure'
    BY <1>9, TriesOne
  <2>2. UNCHANGED <<list, pc, got, mixed>>
    BY <1>9 DEF WorkerTries
  <2> QED BY <1>t, <1>stay, <2>1, <2>2, ListStays DEF Refilling
<1>10. CASE CleanupOlderThan \/ Tick \/ ListIsLost \/ UNCHANGED vars
  <2>1. UNCHANGED <<pc, got, mixed, unsure>> /\ (UNCHANGED list \/ list' = <<>>)
    BY <1>10 DEF CleanupOlderThan, Tick, ListIsLost, vars
  <2>2. Listed' \subseteq Listed /\ (RepeatsOnly(list, unsure) => RepeatsOnly(list', unsure))
    BY <2>1 DEF Listed, ToSet, RepeatsOnly
  <2> QED BY <1>t, <2>1, <2>2, ListStays DEF Refilling
<1>11. CASE Restart
  <2>1. /\ UNCHANGED <<list, mixed, unsure>> /\ Refilling' = {}
        /\ \A q \in Requests : pc'[q] # "fill"
    BY <1>11 DEF Restart, Refilling
  <2> QED BY <1>t, <1>stay, <2>1, ListStays
<1> QED
  BY <1>1, <1>2, <1>3, <1>4, <1>5, <1>6, <1>7, <1>8, <1>9, <1>10, <1>11 DEF Next, Request

-------------------------------------------------------------------------------
(* No gap without a cause.                                                 *)

(* Rows that are added make no call newer than another; rows that are        *)
(* deleted give their calls a cause.                                       *)
NewerHasCause == \A c, d : Newer(d, c)' => Newer(d, c) \/ d \in hidden'

LEMMA RowsGrow == ASSUME rows \subseteq rows' PROVE NewerHasCause
BY DEF NewerHasCause, Newer

LEMMA RowsGo == ASSUME TypeOK, CleanupOlderThan PROVE NewerHasCause
<1> SUFFICES ASSUME NEW c, NEW d, Newer(d, c)', ~Newer(d, c) PROVE d \in hidden'
  BY DEF NewerHasCause
<1>1. PICK p \in rows, q \in rows : p.call = c /\ q.call = d /\ ~(p.at < q.at)
  BY DEF Newer
<1>2. ~(p \in rows' /\ q \in rows')
  BY <1>1 DEF Newer
<1>3. p.at \in Nat /\ q.at \in Nat /\ now \in Nat /\ Retention \in Nat
  BY ConstantsAssumption DEF TypeOK, Row, Time
<1>4. rows' = {row \in rows : row.at + Retention >= now}
  BY DEF CleanupOlderThan
<1>5. q \in rows \ rows'
  BY <1>1, <1>2, <1>3, <1>4
<1> QED BY <1>1, <1>5 DEF CleanupOlderThan

LEMMA SoundStays ==
  ASSUME NEW s, Sound(s), NewerHasCause,
         hidden \subseteq hidden', \A d \in 1 .. made' : d \in 1 .. made \/ d \in hidden',
         NEW i \in DOMAIN s, NEW d \in 1 .. made', NEW c, c = s[i], Newer(d, c)', d \notin hidden'
  PROVE  \E j \in 1 .. i - 1 : s[j] = d
BY DEF Sound, SoundBut, NewerHasCause, Newer

(* Steps that leave the list as it is, or empty it, and fetch nothing.      *)
LEMMA GapStays ==
  ASSUME GapInv, NewerHasCause,
         hidden \subseteq hidden', \A d \in 1 .. made' : d \in 1 .. made \/ d \in hidden',
         UNCHANGED list \/ list' = <<>>,
         \A r \in Refilling' : r \in Refilling /\ got'[r] = got[r]
  PROVE  GapInv'
<1>1. Sound(list)'
  <2>1. CASE UNCHANGED list
    <3>1. ASSUME NEW i \in DOMAIN list, NEW d \in 1 .. made', NEW c, c = list[i],
                 Newer(d, c)', d \notin hidden'
          PROVE  \E j \in 1 .. i - 1 : list[j] = d
      BY <3>1, SoundStays DEF GapInv
    <3> QED BY <2>1, <3>1 DEF Sound, SoundBut, Newer
  <2>2. CASE list' = <<>>
    BY <2>2 DEF Sound, SoundBut
  <2> QED BY <2>1, <2>2
<1>2. ASSUME NEW r \in Refilling' PROVE Sound(got[r])'
  <2>1. r \in Refilling /\ got'[r] = got[r] /\ Sound(got[r])
    BY DEF GapInv
  <2>2. ASSUME NEW i \in DOMAIN got[r], NEW d \in 1 .. made', NEW c, c = got[r][i],
               Newer(d, c)', d \notin hidden'
        PROVE  \E j \in 1 .. i - 1 : got[r][j] = d
    BY <2>1, <2>2, SoundStays
  <2> QED BY <2>1, <2>2 DEF Sound, SoundBut, Newer
<1> QED BY <1>1, <1>2 DEF GapInv

(* Steps that change the list only.                                        *)
LEMMA GapListed ==
  ASSUME GapInv, Sound(list'), UNCHANGED <<rows, made, hidden>>,
         \A r \in Refilling' : r \in Refilling /\ got'[r] = got[r]
  PROVE  GapInv'
<1>1. Sound(list)'
  BY DEF Sound, SoundBut, Newer
<1>2. ASSUME NEW r \in Refilling' PROVE Sound(got[r])'
  BY DEF GapInv, Sound, SoundBut, Newer
<1> QED BY <1>1, <1>2 DEF GapInv

(* A fetch, of which d is missing only when it is hidden.                   *)
LEMMA GapFetched ==
  ASSUME TypeOK, GapInv, NEW r \in Requests, NEW logs, Fetch(r, logs),
         UNCHANGED <<list, rows, made>>, hidden \subseteq hidden', SoundBut(logs, hidden')
  PROVE  GapInv'
<1>1. /\ pc' = [pc EXCEPT ![r] = "clear"] /\ got' = [got EXCEPT ![r] = logs]
      /\ pc \in [Requests -> Stages] /\ got \in [Requests -> Seq(Call)]
  BY DEF Fetch, Goto, TypeOK
<1>2. Sound(list)'
  BY DEF GapInv, Sound, SoundBut, Newer
<1>3. ASSUME NEW q \in Refilling' PROVE Sound(got[q])'
  <2>1. q \in Requests
    BY DEF Refilling
  <2>2. CASE q = r
    <3>1. got'[q] = logs
      BY <1>1, <2>2
    <3> QED BY <3>1 DEF Sound, SoundBut, Newer
  <2>3. CASE q # r
    <3>1. got'[q] = got[q] /\ q \in Refilling
      BY <1>1, <2>1, <2>3 DEF Refilling
    <3> QED BY <3>1 DEF GapInv, Sound, SoundBut, Newer
  <2> QED BY <2>2, <2>3
<1> QED BY <1>2, <1>3 DEF GapInv

LEMMA PrefixSound ==
  ASSUME NEW s \in Seq(Call), NEW H, SoundBut(s, H), NEW n \in Nat
  PROVE  SoundBut(First(s, n), H)
<1> DEFINE part == First(s, n)
<1>1. /\ part \in Seq(Call) /\ Len(part) \in 0 .. Len(s) /\ Len(s) \in Nat
      /\ \A i \in 1 .. Len(part) : part[i] = s[i]
  BY FirstProperties, LenProperties
<1>2. DOMAIN part = 1 .. Len(part) /\ DOMAIN s = 1 .. Len(s)
  BY <1>1, LenProperties
<1> HIDE DEF part
<1>3. ASSUME NEW i \in DOMAIN part, NEW d \in 1 .. made, Newer(d, part[i]), d \notin H
      PROVE  \E j \in 1 .. i - 1 : part[j] = d
  <2>1. i \in DOMAIN s /\ part[i] = s[i] /\ i \in 1 .. Len(part)
    BY <1>1, <1>2
  <2>2. PICK j \in 1 .. i - 1 : s[j] = d
    BY <1>3, <2>1 DEF SoundBut
  <2>3. j \in 1 .. Len(part)
    BY <1>1, <2>1
  <2> QED BY <1>1, <2>2, <2>3
<1> QED BY <1>3 DEF SoundBut, part

LEMMA ConcatSound ==
  ASSUME TypeOK, NEW s \in Seq(Call), Sound(s), Sound(list) PROVE Sound(s \o list)
<1> DEFINE both == s \o list
<1>1. /\ Len(s) \in Nat /\ Len(list) \in Nat
      /\ DOMAIN s = 1 .. Len(s) /\ DOMAIN list = 1 .. Len(list)
      /\ DOMAIN both = 1 .. Len(s) + Len(list)
      /\ \A i \in 1 .. Len(s) + Len(list) :
           both[i] = IF i <= Len(s) THEN s[i] ELSE list[i - Len(s)]
  BY ConcatProperties, LenProperties DEF TypeOK
<1> HIDE DEF both
<1>2. ASSUME NEW i \in DOMAIN both, NEW d \in 1 .. made, Newer(d, both[i]), d \notin hidden
      PROVE  \E j \in 1 .. i - 1 : both[j] = d
  <2>1. i \in 1 .. Len(s) + Len(list)
    BY <1>1
  <2>2. CASE i <= Len(s)
    <3>1. i \in DOMAIN s /\ both[i] = s[i]
      BY <1>1, <2>1, <2>2
    <3>2. PICK j \in 1 .. i - 1 : s[j] = d
      BY <1>2, <3>1 DEF Sound, SoundBut
    <3>3. both[j] = s[j]
      BY <1>1, <2>1, <2>2
    <3> QED BY <3>2, <3>3
  <2>3. CASE i > Len(s)
    <3>1. i - Len(s) \in DOMAIN list /\ both[i] = list[i - Len(s)]
      BY <1>1, <2>1, <2>3
    <3>2. PICK j \in 1 .. (i - Len(s)) - 1 : list[j] = d
      BY <1>2, <3>1 DEF Sound, SoundBut
    <3>3. Len(s) + j \in 1 .. i - 1 /\ Len(s) + j \in 1 .. Len(s) + Len(list) /\ ~(Len(s) + j <= Len(s))
          /\ (Len(s) + j) - Len(s) = j
      BY <1>1, <2>1, <3>1
    <3>4. both[Len(s) + j] = list[j]
      BY <1>1, <3>3
    <3> QED BY <3>2, <3>3, <3>4
  <2> QED BY <1>1, <2>1, <2>2, <2>3
<1> QED BY <1>2 DEF Sound, SoundBut, both

LEMMA GapStep == TypeOK /\ CallsOnce /\ GapInv /\ [Next]_vars => GapInv'
<1> SUFFICES ASSUME TypeOK, CallsOnce, GapInv, [Next]_vars PROVE GapInv'
  OBVIOUS
<1> USE DEF owed
<1>rows. rows' = rows => NewerHasCause
  BY RowsGrow
<1>t. /\ pc \in [Requests -> Stages] /\ got \in [Requests -> Seq(Call)] /\ list \in Seq(Call)
      /\ made \in Nat
  BY ConstantsAssumption DEF TypeOK
<1>leave. ASSUME NEW r \in Requests, Leave(r)
          PROVE  \A q \in Refilling' : q \in Refilling /\ got'[q] = got[q]
  BY <1>t, <1>leave DEF Leave, Goto, Refilling
<1>goto. ASSUME NEW r \in Requests, NEW to \in Stages \ {"clear", "fill"}, Goto(r, to), UNCHANGED got
         PROVE  \A q \in Refilling' : q \in Refilling /\ got'[q] = got[q]
  BY <1>t, <1>goto DEF Goto, Refilling
<1>fill. ASSUME NEW r \in Refilling, Goto(r, "fill"), UNCHANGED got
         PROVE  \A q \in Refilling' : q \in Refilling /\ got'[q] = got[q]
  BY <1>t, <1>fill DEF Goto, Refilling
<1>1. ASSUME NEW r \in Requests, RecordCall(r) PROVE GapInv'
  <2>1. /\ made' = made + 1 /\ UNCHANGED <<rows, got>> /\ hidden \subseteq hidden'
        /\ made' \in 1 .. made'
        /\ \A d \in 1 .. made' : d \in 1 .. made \/ d = made'
    BY <1>t, <1>1 DEF RecordCall
  <2>2. \A q \in Refilling' : q \in Refilling /\ got'[q] = got[q]
    BY <1>1, <1>goto DEF RecordCall, Stages
  <2>3. CASE UNCHANGED list /\ made' \in hidden'
    BY <1>rows, <2>1, <2>2, <2>3, GapStays
  <2>4. CASE list' = <<made'>> \o list
    <3> DEFINE c == made + 1
               new == <<c>> \o list
    <3>1. /\ Len(new) = Len(list) + 1 /\ Len(list) \in Nat
          /\ DOMAIN list = 1 .. Len(list) /\ DOMAIN new = 1 .. Len(list) + 1
          /\ new[1] = c /\ \A i \in 2 .. Len(list) + 1 : new[i] = list[i - 1]
      <4>1. c \in Call
        BY <1>1, ConstantsAssumption DEF RecordCall, TypeOK, Call
      <4>2. list \in Seq(Call) /\ <<c>> \in Seq(Call) /\ Len(<<c>>) = 1 /\ <<c>>[1] = c
        BY <1>t, <4>1
      <4>3. /\ new \in Seq(Call) /\ Len(new) = 1 + Len(list)
            /\ \A i \in 1 .. 1 + Len(list) : new[i] = IF i <= 1 THEN <<c>>[i] ELSE list[i - 1]
        BY <4>2, ConcatProperties
      <4>4. Len(list) \in Nat /\ DOMAIN list = 1 .. Len(list) /\ DOMAIN new = 1 .. Len(new)
        BY <4>2, <4>3, LenProperties
      <4> QED BY <4>2, <4>3, <4>4
    <3> HIDE DEF new
    <3>2. ASSUME NEW i \in DOMAIN new, NEW d \in 1 .. made', NEW x, x = new[i],
                 Newer(d, x)', d \notin hidden'
          PROVE  \E j \in 1 .. i - 1 : new[j] = d
      <4>1. i \in 2 .. Len(list) + 1 /\ new[i] = list[i - 1] /\ i - 1 \in DOMAIN list
        <5>1. i # 1
          BY <1>t, <2>1, <3>1, <3>2 DEF Newer
        <5> QED BY <3>1, <5>1
      <4>2. CASE d = made'
        <5>1. 1 \in 1 .. i - 1 /\ new[1] = d
          BY <2>1, <3>1, <4>1, <4>2
        <5> QED BY <5>1
      <4>3. CASE d \in 1 .. made
        <5>1. Newer(d, list[i - 1]) /\ d \notin hidden
          BY <2>1, <3>2, <4>1 DEF Newer
        <5>2. PICK j \in 1 .. (i - 1) - 1 : list[j] = d
          BY <4>1, <4>3, <5>1 DEF GapInv, Sound, SoundBut
        <5>3. j + 1 \in 1 .. i - 1 /\ j + 1 \in 2 .. Len(list) + 1 /\ (j + 1) - 1 = j
          BY <3>1, <4>1
        <5>4. new[j + 1] = d
          BY <3>1, <5>2, <5>3
        <5> QED BY <5>3, <5>4
      <4> QED BY <2>1, <4>2, <4>3
    <3>3. Sound(list)'
      <4>1. list' = new
        BY <2>1, <2>4 DEF new
      <4> QED BY <3>2, <4>1 DEF Sound, SoundBut, Newer
    <3>4. ASSUME NEW q \in Refilling' PROVE Sound(got[q])'
      <4>1. made' \in hidden'
        BY <1>1, <2>2 DEF RecordCall
      <4>2. q \in Refilling /\ got'[q] = got[q]
        BY <2>2
      <4>3. ASSUME NEW i \in DOMAIN got[q], NEW d \in 1 .. made', NEW x, x = got[q][i],
                   Newer(d, x)', d \notin hidden'
            PROVE  \E j \in 1 .. i - 1 : got[q][j] = d
        BY <1>rows, <2>1, <4>1, <4>2, <4>3, SoundStays DEF GapInv
      <4> QED BY <4>2, <4>3 DEF Sound, SoundBut, Newer
    <3> QED BY <3>3, <3>4 DEF GapInv
  <2>5. UNCHANGED list => made' \in hidden'
    <3>1. Len(list) \in Nat /\ Len(<<made'>> \o list) # Len(list)
      <4>1. list \in Seq(Call) /\ <<made'>> \in Seq(Call) /\ Len(<<made'>>) = 1
        <5>1. made' \in Call
          BY <1>1, ConstantsAssumption DEF RecordCall, TypeOK, Call
        <5> QED BY <1>t, <5>1
      <4> QED BY <4>1, ConcatProperties, LenProperties
    <3>2. UNCHANGED list => Goto(r, "record")
      BY <1>1, <3>1 DEF RecordCall
    <3>3. Goto(r, "record") => pc'[r] = "record"
      BY <1>t DEF Goto
    <3> QED BY <1>1, <3>2, <3>3 DEF RecordCall
  <2> QED BY <1>1, <2>3, <2>4, <2>5 DEF RecordCall
<1>2. ASSUME NEW r \in Requests, TrimLog(r) PROVE GapInv'
  <2>1. SoundBut(list', hidden)
    BY <1>t, <1>2, PrefixSound, ConstantsAssumption DEF TrimLog, GapInv, Sound
  <2> QED BY <1>2, <1>goto, <2>1, GapListed DEF TrimLog, Stages, Sound
<1>3. ASSUME NEW r \in Requests, EnqueueLog(r) \/ ListExists(r) \/ ListRange(r) PROVE GapInv'
  <2>1. UNCHANGED <<list, rows, made, hidden>>
    BY <1>3 DEF EnqueueLog, ListExists, ListRange
  <2>2. \A q \in Refilling' : q \in Refilling /\ got'[q] = got[q]
    BY <1>3, <1>leave, <1>goto DEF EnqueueLog, ListExists, ListRange, Stages
  <2> QED BY <1>rows, <2>1, <2>2, GapStays
<1>4. ASSUME NEW r \in Requests, Record(r) PROVE GapInv'
  <2>1. rows \subseteq rows'
    <3>1. mine[r] \in Call
      BY <1>4, HeldIsCall DEF Record, Hands
    <3> QED BY <1>4, <3>1, InsertRow DEF Record
  <2> QED BY <1>4, <1>leave, <2>1, RowsGrow, GapStays DEF Record
<1>5. ASSUME NEW r \in Requests, ListFromRows(r) PROVE GapInv'
  <2>1. /\ UNCHANGED <<list, rows, made>>
        /\ hidden' = hidden \cup ((1 .. made) \ InRows)
    BY <1>5 DEF ListFromRows
  <2>2. CASE \E logs \in Newest(rows), limit \in Limits : Fetch(r, First(logs, limit))
    <3>1. PICK logs \in Newest(rows), limit \in Limits : Fetch(r, First(logs, limit))
      BY <2>2
    <3>2. limit \in Nat /\ logs \in Seq(Call)
      BY ConstantsAssumption, NewestRows
    <3>3. SoundBut(logs, (1 .. made) \ InRows)
      BY NewestSound DEF InRows
    <3>4. SoundBut(First(logs, limit), hidden')
      <4>1. SoundBut(First(logs, limit), (1 .. made) \ InRows)
        BY <3>2, <3>3, PrefixSound
      <4> QED BY <2>1, <4>1 DEF SoundBut
    <3> QED BY <2>1, <3>1, <3>4, GapFetched
  <2>3. CASE Goto(r, "idle") /\ UNCHANGED <<got, mixed>>
    BY <1>rows, <1>goto, <2>1, <2>3, GapStays DEF Stages
  <2> QED BY <1>5, <2>2, <2>3 DEF ListFromRows
<1>6. ASSUME NEW r \in Requests, QueryByDate(r) PROVE GapInv'
  <2>1. /\ UNCHANGED <<list, rows, made>>
        /\ hidden' = hidden \cup ((1 .. made) \ ToSet(got'[r]))
    BY <1>6 DEF QueryByDate
  <2>2. CASE \E day : \E logs \in Newest(RowsOf(day)) : Fetch(r, logs)
    <3>1. PICK day : \E logs \in Newest(RowsOf(day)) : Fetch(r, logs)
      BY <2>2
    <3>2. PICK logs \in Newest(RowsOf(day)) : Fetch(r, logs)
      BY <3>1
    <3>3. RowsOf(day) \subseteq rows
      BY DEF RowsOf
    <3>4. SoundBut(logs, (1 .. made) \ {q.call : q \in RowsOf(day)})
      BY <3>3, NewestSound
    <3>5. ToSet(logs) \subseteq {q.call : q \in RowsOf(day)}
      BY <3>3, NewestLists
    <3>6. got'[r] = logs
      BY <1>t, <3>2 DEF Fetch
    <3>7. SoundBut(logs, hidden')
      BY <2>1, <3>4, <3>5, <3>6 DEF SoundBut
    <3> QED BY <2>1, <3>2, <3>7, GapFetched
  <2>3. CASE UNCHANGED <<pc, got, mixed>>
    BY <1>rows, <2>1, <2>3, GapStays DEF Refilling
  <2> QED BY <1>6, <2>2, <2>3 DEF QueryByDate
<1>7. ASSUME NEW r \in Requests, ClearLogs(r) PROVE GapInv'
  <2>1. \A q \in Refilling' : q \in Refilling /\ got'[q] = got[q]
    <3>1. r \in Refilling
      BY <1>7 DEF ClearLogs, Refilling
    <3> QED BY <1>7, <1>leave, <1>fill, <3>1 DEF ClearLogs
  <2> QED BY <1>7, <1>rows, <2>1, GapStays DEF ClearLogs
<1>8. ASSUME NEW r \in Requests, FillLogs(r) PROVE GapInv'
  <2>1. \A q \in Refilling' : q \in Refilling /\ got'[q] = got[q]
    BY <1>8, <1>leave DEF FillLogs
  <2>2. Sound(list')
    <3>1. r \in Refilling /\ got[r] \in Seq(Call)
      BY <1>t, <1>8 DEF FillLogs, Refilling
    <3>2. Sound(list) /\ Sound(got[r] \o list)
      BY <3>1, ConcatSound DEF GapInv
    <3> QED BY <1>8, <3>2 DEF FillLogs
  <2> QED BY <1>8, <2>1, <2>2, GapListed DEF FillLogs
<1>9. CASE WorkerTries
  <2>1. rows \subseteq rows'
    BY <1>9, TriesOne
  <2> QED BY <1>9, <2>1, RowsGrow, GapStays DEF WorkerTries, Refilling
<1>10. CASE Tick \/ ListIsLost \/ UNCHANGED vars
  BY <1>10, <1>rows, GapStays DEF Tick, ListIsLost, vars, Refilling
<1>11. CASE Restart
  BY <1>11, <1>rows, GapStays DEF Restart, Refilling
<1>12. CASE CleanupOlderThan
  BY <1>12, RowsGo, GapStays DEF CleanupOlderThan, Refilling
<1> QED
  BY <1>1, <1>2, <1>3, <1>4, <1>5, <1>6, <1>7, <1>8, <1>9, <1>10, <1>11, <1>12 DEF Next, Request

-------------------------------------------------------------------------------
(* The inductive invariant holds in every reachable state.                  *)
THEOREM Invariance == Spec => []IInv
<1>1. IInv /\ [Next]_vars => IInv'
  BY TypeStep, OnceStep, ListStep, GapStep DEF IInv
<1> QED BY InitInv, <1>1, PTL DEF Spec

(* The variables have their types, and the queue never holds more than its  *)
(* channel and its workers can: a call that finds it full goes to MySQL.    *)
THEOREM TypeCorrect == Spec => []TypeOK
<1>1. IInv => TypeOK
  BY DEF IInv
<1> QED BY Invariance, <1>1, PTL

(* AppendLog and SetRecentLogs list no call twice, whatever Redis lost or    *)
(* answered with an error, unless two refills overlapped or the queue has   *)
(* repeated an INSERT of it that had landed.                                *)
THEOREM LoggedOnce == Spec => []NoLogTwice
<1>1. IInv => NoLogTwice
  BY DEF IInv, ListInv, RefillsApart, NoLogTwice
<1> QED BY Invariance, <1>1, PTL

(* What the list leaves out of the calls that are newer than one it holds   *)
(* was refused by Redis, owed to MySQL when the list was refilled, pushed   *)
(* during a refill, left out by a query of another day, or deleted by the   *)
(* cleanup; calls written in one second are not newer than each other.      *)
THEOREM GapsHaveCauses == Spec => []GapHasCause
<1>1. IInv => GapHasCause
  <2> SUFFICES ASSUME IInv, NEW c \in ToSet(list), NEW d \in 1 .. made, Newer(d, c)
               PROVE  d \in ToSet(list) \cup hidden
    BY DEF GapHasCause
  <2>1. list \in Seq(Call) /\ Len(list) \in Nat /\ DOMAIN list = 1 .. Len(list)
    BY LenProperties DEF IInv, TypeOK
  <2>2. PICK i \in 1 .. Len(list) : list[i] = c
    BY <2>1 DEF ToSet
  <2>3. d \notin hidden => \E j \in 1 .. i - 1 : list[j] = d
    BY <2>1, <2>2 DEF IInv, GapInv, Sound, SoundBut
  <2>4. \A j \in 1 .. i - 1 : j \in DOMAIN list
    BY <2>1
  <2> QED BY <2>3, <2>4 DEF ToSet
<1> QED BY Invariance, <1>1, PTL
===============================================================================
