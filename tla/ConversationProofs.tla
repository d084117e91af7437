-------------------------- MODULE ConversationProofs --------------------------
(***************************************************************************)
(* For any set of requests, any limits, any window and any length of time:  *)
(* what the Redis list and the MySQL row of a conversation may repeat, miss *)
(* and bring back.                                                         *)
(***************************************************************************)
EXTENDS Conversation, SequenceLemmas, SequenceTheorems, TLAPS

(* The batches between the Redis list and the row: the queue owes them, or  *)
(* their requests hold them.                                               *)
Hands    == {r \in Requests : pc[r] \in {"enqueue", "sync"}}
InHands  == {Current(r) : r \in Hands}
InQueue  == ToSet(queue)
OnItsWay == InQueue \cup InHands
InRead   == ToSet(Batches(sweep.read))

(* What the place of a request says of its batch and of what it saw.        *)
StagesInv ==
  \A r \in Requests :
    /\ pc[r] \in {"new", "exists", "range", "readDb", "refill", "fill"} => count[r] = 1
    /\ pc[r] = "ask" => count[r] <= MaxRounds
    /\ pc[r] \in {"new", "append", "enqueue", "sync", "exists", "range", "readDb"} => saw[r] = <<>>

(* What is stored or on its way has been born, and no batch is born twice.  *)
BirthInv ==
  /\ \A b \in Born : born[b] <= now
  /\ \A r \in Requests, n \in 1 .. MaxRounds + 1 :
       n > count[r] \/ (n = count[r] /\ pc[r] \in {"new", "append"}) => <<r, n>> \notin Born
  /\ OnItsWay \cup InDb \cup InRead \cup InList \cup cleared \cup unsure \subseteq Born

(* A batch is on its way in one place.  Only a batch of which a write has   *)
(* landed unanswered is still on its way while the row has it, or what the  *)
(* cleanup has read and may write back; and only such batches repeat.       *)
PlacesInv ==
  /\ IsInjective(queue) /\ InQueue \cap InHands = {}
  /\ OnItsWay \cap (InDb \cup InRead) \subseteq unsure
  /\ RepeatsOnly(Batches(db), unsure) /\ RepeatsOnly(Batches(sweep.read), unsure)

(* Refills that do not overlap find nothing of what they bring.             *)
RefillInv ==
  /\ \A r \in Requests :
       pc[r] \in {"refill", "fill"} => RepeatsOnly(saw[r], unsure) /\ ToSet(saw[r]) \subseteq Born
  /\ \/ mixed
     \/ /\ RepeatsOnly(list, unsure)
        /\ \A p, q \in Requests : pc[p] = "fill" /\ pc[q] = "fill" => p = q
        /\ \A r \in Requests : pc[r] = "fill" => ToSet(saw[r]) \cap InList = {}

(* A stored entry is not older than its batch, and the row not older than   *)
(* its entries.                                                            *)
StampInv ==
  /\ updated <= now
  /\ \A e \in ToSet(db) : born[e.batch] <= e.at /\ e.at <= updated
  /\ \A e \in ToSet(sweep.read) : born[e.batch] <= e.at /\ e.at <= now

IInv == TypeOK /\ StagesInv /\ BirthInv /\ PlacesInv /\ RefillInv /\ StampInv /\ NothingForgotten

(* Without a cleanup.                                                       *)
ResetInv == /\ ~sweep.busy /\ sweep.read = <<>>
            /\ (InDb \cup OnItsWay) \cap cleared \subseteq unsure

(* While Redis serves every command and nobody resets.                      *)
HealthyInv ==
  /\ \A r \in Requests :
       ~late[r] /\ pc[r] \notin {"readDb", "refill", "fill", "clearList", "clearDb", "gone"}
  /\ touched <= now /\ \A b \in Born : born[b] <= touched
  /\ \A b \in Born : Recent(b) => b \in InList
  /\ \A r \in Requests : Active(r) => began[r] <= now /\ now < began[r] + Window
  /\ \A r \in Requests : pc[r] \in {"enqueue", "sync", "exists", "range"} /\ count[r] = 1 =>
       <<r, 1>> \in Born /\ began[r] <= born[<<r, 1>>]

-------------------------------------------------------------------------------
(* Entries, pruning and the transaction of AppendMessages.                  *)

LEMMA BatchesProperties ==
  ASSUME NEW s \in Seq(Entry)
  PROVE  /\ Batches(s) \in Seq(Batch) /\ Len(Batches(s)) = Len(s) /\ Len(s) \in Nat
         /\ DOMAIN Batches(s) = 1 .. Len(s) /\ DOMAIN s = 1 .. Len(s)
         /\ \A i \in 1 .. Len(s) : Batches(s)[i] = s[i].batch /\ s[i] \in Entry
         /\ ToSet(Batches(s)) = {e.batch : e \in ToSet(s)}
         /\ ToSet(s) \subseteq Entry
<1>1. Len(s) \in Nat /\ DOMAIN s = 1 .. Len(s) /\ \A i \in 1 .. Len(s) : s[i] \in Entry
  BY ElementOfSeq, LenProperties
<1>2. \A i \in 1 .. Len(s) : s[i].batch \in Batch
  BY <1>1 DEF Entry
<1>3. Batches(s) \in [1 .. Len(s) -> Batch] /\ \A i \in 1 .. Len(s) : Batches(s)[i] = s[i].batch
  BY <1>1, <1>2 DEF Batches
<1>4. ToSet(Batches(s)) = {e.batch : e \in ToSet(s)} /\ ToSet(s) \subseteq Entry
  BY <1>1, <1>3 DEF ToSet
<1> QED BY <1>1, <1>3, <1>4

LEMMA PruneProperties ==
  ASSUME NEW s \in Seq(Entry), NEW cutoff
  PROVE  /\ Prune(s, cutoff) \in Seq(Entry)
         /\ ToSet(Prune(s, cutoff)) = {e \in ToSet(s) : e.at >= cutoff}
         /\ \A U : RepeatsOnly(Batches(s), U) => RepeatsOnly(Batches(Prune(s, cutoff)), U)
<1> DEFINE K == {e \in Entry : e.at >= cutoff}
           t == Select(s, K)
<1> HIDE DEF K
<1>1. t \in Seq(Entry) /\ ToSet(t) = ToSet(s) \cap K
  BY SelectElements
<1>2. ToSet(t) = {e \in ToSet(s) : e.at >= cutoff}
  BY <1>1, BatchesProperties DEF K
<1>at. Places(t, s, Len(s), K) # {}
  BY SelectPlaces
<1> HIDE DEF t
<1>3. PICK at \in [1 .. Len(t) -> 1 .. Len(s)] :
        /\ \A k \in 1 .. Len(t) : t[k] = s[at[k]] /\ s[at[k]] \in K
        /\ \A k, l \in 1 .. Len(t) : k < l => at[k] < at[l]
  BY <1>at DEF Places
<1>4. ASSUME NEW U, RepeatsOnly(Batches(s), U), NEW k \in 1 .. Len(t), NEW l \in 1 .. Len(t),
             k # l, Batches(t)[k] = Batches(t)[l]
      PROVE  Batches(t)[k] \in U
  <2>1. Len(s) \in Nat /\ Len(t) \in Nat /\ at[k] \in 1 .. Len(s) /\ at[l] \in 1 .. Len(s)
    BY <1>1, <1>3, LenProperties
  <2>2. Batches(s)[at[k]] = Batches(s)[at[l]] /\ Batches(s)[at[k]] = Batches(t)[k]
    <3>1. Batches(t)[k] = t[k].batch /\ Batches(t)[l] = t[l].batch
      BY <1>1, BatchesProperties
    <3>2. Batches(s)[at[k]] = s[at[k]].batch /\ Batches(s)[at[l]] = s[at[l]].batch
      BY <2>1, BatchesProperties
    <3> QED BY <1>3, <1>4, <3>1, <3>2
  <2>3. at[k] # at[l]
    <3>1. k < l \/ l < k
      BY <1>4, <2>1
    <3> QED BY <1>3, <2>1, <3>1
  <2> QED BY <1>4, <2>1, <2>2, <2>3, BatchesProperties DEF RepeatsOnly
<1>5. \A U : RepeatsOnly(Batches(s), U) => RepeatsOnly(Batches(t), U)
  BY <1>1, <1>4, BatchesProperties DEF RepeatsOnly
<1> QED BY <1>1, <1>2, <1>5 DEF Prune, t, K

LEMMA CutoffProperties ==
  ASSUME TypeOK
  PROVE  /\ Cutoff \in Time /\ Cutoff <= now /\ now \in Nat
         /\ \A t \in Nat : t < Cutoff => t + Window < now
  BY ConstantsAssumption DEF TypeOK, Cutoff, Time

(* The transaction of AppendMessages.                                       *)
LEMMA AppendedRow ==
  ASSUME TypeOK, NEW b \in Batch, AppendDb(b)
  PROVE  /\ db' \in Seq(Entry) /\ updated' = now
         /\ ToSet(db') \subseteq ToSet(db) \cup {[batch |-> b, at |-> now]}
         /\ \A e \in ToSet(db) : e.at >= Cutoff => e \in ToSet(db')
         /\ b \in InDb' /\ InDb' \subseteq InDb \cup {b}
         /\ \A U : RepeatsOnly(Batches(db), U) /\ (b \in InDb => b \in U) =>
                   RepeatsOnly(Batches(db'), U)
<1> DEFINE e0 == [batch |-> b, at |-> now]
           s  == Append(db, e0)
<1>1. db \in Seq(Entry) /\ e0 \in Entry
  BY DEF TypeOK, Entry
<1>2. s \in Seq(Entry) /\ ToSet(s) = ToSet(db) \cup {e0}
  BY <1>1, ToSetAppend, AppendProperties
<1>3. /\ Len(s) = Len(db) + 1 /\ Len(db) \in Nat /\ s[Len(db) + 1] = e0
      /\ \A i \in 1 .. Len(db) : s[i] = db[i]
  BY <1>1, AppendProperties, LenProperties
<1>4. ASSUME NEW U PROVE RepeatsOnly(Batches(db), U) /\ (b \in InDb => b \in U) => RepeatsOnly(Batches(s), U)
  <2>1. ASSUME RepeatsOnly(Batches(db), U), b \in InDb => b \in U PROVE RepeatsOnly(Batches(s), U)
    <3>1. Batches(db) \in Seq(Batch) /\ Append(Batches(db), b) \in Seq(Batch)
          /\ Len(Append(Batches(db), b)) = Len(db) + 1
          /\ \A i \in 1 .. Len(db) : Append(Batches(db), b)[i] = db[i].batch
          /\ Append(Batches(db), b)[Len(db) + 1] = b
      BY <1>1, BatchesProperties, AppendProperties
    <3>2. Batches(s) \in Seq(Batch) /\ Len(Batches(s)) = Len(db) + 1
          /\ \A i \in 1 .. Len(db) + 1 : Batches(s)[i] = s[i].batch
      BY <1>2, <1>3, BatchesProperties
    <3>3. \A i \in 1 .. Len(db) + 1 : Batches(s)[i] = Append(Batches(db), b)[i]
      BY <1>3, <3>1, <3>2
    <3>4. Batches(s) = Append(Batches(db), b)
      BY <3>1, <3>2, <3>3, SeqEqual
    <3>5. RepeatsOnly(Append(Batches(db), b), U)
      BY <2>1, <3>1, AppendRepeats DEF InDb
    <3> QED BY <3>4, <3>5
  <2> QED BY <2>1
<1>5. db' = Prune(s, Cutoff) /\ updated' = now
  BY DEF AppendDb
<1> HIDE DEF s
<1>6. db' \in Seq(Entry) /\ ToSet(db') = {e \in ToSet(s) : e.at >= Cutoff}
      /\ \A U : RepeatsOnly(Batches(s), U) => RepeatsOnly(Batches(db'), U)
  BY <1>2, <1>5, PruneProperties
<1>7. e0 \in ToSet(db') /\ e0.batch = b
  BY <1>2, <1>6, CutoffProperties, ConstantsAssumption DEF TypeOK, Time
<1>8. InDb' = {e.batch : e \in ToSet(db')} /\ InDb = {e.batch : e \in ToSet(db)}
  <2>1. InDb' = ToSet(Batches(db'))
    BY DEF InDb, Batches, ToSet
  <2> QED BY <1>1, <1>6, <2>1, BatchesProperties DEF InDb
<1>9. b \in InDb' /\ InDb' \subseteq InDb \cup {b}
  BY <1>2, <1>6, <1>7, <1>8
<1> QED BY <1>2, <1>4, <1>5, <1>6, <1>9

LEMMA CurrentIsBatch == ASSUME TypeOK, NEW r \in Requests PROVE Current(r) \in Batch
  BY DEF TypeOK, Current, Batch

(* Where Continue leads.                                                    *)
LEMMA Continues ==
  ASSUME TypeOK, NEW r \in Requests, Continue(r)
  PROVE  \E to \in {"exists", "ask", "ended"} :
           /\ pc' = [pc EXCEPT ![r] = to]
           /\ to = "exists" => count[r] = 1
           /\ to = "ask" => count[r] <= MaxRounds
<1>1. count[r] \in 1 .. MaxRounds + 1
  BY DEF TypeOK
<1>2. CASE count[r] = 1
  BY <1>2 DEF Continue, Goto
<1>3. CASE count[r] # 1 /\ (final[r] \/ count[r] > MaxRounds)
  BY <1>3 DEF Continue, Goto
<1>4. CASE count[r] # 1 /\ ~(final[r] \/ count[r] > MaxRounds)
  BY <1>1, <1>4, ConstantsAssumption DEF Continue, Goto
<1> QED BY <1>2, <1>3, <1>4

-------------------------------------------------------------------------------
(* Types and stages.                                                       *)

LEMMA GotoStage ==
  ASSUME TypeOK, NEW r \in Requests, NEW to \in Stages, Goto(r, to)
  PROVE  pc' \in [Requests -> Stages] /\ pc'[r] = to /\ \A q \in Requests \ {r} : pc'[q] = pc[q]
  BY DEF TypeOK, Goto

LEMMA PushTypes ==
  ASSUME TypeOK, NEW b \in Batch, Push(b)
  PROVE  list' \in Seq(Batch) /\ touched' \in Time /\ InList' = InList \cup {b}
<1>1. list \in Seq(Batch) /\ Append(list, b) \in Seq(Batch)
  BY AppendProperties DEF TypeOK
<1>2. ToSet(Append(list, b)) = ToSet(list) \cup {b}
  BY <1>1, ToSetAppend
<1> QED BY <1>1, <1>2 DEF Push, TypeOK, InList, ToSet

(* What one attempt at batch b of the queue does to it.                     *)
TakesOut(b) == \E i \in 1 .. Len(queue) : queue[i] = b /\ queue' = RemoveAt(queue, i)

Tries(b) ==
  /\ \/ AppendDb(b) /\ unsure' \in {unsure, unsure \cup {b}}
     \/ UNCHANGED <<mysql, unsure>>
  /\ \/ queue' = queue /\ lost' = lost /\ tried[b] + 1 < MaxTries
        /\ tried' = [tried EXCEPT ![b] = @ + 1]
        /\ (UNCHANGED mysql \/ b \in unsure')
     \/ /\ tried' = [tried EXCEPT ![b] = 0]
        /\ \/ lost' = lost \cup {b}
           \/ AppendDb(b) /\ lost' = lost
        /\ TakesOut(b)

LEMMA TriesOne ==
  ASSUME TypeOK
  PROVE  /\ WorkerTries => \E b \in InQueue : Tries(b)
         /\ \A b \in InQueue : Tries(b) =>
              /\ b \in Batch /\ queue' \in Seq(Batch) /\ Len(queue') <= Capacity + WorkerCount
              /\ InQueue' \subseteq InQueue /\ InQueue \ {b} \subseteq InQueue'
              /\ IsInjective(queue) => IsInjective(queue')
              /\ IsInjective(queue) /\ TakesOut(b) => b \notin InQueue'
<1>q. /\ queue \in Seq(Batch) /\ Len(queue) \in Nat /\ DOMAIN queue = 1 .. Len(queue)
      /\ \A i \in 1 .. Len(queue) : queue[i] \in Batch /\ queue[i] \in InQueue
  BY LenProperties, ElementOfSeq DEF TypeOK, InQueue, ToSet
<1>1. ASSUME WorkerTries PROVE \E b \in InQueue : Tries(b)
  <2>1. PICK i \in 1 .. Len(queue) :
          /\ \/ /\ AppendDb(queue[i])
                /\ queue' = RemoveAt(queue, i) /\ tried' = [tried EXCEPT ![queue[i]] = 0]
                /\ UNCHANGED <<unsure, lost>>
             \/ /\ \/ UNCHANGED <<mysql, unsure>>
                   \/ AppendDb(queue[i]) /\ unsure' = unsure \cup {queue[i]}
                /\ \/ /\ tried[queue[i]] + 1 < MaxTries
                      /\ tried' = [tried EXCEPT ![queue[i]] = @ + 1] /\ UNCHANGED <<queue, lost>>
                   \/ /\ queue' = RemoveAt(queue, i) /\ tried' = [tried EXCEPT ![queue[i]] = 0]
                      /\ lost' = lost \cup {queue[i]}
    BY <1>1, <1>q DEF WorkerTries
  <2>2. Tries(queue[i])
    BY <2>1 DEF Tries, TakesOut
  <2> QED BY <1>q, <2>2
<1>2. ASSUME NEW b \in InQueue, Tries(b)
      PROVE  /\ b \in Batch /\ queue' \in Seq(Batch) /\ Len(queue') <= Capacity + WorkerCount
             /\ InQueue' \subseteq InQueue /\ InQueue \ {b} \subseteq InQueue'
             /\ IsInjective(queue) => IsInjective(queue')
             /\ IsInjective(queue) /\ TakesOut(b) => b \notin InQueue'
  <2>b. b \in Batch /\ InQueue' = ToSet(queue') /\ Len(queue) <= Capacity + WorkerCount
    BY <1>q DEF InQueue, ToSet, TypeOK
  <2>1. CASE queue' = queue /\ ~TakesOut(b)
    BY <1>q, <2>b, <2>1 DEF InQueue
  <2>2. CASE TakesOut(b)
    <3>1. PICK i \in 1 .. Len(queue) : queue[i] = b /\ queue' = RemoveAt(queue, i)
      BY <2>2 DEF TakesOut
    <3>2. /\ queue' \in Seq(Batch) /\ Len(queue') = Len(queue) - 1
          /\ ToSet(queue) \ {b} \subseteq ToSet(queue') /\ ToSet(queue') \subseteq ToSet(queue)
          /\ (IsInjective(queue) => IsInjective(queue') /\ b \notin ToSet(queue'))
      BY <1>q, <3>1, RemoveAtProperties
    <3>3. Len(queue') <= Capacity + WorkerCount
      BY <1>q, <2>b, <3>2, ConstantsAssumption
    <3> QED BY <2>b, <3>2, <3>3 DEF InQueue
  <2> QED BY <1>2, <2>1, <2>2 DEF Tries
<1> QED BY <1>1, <1>2

LEMMA TypeStep == TypeOK /\ StagesInv /\ [Next]_vars => TypeOK'
<1> SUFFICES ASSUME TypeOK, StagesInv, [Next]_vars PROVE TypeOK'
  OBVIOUS
<1> USE DEF redis, mysql, owed, request, past
<1>empty. <<>> \in Seq(Batch) /\ <<>> \in Seq(Entry)
  BY EmptySeq
<1>continue. ASSUME NEW r \in Requests, Continue(r) PROVE pc' \in [Requests -> Stages]
  <2>1. PICK to \in {"exists", "ask", "ended"} : pc' = [pc EXCEPT ![r] = to]
    BY <1>continue, Continues
  <2> QED BY <2>1 DEF TypeOK, Stages
<1>1. ASSUME NEW r \in Requests, Begin(r) PROVE TypeOK'
  <2>1. pc' \in [Requests -> Stages]
    BY <1>1, GotoStage DEF Begin, Stages
  <2>2. began' \in [Requests -> Time] /\ before' \in [Requests -> SUBSET Batch]
    BY <1>1 DEF Begin, TypeOK, Born
  <2> QED BY <1>1, <2>1, <2>2 DEF Begin, TypeOK
<1>2. ASSUME NEW r \in Requests, AppendToList(r) PROVE TypeOK'
  <2>1. pc' \in [Requests -> Stages]
    BY <1>2, GotoStage DEF AppendToList, Stages
  <2>2. list' \in Seq(Batch) /\ touched' \in Time
    BY <1>2, CurrentIsBatch, PushTypes DEF AppendToList, TypeOK
  <2>3. born' \in [Batch -> 0 .. Unborn]
    <3>1. now \in 0 .. Unborn
      BY ConstantsAssumption DEF TypeOK, Unborn, Time
    <3> QED BY <1>2, <3>1 DEF AppendToList, TypeOK
  <2> QED BY <1>2, <2>1, <2>2, <2>3 DEF AppendToList, TypeOK
<1>3. ASSUME NEW r \in Requests, Enqueue(r) PROVE TypeOK'
  <2>1. pc' \in [Requests -> Stages]
    BY <1>3, <1>continue, GotoStage DEF Enqueue, Stages
  <2>2. queue' \in Seq(Batch) /\ Len(queue') <= Capacity + WorkerCount
    <3>1. CASE UNCHANGED queue
      BY <3>1 DEF TypeOK
    <3>2. CASE Len(queue) < Capacity + WorkerCount /\ queue' = Append(queue, Current(r))
      <4>1. queue \in Seq(Batch) /\ Len(queue) \in Nat /\ Current(r) \in Batch
        BY CurrentIsBatch, LenProperties DEF TypeOK
      <4>2. queue' \in Seq(Batch) /\ Len(queue') = Len(queue) + 1
        BY <3>2, <4>1, AppendProperties
      <4> QED BY <3>2, <4>1, <4>2, ConstantsAssumption
    <3> QED BY <1>3, <3>1, <3>2 DEF Enqueue
  <2> QED BY <1>3, <2>1, <2>2 DEF Enqueue, TypeOK
<1>row. ASSUME NEW b \in Batch,
               \/ AppendDb(b) /\ UNCHANGED lost
               \/ lost' = lost \cup {b} /\ UNCHANGED mysql
        PROVE  db' \in Seq(Entry) /\ updated' \in Time /\ lost' \subseteq Batch
  BY <1>row, AppendedRow DEF TypeOK
<1>4. ASSUME NEW r \in Requests, SyncWrite(r) PROVE TypeOK'
  <2>1. db' \in Seq(Entry) /\ updated' \in Time /\ lost' \subseteq Batch
    BY <1>4, <1>row, CurrentIsBatch DEF SyncWrite
  <2>2. pc' \in [Requests -> Stages]
    BY <1>4, <1>continue DEF SyncWrite
  <2> QED BY <1>4, <2>1, <2>2 DEF SyncWrite, TypeOK
<1>5. ASSUME NEW r \in Requests, ReadExists(r) PROVE TypeOK'
  <2>1. pc' \in [Requests -> Stages]
    BY <1>5, GotoStage DEF ReadExists, Stages
  <2> QED BY <1>5, <2>1 DEF ReadExists, TypeOK
<1>6. ASSUME NEW r \in Requests, ReadRange(r) PROVE TypeOK'
  <2>1. pc' \in [Requests -> Stages]
    BY <1>6, GotoStage DEF ReadRange, Stages
  <2>2. saw' \in [Requests -> Seq(Batch)]
    BY <1>6 DEF ReadRange, TypeOK
  <2> QED BY <1>6, <2>1, <2>2 DEF ReadRange, TypeOK
<1>7. ASSUME NEW r \in Requests, ReadDb(r) PROVE TypeOK'
  <2>1. pc' \in [Requests -> Stages]
    BY <1>7, GotoStage DEF ReadDb, Stages
  <2>2. Batches(Prune(db, Cutoff)) \in Seq(Batch)
    BY PruneProperties, BatchesProperties DEF TypeOK
  <2>3. saw' \in [Requests -> Seq(Batch)]
    BY <1>7, <2>2 DEF ReadDb, TypeOK
  <2> QED BY <1>7, <2>1, <2>3 DEF ReadDb, TypeOK
<1>8. ASSUME NEW r \in Requests, Refill(r) PROVE TypeOK'
  <2>1. pc' \in [Requests -> Stages]
    BY <1>8, GotoStage DEF Refill, Stages
  <2>2. list' \in Seq(Batch) /\ mixed' \in BOOLEAN
    BY <1>8, <1>empty DEF Refill, TypeOK
  <2> QED BY <1>8, <2>1, <2>2 DEF Refill, TypeOK
<1>9. ASSUME NEW r \in Requests, Fill(r) PROVE TypeOK'
  <2>1. pc' \in [Requests -> Stages]
    BY <1>9, GotoStage DEF Fill, Stages
  <2>2. list \o saw[r] \in Seq(Batch)
    BY ConcatProperties DEF TypeOK
  <2>3. list' \in Seq(Batch) /\ touched' \in Time
    BY <1>9, <2>2 DEF Fill, TypeOK
  <2> QED BY <1>9, <2>1, <2>3 DEF Fill, TypeOK
<1>10. ASSUME NEW r \in Requests, Ask(r) PROVE TypeOK'
  <2>1. pc' \in [Requests -> Stages]
    BY <1>10, GotoStage DEF Ask, Stages
  <2>2. saw' \in [Requests -> Seq(Batch)] /\ final' \in [Requests -> BOOLEAN]
    BY <1>10, <1>empty DEF Ask, TypeOK
  <2>3. count' \in [Requests -> 1 .. MaxRounds + 1]
    <3>1. count[r] \in 1 .. MaxRounds + 1 /\ count[r] <= MaxRounds
      BY <1>10 DEF Ask, StagesInv, TypeOK
    <3>2. count[r] + 1 \in 1 .. MaxRounds + 1
      BY <3>1, ConstantsAssumption
    <3> QED BY <1>10, <3>2 DEF Ask, TypeOK
  <2> QED BY <1>10, <2>1, <2>2, <2>3 DEF Ask, TypeOK
<1>11. ASSUME NEW r \in Requests, ClearList(r) PROVE TypeOK'
  <2>1. pc' \in [Requests -> Stages]
    BY <1>11, GotoStage DEF ClearList, Stages
  <2>2. list' \in Seq(Batch) /\ UNCHANGED touched
    BY <1>11, <1>empty DEF ClearList, TypeOK
  <2> QED BY <1>11, <2>1, <2>2 DEF ClearList, TypeOK
<1>12. ASSUME NEW r \in Requests, ClearDb(r) PROVE TypeOK'
  <2>1. pc' \in [Requests -> Stages]
    BY <1>12, GotoStage DEF ClearDb, Stages
  <2>2. InDb \subseteq Batch /\ Born \subseteq Batch
    BY BatchesProperties DEF InDb, Born, TypeOK, ToSet
  <2>3. db' \in Seq(Entry) /\ cleared' \subseteq Batch /\ UNCHANGED updated
    BY <1>12, <1>empty, <2>2 DEF ClearDb, TypeOK
  <2> QED BY <1>12, <2>1, <2>3 DEF ClearDb, TypeOK
<1>13. ASSUME NEW r \in Requests, GetLate(r) PROVE TypeOK'
  BY <1>13 DEF GetLate, TypeOK
<1>14. CASE WorkerTries
  <2>1. PICK b \in InQueue : Tries(b)
    BY <1>14, TriesOne
  <2>2. b \in Batch /\ queue' \in Seq(Batch) /\ Len(queue') <= Capacity + WorkerCount
    BY <2>1, TriesOne
  <2>3. db' \in Seq(Entry) /\ updated' \in Time
    BY <2>1, <2>2, AppendedRow DEF Tries, TypeOK
  <2>4. lost' \subseteq Batch /\ unsure' \subseteq Batch
    BY <2>1, <2>2 DEF Tries, TypeOK
  <2>5. tried' \in [Batch -> 0 .. MaxTries - 1]
    <3>1. tried[b] \in 0 .. MaxTries - 1 /\ 0 \in 0 .. MaxTries - 1 /\ MaxTries \in Nat
      BY <2>2, ConstantsAssumption DEF TypeOK
    <3>2. CASE tried' = [tried EXCEPT ![b] = 0]
      BY <3>1, <3>2 DEF TypeOK
    <3>3. CASE tried[b] + 1 < MaxTries /\ tried' = [tried EXCEPT ![b] = @ + 1]
      <4>1. tried[b] + 1 \in 0 .. MaxTries - 1
        BY <3>1, <3>3
      <4> QED BY <3>3, <4>1 DEF TypeOK
    <3> QED BY <2>1, <3>2, <3>3 DEF Tries
  <2> QED BY <1>14, <2>2, <2>3, <2>4, <2>5 DEF WorkerTries, TypeOK
<1>15. CASE SweepStart
  <2>1. db' \in Seq(Entry) /\ sweep' \in [busy : BOOLEAN, cutoff : Time, read : Seq(Entry)]
    <3>1. [busy |-> TRUE, cutoff |-> Cutoff, read |-> db]
            \in [busy : BOOLEAN, cutoff : Time, read : Seq(Entry)]
      BY CutoffProperties DEF TypeOK
    <3>2. \/ db' = <<>> /\ UNCHANGED sweep
          \/ sweep' = [busy |-> TRUE, cutoff |-> Cutoff, read |-> db] /\ UNCHANGED db
      BY <1>15 DEF SweepStart
    <3> QED BY <3>1, <3>2, <1>empty DEF TypeOK
  <2> QED BY <1>15, <2>1 DEF SweepStart, TypeOK
<1>noSweep. NoSweep \in [busy : BOOLEAN, cutoff : Time, read : Seq(Entry)]
  BY <1>empty, ConstantsAssumption DEF NoSweep, Time
<1>16. CASE SweepWrite
  <2>1. Prune(sweep.read, sweep.cutoff) \in Seq(Entry)
    BY PruneProperties DEF TypeOK
  <2>2. db' \in Seq(Entry) /\ updated' \in Time
    BY <1>16, <2>1 DEF SweepWrite, TypeOK
  <2>3. lost' \subseteq Batch
    <3>1. InDb \subseteq Batch
      BY BatchesProperties DEF InDb, TypeOK, ToSet
    <3> QED BY <1>16, <3>1 DEF SweepWrite, TypeOK
  <2> QED BY <1>16, <1>noSweep, <2>2, <2>3 DEF SweepWrite, TypeOK
<1>17. CASE Tick
  <2>1. now' \in Time /\ list' \in Seq(Batch)
    BY <1>17, <1>empty, ConstantsAssumption DEF Tick, TypeOK, Time
  <2> QED BY <1>17, <2>1 DEF Tick, TypeOK
<1>18. CASE RedisLosesList
  BY <1>18, <1>empty DEF RedisLosesList, TypeOK
<1>19. CASE Restart
  <2>1. pc' \in [Requests -> Stages] /\ tried' \in [Batch -> 0 .. MaxTries - 1]
    BY <1>19, ConstantsAssumption DEF Restart, TypeOK, Stages
  <2>2. queue' \in Seq(Batch) /\ Len(queue') <= Capacity + WorkerCount
    BY <1>19, <1>empty, ConstantsAssumption, EmptySeq DEF Restart
  <2>3. lost' \subseteq Batch
    <3>1. ToSet(queue) \subseteq Batch
      BY LenProperties, ElementOfSeq DEF TypeOK, ToSet
    <3> QED BY <1>19, <3>1, CurrentIsBatch DEF Restart, TypeOK
  <2>4. list' \in Seq(Batch) /\ touched' \in Time
    BY <1>19, BatchesProperties DEF Restart, TypeOK
  <2> QED BY <1>19, <1>noSweep, <2>1, <2>2, <2>3, <2>4 DEF Restart, TypeOK
<1>20. CASE UNCHANGED vars
  BY <1>20 DEF vars, TypeOK
<1> QED
  BY <1>1, <1>2, <1>3, <1>4, <1>5, <1>6, <1>7, <1>8, <1>9, <1>10, <1>11, <1>12, <1>13,
     <1>14, <1>15, <1>16, <1>17, <1>18, <1>19, <1>20 DEF Next, Request

(* A step of request r.                                                     *)
LEMMA StagesOfOne ==
  ASSUME TypeOK, StagesInv, NEW r \in Requests, NEW to \in Stages, pc' = [pc EXCEPT ![r] = to],
         \A q \in Requests \ {r} : count'[q] = count[q] /\ saw'[q] = saw[q],
         /\ to \in {"new", "exists", "range", "readDb", "refill", "fill"} => count'[r] = 1
         /\ to = "ask" => count'[r] <= MaxRounds
         /\ to \in {"new", "append", "enqueue", "sync", "exists", "range", "readDb"} => saw'[r] = <<>>
  PROVE  StagesInv'
<1>1. pc'[r] = to /\ \A q \in Requests \ {r} : pc'[q] = pc[q]
  BY DEF TypeOK
<1>2. ASSUME NEW q \in Requests, q # r
      PROVE  /\ pc'[q] \in {"new", "exists", "range", "readDb", "refill", "fill"} => count'[q] = 1
             /\ pc'[q] = "ask" => count'[q] <= MaxRounds
             /\ pc'[q] \in {"new", "append", "enqueue", "sync", "exists", "range", "readDb"} =>
                  saw'[q] = <<>>
  BY <1>1, <1>2 DEF StagesInv
<1> QED BY <1>1, <1>2 DEF StagesInv

LEMMA StagesStep == TypeOK /\ StagesInv /\ [Next]_vars => StagesInv'
<1> SUFFICES ASSUME TypeOK, StagesInv, [Next]_vars PROVE StagesInv'
  OBVIOUS
<1> USE DEF redis, mysql, owed, request, past
<1>continue. ASSUME NEW r \in Requests, Continue(r), UNCHANGED <<count, saw>>,
                    pc[r] \in {"enqueue", "sync"}
             PROVE  StagesInv'
  <2>1. PICK to \in {"exists", "ask", "ended"} :
          /\ pc' = [pc EXCEPT ![r] = to]
          /\ to = "exists" => count[r] = 1
          /\ to = "ask" => count[r] <= MaxRounds
    BY <1>continue, Continues
  <2>2. saw[r] = <<>> /\ to \in Stages
    BY <1>continue DEF StagesInv, Stages
  <2> QED BY <1>continue, <2>1, <2>2, StagesOfOne
<1>1. ASSUME NEW r \in Requests, Begin(r) PROVE StagesInv'
  <2>1. count[r] = 1 /\ saw[r] = <<>>
    BY <1>1 DEF Begin, StagesInv
  <2> QED BY <1>1, <2>1, StagesOfOne DEF Begin, Goto, Stages
<1>2. ASSUME NEW r \in Requests, AppendToList(r) PROVE StagesInv'
  <2>1. saw[r] = <<>>
    BY <1>2 DEF AppendToList, StagesInv
  <2> QED BY <1>2, <2>1, StagesOfOne DEF AppendToList, Goto, Stages
<1>3. ASSUME NEW r \in Requests, Enqueue(r) PROVE StagesInv'
  <2>1. CASE Goto(r, "sync")
    <3>1. saw[r] = <<>>
      BY <1>3 DEF Enqueue, StagesInv
    <3> QED BY <1>3, <2>1, <3>1, StagesOfOne DEF Enqueue, Goto, Stages
  <2>2. CASE Continue(r)
    BY <1>3, <1>continue, <2>2 DEF Enqueue
  <2> QED BY <1>3, <2>1, <2>2 DEF Enqueue
<1>4. ASSUME NEW r \in Requests, SyncWrite(r) PROVE StagesInv'
  BY <1>4, <1>continue DEF SyncWrite
<1>5. ASSUME NEW r \in Requests, ReadExists(r) \/ ReadRange(r) PROVE StagesInv'
  <2>1. count[r] = 1 /\ saw[r] = <<>>
    BY <1>5 DEF ReadExists, ReadRange, StagesInv
  <2>2. \A q \in Requests \ {r} : count'[q] = count[q] /\ saw'[q] = saw[q]
    BY <1>5 DEF ReadExists, ReadRange, TypeOK
  <2>3. UNCHANGED count /\ \/ Goto(r, "ask")
                           \/ UNCHANGED saw /\ \E to \in {"range", "readDb"} : Goto(r, to)
    BY <1>5 DEF ReadExists, ReadRange
  <2>4. 1 <= MaxRounds
    BY ConstantsAssumption
  <2> QED BY <2>1, <2>2, <2>3, <2>4, StagesOfOne DEF Goto, Stages
<1>6. ASSUME NEW r \in Requests, ReadDb(r) PROVE StagesInv'
  <2>1. count'[r] = 1 /\ pc' = [pc EXCEPT ![r] = "refill"]
    BY <1>6 DEF ReadDb, StagesInv, Goto
  <2>2. \A q \in Requests \ {r} : count'[q] = count[q] /\ saw'[q] = saw[q]
    BY <1>6 DEF ReadDb, TypeOK
  <2> QED BY <2>1, <2>2, StagesOfOne DEF Stages
<1>7. ASSUME NEW r \in Requests, Refill(r) \/ Fill(r) PROVE StagesInv'
  <2>1. count[r] = 1 /\ 1 <= MaxRounds /\ UNCHANGED <<count, saw>>
    BY <1>7, ConstantsAssumption DEF Refill, Fill, StagesInv
  <2>2. PICK to \in {"ask", "fill"} : pc' = [pc EXCEPT ![r] = to]
    BY <1>7 DEF Refill, Fill, Goto
  <2> QED BY <2>1, <2>2, StagesOfOne DEF Stages
<1>8. ASSUME NEW r \in Requests, Ask(r) PROVE StagesInv'
  <2>1. saw'[r] = <<>> /\ \A q \in Requests \ {r} : count'[q] = count[q] /\ saw'[q] = saw[q]
    BY <1>8 DEF Ask, TypeOK
  <2>2. PICK to \in {"ended", "append", "clearList"} : pc' = [pc EXCEPT ![r] = to]
    BY <1>8 DEF Ask, Goto
  <2> QED BY <2>1, <2>2, StagesOfOne DEF Stages
<1>9. ASSUME NEW r \in Requests, ClearList(r) \/ ClearDb(r) PROVE StagesInv'
  <2>1. UNCHANGED <<count, saw>>
    BY <1>9 DEF ClearList, ClearDb
  <2>2. PICK to \in {"ended", "clearDb"} : pc' = [pc EXCEPT ![r] = to]
    BY <1>9 DEF ClearList, ClearDb, Goto
  <2> QED BY <2>1, <2>2, StagesOfOne DEF Stages
<1>10. CASE (\E r \in Requests : GetLate(r)) \/ WorkerTries \/ SweepStart \/ SweepWrite \/ Tick
            \/ RedisLosesList \/ UNCHANGED vars
  BY <1>10 DEF GetLate, WorkerTries, SweepStart, SweepWrite, Tick, RedisLosesList, vars, StagesInv
<1>11. CASE Restart
  <2>1. \A q \in Requests : pc'[q] = IF Active(q) THEN "gone" ELSE pc[q]
    BY <1>11 DEF Restart
  <2> QED BY <1>11, <2>1 DEF Restart, StagesInv, Active
<1> QED
  BY <1>1, <1>2, <1>3, <1>4, <1>5, <1>6, <1>7, <1>8, <1>9, <1>10, <1>11 DEF Next, Request

-------------------------------------------------------------------------------
(* Where the batches go.  A step is of one of these kinds.                  *)

Apart == IsInjective(queue) /\ InQueue \cap InHands = {}

(* No batch comes or goes, though a request may hand one to the queue.      *)
Quiet == OnItsWay' = OnItsWay /\ UNCHANGED <<mysql, born, sweep, unsure, lost, cleared>>

(* A batch is handed to the stores.                                        *)
Birth(b) == /\ b \in Batch \ Born /\ OnItsWay' = OnItsWay \cup {b}
            /\ born' = [born EXCEPT ![b] = now] /\ UNCHANGED now
            /\ UNCHANGED <<mysql, sweep, unsure, lost, cleared>>

(* A write of a batch succeeds or fails, with or without effect.  The batch *)
(* has then arrived in the row, is given up, or stays on its way.           *)
Delivery(b) == /\ b \in OnItsWay /\ UNCHANGED <<now, born, sweep, cleared>>
               /\ OnItsWay' \subseteq OnItsWay /\ OnItsWay \ {b} \subseteq OnItsWay'
               /\ unsure' \in {unsure, unsure \cup {b}} /\ lost' \in {lost, lost \cup {b}}
               /\ \/ AppendDb(b) /\ (b \in OnItsWay' => b \in unsure')
                  \/ UNCHANGED mysql /\ (b \notin OnItsWay' => b \in lost')

(* The process dies with all that it held.                                  *)
Death == /\ OnItsWay' = {} /\ lost' = lost \cup OnItsWay /\ sweep' = NoSweep
         /\ UNCHANGED <<mysql, born, unsure, cleared, now>>

(* The cleanup or a reset changes the row.                                  *)
Clearing == /\ OnItsWay' = OnItsWay /\ UNCHANGED <<now, born, unsure>>
            /\ SweepStart \/ SweepWrite \/ \E r \in Requests : ClearDb(r)

(* A request moves, with no batch in hand before or after.                  *)
LEMMA HandsStay ==
  ASSUME TypeOK, NEW r \in Requests, NEW to, pc' = [pc EXCEPT ![r] = to],
         pc[r] \notin {"enqueue", "sync"}, to \notin {"enqueue", "sync"},
         \A q \in Requests \ {r} : count'[q] = count[q]
  PROVE  InHands' = InHands
<1>1. Hands' = Hands /\ r \notin Hands
  BY DEF TypeOK, Hands
<1>2. \A q \in Hands : Current(q)' = Current(q)
  BY <1>1 DEF Current, Hands
<1> QED BY <1>1, <1>2 DEF InHands

(* A request lets go of its batch.                                          *)
LEMMA HandsLetGo ==
  ASSUME TypeOK, NEW r \in Hands, NEW to, pc' = [pc EXCEPT ![r] = to],
         to \notin {"enqueue", "sync"}, UNCHANGED count
  PROVE  InHands' = InHands \ {Current(r)} /\ Current(r) \in InHands
<1>1. Hands' = Hands \ {r}
  BY DEF TypeOK, Hands
<1>2. \A q \in Hands : Current(q)' = Current(q) /\ (Current(q) = Current(r) => q = r)
  BY DEF Current
<1> QED BY <1>1, <1>2 DEF InHands

LEMMA Whereabouts ==
  ASSUME TypeOK, BirthInv, PlacesInv, [Next]_vars
  PROVE  /\ Apart'
         /\ \/ Quiet \/ Death \/ Clearing
            \/ \E b \in Batch : Birth(b) \/ Delivery(b)
<1> USE DEF redis, mysql, owed, request, past
<1>same. ASSUME UNCHANGED queue, InHands' = InHands
         PROVE  OnItsWay' = OnItsWay /\ Apart'
  BY <1>same DEF OnItsWay, InQueue, Apart, PlacesInv
<1>continue. ASSUME NEW r \in Requests, Continue(r), pc[r] \in {"enqueue", "sync"}, UNCHANGED count
             PROVE  InHands' = InHands \ {Current(r)} /\ Current(r) \in InHands
  <2>1. PICK to \in {"exists", "ask", "ended"} : pc' = [pc EXCEPT ![r] = to]
    BY <1>continue, Continues
  <2> QED BY <1>continue, <2>1, HandsLetGo DEF Hands
<1>1. ASSUME NEW r \in Requests,
             \/ Begin(r) \/ ReadExists(r) \/ ReadRange(r) \/ ReadDb(r) \/ Refill(r) \/ Fill(r)
             \/ Ask(r) \/ ClearList(r)
      PROVE  Apart' /\ Quiet
  <2>1. /\ \E to \in {"append", "clearList", "range", "readDb", "refill", "fill", "ask", "ended",
                      "clearDb"} : pc' = [pc EXCEPT ![r] = to]
        /\ pc[r] \notin {"enqueue", "sync"}
    BY <1>1 DEF Begin, ReadExists, ReadRange, ReadDb, Refill, Fill, Ask, ClearList, Goto
  <2>2. \A q \in Requests \ {r} : count'[q] = count[q]
    BY <1>1 DEF Begin, ReadExists, ReadRange, ReadDb, Refill, Fill, Ask, ClearList, TypeOK
  <2>3. InHands' = InHands
    BY <2>1, <2>2, HandsStay
  <2>4. UNCHANGED <<queue, mysql, born, sweep, unsure, lost, cleared>>
    BY <1>1 DEF Begin, ReadExists, ReadRange, ReadDb, Refill, Fill, Ask, ClearList
  <2> QED BY <1>same, <2>3, <2>4 DEF Quiet
<1>2. ASSUME NEW r \in Requests, AppendToList(r) PROVE Apart' /\ Birth(Current(r))
  <2>1. Current(r) \in Batch \ Born
    <3>1. count[r] \in 1 .. MaxRounds + 1
      BY DEF TypeOK
    <3>2. <<r, count[r]>> \notin Born
      BY <1>2, <3>1 DEF AppendToList, BirthInv
    <3> QED BY <3>2, CurrentIsBatch DEF Current
  <2>2. InHands' = InHands \cup {Current(r)}
    <3>1. Hands' = Hands \cup {r}
      BY <1>2 DEF AppendToList, Goto, TypeOK, Hands
    <3>2. \A q \in Requests : Current(q)' = Current(q)
      BY <1>2 DEF AppendToList, Current
    <3> QED BY <3>1, <3>2 DEF InHands, Hands
  <2>3. UNCHANGED queue /\ InQueue' = InQueue /\ IsInjective(queue)
    BY <1>2 DEF AppendToList, InQueue, PlacesInv
  <2>4. Current(r) \notin InQueue
    BY <2>1 DEF BirthInv, OnItsWay
  <2>5. Apart' /\ OnItsWay' = OnItsWay \cup {Current(r)}
    BY <2>2, <2>3, <2>4 DEF Apart, PlacesInv, OnItsWay
  <2>6. /\ born' = [born EXCEPT ![Current(r)] = now]
        /\ UNCHANGED <<now, mysql, sweep, unsure, lost, cleared>>
    BY <1>2 DEF AppendToList
  <2> QED BY <2>1, <2>5, <2>6 DEF Birth
<1>3. ASSUME NEW r \in Requests, Enqueue(r) PROVE Apart' /\ Quiet
  <2>1. /\ UNCHANGED <<mysql, born, sweep, unsure, lost, cleared, count>> /\ pc[r] \in {"enqueue", "sync"}
    BY <1>3 DEF Enqueue
  <2>2. CASE Goto(r, "sync") /\ UNCHANGED queue
    <3>1. Hands' = Hands
      BY <1>3, <2>2 DEF Enqueue, Goto, Hands, TypeOK
    <3>2. \A q \in Requests : Current(q)' = Current(q)
      BY <2>1 DEF Current
    <3>3. InHands' = InHands
      BY <3>1, <3>2 DEF InHands, Hands
    <3> QED BY <1>same, <2>1, <2>2, <3>3 DEF Quiet
  <2>3. CASE queue' = Append(queue, Current(r)) /\ Continue(r)
    <3>1. InHands' = InHands \ {Current(r)} /\ Current(r) \in InHands
      BY <1>continue, <2>1, <2>3
    <3>2. Current(r) \in Batch /\ Current(r) \notin InQueue /\ queue \in Seq(Batch)
      BY <3>1, CurrentIsBatch DEF PlacesInv, TypeOK
    <3>3. ToSet(queue') = InQueue \cup {Current(r)} /\ IsInjective(queue')
      BY <2>3, <3>2, ToSetAppend, AppendNewInjective DEF InQueue, PlacesInv
    <3>4. InQueue' = ToSet(queue')
      BY DEF InQueue, ToSet
    <3>5. OnItsWay' = OnItsWay
      BY <3>1, <3>3, <3>4 DEF OnItsWay
    <3>6. Apart'
      BY <3>1, <3>3, <3>4 DEF Apart, PlacesInv
    <3> QED BY <2>1, <3>5, <3>6 DEF Quiet
  <2> QED BY <1>3, <2>2, <2>3 DEF Enqueue
<1>4. ASSUME NEW r \in Requests, SyncWrite(r) PROVE Apart' /\ Delivery(Current(r))
  <2>1. InHands' = InHands \ {Current(r)} /\ Current(r) \in InHands
    BY <1>4, <1>continue DEF SyncWrite
  <2>2. UNCHANGED queue /\ InQueue' = InQueue
    BY <1>4 DEF SyncWrite, InQueue
  <2>3. Apart' /\ Current(r) \in OnItsWay /\ OnItsWay' = OnItsWay \ {Current(r)}
    BY <2>1, <2>2 DEF Apart, PlacesInv, OnItsWay
  <2>4. /\ \/ AppendDb(Current(r)) /\ UNCHANGED lost
           \/ lost' = lost \cup {Current(r)} /\ UNCHANGED mysql
        /\ UNCHANGED <<born, sweep, unsure, cleared, now>>
    BY <1>4 DEF SyncWrite
  <2> QED BY <2>3, <2>4 DEF Delivery
<1>5. ASSUME NEW r \in Requests, ClearDb(r) PROVE Apart' /\ Clearing
  <2>1. InHands' = InHands
    BY <1>5, HandsStay DEF ClearDb, Goto
  <2>2. UNCHANGED <<queue, now, born, unsure>>
    BY <1>5 DEF ClearDb
  <2> QED BY <1>5, <1>same, <2>1, <2>2 DEF Clearing
<1>6. CASE WorkerTries
  <2>1. PICK b \in InQueue : Tries(b)
    BY <1>6, TriesOne
  <2>2. /\ b \in Batch /\ InQueue' \subseteq InQueue /\ InQueue \ {b} \subseteq InQueue'
        /\ IsInjective(queue') /\ (TakesOut(b) => b \notin InQueue')
    BY <2>1, TriesOne DEF PlacesInv
  <2>3. InHands' = InHands
    BY <1>6 DEF WorkerTries, InHands, Hands, Current
  <2>4. /\ Apart' /\ b \in OnItsWay /\ OnItsWay' \subseteq OnItsWay /\ OnItsWay \ {b} \subseteq OnItsWay'
        /\ (b \in InQueue' <=> b \in OnItsWay')
    BY <2>1, <2>2, <2>3 DEF Apart, PlacesInv, OnItsWay
  <2>5. UNCHANGED <<born, sweep, cleared, now>>
    BY <1>6 DEF WorkerTries
  <2>6. CASE TakesOut(b) /\ (lost' = lost \cup {b} \/ (AppendDb(b) /\ lost' = lost))
    BY <2>1, <2>2, <2>4, <2>5, <2>6 DEF Delivery, Tries
  <2>7. CASE queue' = queue /\ lost' = lost /\ (UNCHANGED mysql \/ b \in unsure')
    <3>1. b \in OnItsWay'
      BY <2>1, <2>4, <2>7 DEF InQueue
    <3>2. unsure' \in {unsure, unsure \cup {b}} /\ (AppendDb(b) \/ UNCHANGED mysql)
      BY <2>1 DEF Tries
    <3> QED BY <2>2, <2>4, <2>5, <2>7, <3>1, <3>2 DEF Delivery
  <2> QED BY <2>1, <2>2, <2>4, <2>6, <2>7 DEF Tries
<1>7. CASE SweepStart \/ SweepWrite
  <2>1. UNCHANGED <<queue, now, born, unsure, pc, count>>
    BY <1>7 DEF SweepStart, SweepWrite
  <2>2. InHands' = InHands
    BY <2>1 DEF InHands, Hands, Current
  <2> QED BY <1>7, <1>same, <2>1, <2>2 DEF Clearing
<1>8. CASE Tick \/ RedisLosesList \/ UNCHANGED vars \/ \E r \in Requests : GetLate(r)
  <2>1. UNCHANGED <<queue, pc, count, mysql, born, sweep, unsure, lost, cleared>>
    BY <1>8 DEF Tick, RedisLosesList, vars, GetLate
  <2>2. InHands' = InHands
    BY <2>1 DEF InHands, Hands, Current
  <2> QED BY <1>same, <2>1, <2>2 DEF Quiet
<1>9. CASE Restart
  <2>1. InHands' = {} /\ InQueue' = {} /\ queue' = <<>>
    BY <1>9 DEF Restart, InHands, Hands, Active, InQueue, ToSet
  <2>2. Apart' /\ OnItsWay' = {}
    BY <2>1 DEF Apart, OnItsWay, IsInjective
  <2>3. lost' = lost \cup OnItsWay
    BY <1>9 DEF Restart, OnItsWay, InHands, InQueue, Hands
  <2>4. sweep' = NoSweep /\ UNCHANGED <<mysql, born, unsure, cleared, now>>
    BY <1>9 DEF Restart
  <2> QED BY <2>2, <2>3, <2>4 DEF Death
<1> QED
  BY <1>1, <1>2, <1>3, <1>4, <1>5, <1>6, <1>7, <1>8, <1>9, CurrentIsBatch DEF Next, Request

(* What a reset or the cleanup makes of the row, and of what it has read.   *)
LEMMA ClearingRow ==
  ASSUME TypeOK, Clearing
  PROVE  /\ ToSet(db') \subseteq ToSet(db) \cup ToSet(sweep.read)
         /\ ToSet(sweep'.read) \subseteq ToSet(db)
            \/ ToSet(sweep'.read) \subseteq ToSet(sweep.read)
         /\ InDb' \subseteq InDb \cup InRead /\ InRead' \subseteq InDb \cup InRead
         /\ \A U : RepeatsOnly(Batches(db), U) /\ RepeatsOnly(Batches(sweep.read), U) =>
              RepeatsOnly(Batches(db'), U) /\ RepeatsOnly(Batches(sweep'.read), U)
         /\ updated' = now \/ (updated' = updated /\ ToSet(db') \subseteq ToSet(db))
         /\ InDb \subseteq InDb' \cup lost' \cup cleared' \/ (db' = <<>> /\ updated < Cutoff)
         /\ lost \subseteq lost' /\ cleared \subseteq cleared' /\ cleared' \subseteq cleared \cup InDb
         /\ cleared' # cleared => db' = <<>>
<1> USE DEF redis, mysql, owed, request, past
<1>s. /\ db \in Seq(Entry) /\ sweep.read \in Seq(Entry)
      /\ sweep \in [busy : BOOLEAN, cutoff : Time, read : Seq(Entry)]
  BY DEF TypeOK
<1>e. ToSet(<<>>) = {} /\ (\A U : RepeatsOnly(Batches(<<>>), U)) /\ ToSet(Batches(<<>>)) = {}
  BY DEF ToSet, Batches, RepeatsOnly
<1>p. InDb' = ToSet(Batches(db')) /\ InRead' = ToSet(Batches(sweep'.read))
  BY DEF InDb, InRead, ToSet, Batches
<1>1. CASE SweepStart
  <2>1. CASE db' = <<>> /\ UNCHANGED <<sweep, updated, lost, cleared>> /\ updated < Cutoff
    BY <1>e, <1>p, <2>1 DEF InDb, InRead
  <2>2. CASE sweep' = [busy |-> TRUE, cutoff |-> Cutoff, read |-> db]
             /\ UNCHANGED <<db, updated, lost, cleared>>
    <3>1. sweep'.read = db
      BY <2>2
    <3> QED BY <1>p, <2>2, <3>1 DEF InDb, InRead
  <2> QED BY <1>1, <2>1, <2>2 DEF SweepStart
<1>2. CASE SweepWrite
  <2> DEFINE kept == Prune(sweep.read, sweep.cutoff)
  <2>1. /\ kept \in Seq(Entry) /\ ToSet(kept) \subseteq ToSet(sweep.read)
        /\ \A U : RepeatsOnly(Batches(sweep.read), U) => RepeatsOnly(Batches(kept), U)
    BY <1>s, PruneProperties
  <2>2. ToSet(Batches(kept)) \subseteq InRead
    BY <1>s, <2>1, BatchesProperties DEF InRead
  <2>3. /\ db' = IF db = <<>> THEN db ELSE kept
        /\ updated' = IF db = <<>> \/ kept = <<>> THEN updated ELSE now
        /\ lost' = lost \cup (InDb \ ToSet(Batches(kept)))
        /\ sweep' = NoSweep /\ UNCHANGED cleared
    BY <1>2 DEF SweepWrite
  <2> HIDE DEF kept
  <2>4. sweep'.read = <<>>
    BY <2>3 DEF NoSweep
  <2>5. CASE db = <<>>
    <3>1. db' = <<>> /\ updated' = updated /\ InDb = {}
      BY <1>e, <2>3, <2>5 DEF InDb
    <3> QED BY <1>e, <1>p, <2>3, <2>4, <2>5, <3>1
  <2>6. CASE db # <<>>
    <3>1. db' = kept /\ InDb' = ToSet(Batches(kept)) /\ InDb \subseteq InDb' \cup lost'
      BY <1>p, <2>3, <2>6
    <3>2. kept = <<>> => ToSet(db') \subseteq ToSet(db)
      BY <1>e, <3>1
    <3>3. updated' = now \/ (updated' = updated /\ ToSet(db') \subseteq ToSet(db))
      BY <2>3, <3>2
    <3> QED BY <1>e, <1>p, <2>1, <2>2, <2>3, <2>4, <3>1, <3>3
  <2> QED BY <2>5, <2>6
<1>3. ASSUME NEW r \in Requests, ClearDb(r) PROVE UNCHANGED <<sweep, updated, lost>> /\
        \/ db' = <<>> /\ cleared' = cleared \cup InDb
        \/ UNCHANGED <<db, cleared>>
  BY <1>3 DEF ClearDb
<1>4. CASE \E r \in Requests : ClearDb(r)
  <2>1. UNCHANGED <<sweep, updated, lost>> /\ \/ db' = <<>> /\ cleared' = cleared \cup InDb
                                              \/ UNCHANGED <<db, cleared>>
    BY <1>3, <1>4
  <2> QED BY <1>e, <1>p, <2>1 DEF InDb, InRead
<1> QED BY <1>1, <1>2, <1>4 DEF Clearing

-------------------------------------------------------------------------------
(* Births.                                                                 *)

LEMMA Clock ==
  ASSUME TypeOK, [Next]_vars
  PROVE  /\ now \in Nat /\ now' \in Nat /\ now <= now' /\ now <= MaxTime
         /\ now' = now \/ Quiet
<1>1. now \in Nat /\ now <= MaxTime
  BY ConstantsAssumption DEF TypeOK, Time
<1>2. now' = now \/ (now' = now + 1 /\ Tick)
  BY DEF Next, Request, vars, request, redis, mysql, past, Begin, AppendToList, Enqueue, SyncWrite,
         ReadExists, ReadRange, ReadDb, Refill, Fill, Ask, ClearList, ClearDb, GetLate,
         WorkerTries, SweepStart, SweepWrite, RedisLosesList, Restart, Tick
<1>3. Tick => Quiet
  BY DEF Tick, Quiet, mysql, owed, request, past, OnItsWay, InQueue, InHands, Hands, Current
<1> QED BY <1>1, <1>2, <1>3

(* No birth is undone or moved.                                            *)
LEMMA BornStays ==
  ASSUME TypeOK, BirthInv, PlacesInv, [Next]_vars
  PROVE  /\ Born \subseteq Born' /\ \A b \in Born : born'[b] = born[b]
         /\ \A b \in Born' \ Born : born'[b] = now /\ now' = now
<1>1. CASE UNCHANGED born
  BY <1>1 DEF Born
<1>2. ASSUME NEW b \in Batch, Birth(b)
      PROVE  /\ Born' = Born \cup {b} /\ b \notin Born
             /\ \A c \in Born : born'[c] = born[c]
             /\ born'[b] = now /\ now' = now
  <2>1. /\ born \in [Batch -> 0 .. Unborn] /\ born' = [born EXCEPT ![b] = now] /\ now <= MaxTime
        /\ b \in Batch \ Born /\ now' = now
    BY <1>2, Clock DEF TypeOK, Birth
  <2> QED BY <2>1 DEF Born
<1>3. UNCHANGED born \/ \E b \in Batch : Birth(b)
  BY Whereabouts DEF Quiet, Death, Clearing, Delivery, past
<1>4. CASE \E b \in Batch : Birth(b)
  <2>1. PICK b \in Batch : Birth(b)
    BY <1>4
  <2>2. /\ Born' = Born \cup {b} /\ b \notin Born /\ \A c \in Born : born'[c] = born[c]
        /\ born'[b] = now /\ now' = now
    BY <1>2, <2>1
  <2>3. \A c \in Born' \ Born : c = b
    BY <2>2
  <2> QED BY <2>2, <2>3
<1> QED BY <1>1, <1>3, <1>4

(* What arrives in the row, or may come back to it, was somewhere before.   *)
LEMMA PlacedBefore ==
  ASSUME TypeOK, BirthInv, PlacesInv, [Next]_vars
  PROVE  OnItsWay' \cup InDb' \cup InRead' \cup cleared' \cup unsure' \subseteq Born'
<1> USE DEF redis, mysql, owed, past
<1>b. OnItsWay \cup InDb \cup InRead \cup cleared \cup unsure \subseteq Born /\ Born \subseteq Born'
  BY BornStays DEF BirthInv
<1>1. CASE Quiet
  <2>1. /\ InDb' = InDb /\ InRead' = InRead /\ OnItsWay' = OnItsWay /\ cleared' = cleared
        /\ unsure' = unsure
    BY <1>1 DEF Quiet, InDb, InRead, Batches
  <2> QED BY <1>b, <2>1
<1>2. ASSUME NEW b \in Batch, Birth(b) PROVE OnItsWay' \cup InDb' \cup InRead' \cup cleared' \cup unsure' \subseteq Born'
  <2>1. /\ InDb' = InDb /\ InRead' = InRead /\ OnItsWay' = OnItsWay \cup {b}
        /\ cleared' = cleared /\ unsure' = unsure
    BY <1>2 DEF Birth, InDb, InRead, Batches
  <2>2. b \in Born'
    BY <1>2, Clock DEF Birth, Born, TypeOK
  <2> QED BY <1>b, <2>1, <2>2
<1>3. ASSUME NEW b \in Batch, Delivery(b) PROVE OnItsWay' \cup InDb' \cup InRead' \cup cleared' \cup unsure' \subseteq Born'
  <2>1. /\ InRead' = InRead /\ OnItsWay' \subseteq OnItsWay /\ cleared' = cleared /\ b \in OnItsWay
        /\ unsure' \subseteq unsure \cup {b}
    BY <1>3 DEF Delivery, InRead, Batches
  <2>2. InDb' \subseteq InDb \cup {b}
    BY <1>3, AppendedRow DEF Delivery, InDb, Batches
  <2> QED BY <1>b, <2>1, <2>2
<1>4. CASE Death
  <2>1. /\ InDb' = InDb /\ InRead' = {} /\ OnItsWay' = {} /\ cleared' = cleared
        /\ unsure' = unsure
    BY <1>4 DEF Death, InDb, InRead, Batches, NoSweep, ToSet
  <2> QED BY <1>b, <2>1
<1>5. CASE Clearing
  <2>1. OnItsWay' = OnItsWay /\ unsure' = unsure
    BY <1>5 DEF Clearing
  <2> QED BY <1>b, <1>5, <2>1, ClearingRow
<1> QED BY <1>1, <1>2, <1>3, <1>4, <1>5, Whereabouts

(* What is listed was pushed, or comes from the row.                        *)
LEMMA ListedBefore ==
  ASSUME TypeOK, BirthInv, PlacesInv, RefillInv, [Next]_vars
  PROVE  InList' \subseteq Born'
<1> USE DEF redis, mysql, owed, request, past
<1>b. InList \cup InDb \subseteq Born /\ Born \subseteq Born'
  BY BornStays DEF BirthInv
<1>1. CASE list' = list \/ list' = <<>>
  BY <1>b, <1>1 DEF InList, ToSet
<1>2. ASSUME NEW r \in Requests, AppendToList(r) PROVE InList' \subseteq Born'
  <2>1. CASE Push(Current(r))
    <3>1. InList' = InList \cup {Current(r)} /\ Current(r) \in Batch
      BY <2>1, CurrentIsBatch, PushTypes
    <3>2. Current(r) \in Born'
      <4>1. born'[Current(r)] = now /\ now <= MaxTime
        BY <1>2, <3>1, Clock DEF AppendToList, TypeOK
      <4> QED BY <3>1, <4>1 DEF Born
    <3> QED BY <1>b, <3>1, <3>2
  <2> QED BY <1>1, <1>2, <2>1 DEF AppendToList
<1>3. ASSUME NEW r \in Requests, Fill(r) PROVE InList' \subseteq Born'
  <2>1. CASE list' = list \o saw[r]
    <3>1. ToSet(list \o saw[r]) = InList \cup ToSet(saw[r])
      BY ToSetConcat DEF TypeOK, InList
    <3>2. ToSet(saw[r]) \subseteq Born
      BY <1>3 DEF Fill, RefillInv
    <3>3. InList' = ToSet(list')
      BY DEF InList, ToSet
    <3> QED BY <1>b, <2>1, <3>1, <3>2, <3>3
  <2> QED BY <1>1, <1>3, <2>1 DEF Fill
<1>4. CASE Restart
  <2>1. CASE list' = Batches(db)
    BY <1>b, <2>1 DEF InList, InDb, ToSet
  <2> QED BY <1>1, <1>4, <2>1 DEF Restart
<1> QED
  BY <1>1, <1>2, <1>3, <1>4
     DEF Next, Request, vars, Begin, Enqueue, SyncWrite, ReadExists, ReadRange, ReadDb, Refill,
         Ask, ClearList, ClearDb, GetLate, WorkerTries, SweepStart, SweepWrite, Tick,
         RedisLosesList

(* The next batch of a request is new.                                      *)
LEMMA NextIsNew ==
  ASSUME TypeOK, BirthInv, PlacesInv, [Next]_vars, NEW r \in Requests, NEW n \in 1 .. MaxRounds + 1,
         n > count'[r] \/ (n = count'[r] /\ pc'[r] \in {"new", "append"})
  PROVE  <<r, n>> \notin Born'
<1> USE DEF redis, mysql, owed, request, past
<1>t. /\ pc \in [Requests -> Stages] /\ count[r] \in 1 .. MaxRounds + 1 /\ n \in Nat
      /\ count \in [Requests -> 1 .. MaxRounds + 1] /\ 1 .. MaxRounds + 1 \subseteq Nat
  BY ConstantsAssumption DEF TypeOK
<1>1. ASSUME NEW q \in Requests, AppendToList(q) PROVE <<r, n>> \notin Born'
  <2>1. /\ UNCHANGED count /\ born' = [born EXCEPT ![Current(q)] = now] /\ pc[q] = "append"
        /\ \E to \in {"enqueue", "sync"} : pc' = [pc EXCEPT ![q] = to]
    BY <1>1 DEF AppendToList, Goto
  <2>2. n > count[r] \/ (n = count[r] /\ pc'[r] \in {"new", "append"})
    BY <2>1
  <2>3. (q = r => n # count[r]) /\ (pc'[r] \in {"new", "append"} => pc[r] \in {"new", "append"})
    BY <1>t, <2>1, <2>2
  <2>4. <<r, n>> # Current(q)
    BY <2>3 DEF Current
  <2>5. <<r, n>> \notin Born
    BY <2>2, <2>3 DEF BirthInv
  <2> QED BY <2>1, <2>4, <2>5 DEF Born, TypeOK
<1>old. ASSUME UNCHANGED born, n > count[r] \/ (n = count[r] /\ pc[r] \in {"new", "append"})
        PROVE  <<r, n>> \notin Born'
  BY <1>old DEF BirthInv, Born
<1>2. ASSUME NEW q \in Requests, Begin(q) \/ Ask(q) PROVE <<r, n>> \notin Born'
  <2>1. CASE r = q
    <3>1. \/ count'[r] = count[r] /\ pc[r] \in {"new", "append"}
          \/ count'[r] = count[r] + 1
          \/ count'[r] = count[r] /\ pc'[r] \notin {"new", "append"}
      BY <1>t, <1>2, <2>1 DEF Begin, Ask, Goto
    <3>2. n > count[r] \/ (n = count[r] /\ pc[r] \in {"new", "append"})
      BY <1>t, <3>1
    <3> QED BY <1>2, <1>old, <3>2 DEF Begin, Ask
  <2>2. CASE r # q
    <3>1. count'[r] = count[r] /\ pc'[r] = pc[r] /\ UNCHANGED born
      BY <1>t, <1>2, <2>2 DEF Begin, Ask, Goto
    <3> QED BY <1>old, <3>1
  <2> QED BY <2>1, <2>2
<1>3. ASSUME NEW q \in Requests, NEW to, to \notin {"new", "append"},
             pc' = [pc EXCEPT ![q] = to], UNCHANGED <<count, born>>
      PROVE  <<r, n>> \notin Born'
  <2>1. pc'[r] = pc[r] \/ pc'[r] \notin {"new", "append"}
    BY <1>t, <1>3
  <2> QED BY <1>3, <1>old, <2>1
<1>4. ASSUME NEW q \in Requests, Enqueue(q) \/ SyncWrite(q) PROVE <<r, n>> \notin Born'
  <2>1. CASE Continue(q)
    <3>1. PICK to \in {"exists", "ask", "ended"} : pc' = [pc EXCEPT ![q] = to]
      BY <2>1, Continues
    <3> QED BY <1>3, <1>4, <3>1 DEF Enqueue, SyncWrite
  <2>2. CASE Goto(q, "sync")
    BY <1>3, <1>4, <2>2 DEF Enqueue, SyncWrite, Goto
  <2> QED BY <1>4, <2>1, <2>2 DEF Enqueue, SyncWrite
<1>5. ASSUME NEW q \in Requests,
             \/ ReadExists(q) \/ ReadRange(q) \/ ReadDb(q) \/ Refill(q) \/ Fill(q)
             \/ ClearList(q) \/ ClearDb(q)
      PROVE  <<r, n>> \notin Born'
  <2>1. PICK to \in {"range", "readDb", "ask", "refill", "fill", "clearDb", "ended"} :
          pc' = [pc EXCEPT ![q] = to]
    BY <1>5 DEF ReadExists, ReadRange, ReadDb, Refill, Fill, ClearList, ClearDb, Goto
  <2>2. UNCHANGED <<count, born>>
    BY <1>5 DEF ReadExists, ReadRange, ReadDb, Refill, Fill, ClearList, ClearDb
  <2> QED BY <1>3, <2>1, <2>2
<1>6. CASE \/ \E q \in Requests : GetLate(q)
           \/ WorkerTries \/ SweepStart \/ SweepWrite \/ Tick \/ RedisLosesList \/ UNCHANGED vars
  BY <1>6, <1>old DEF GetLate, WorkerTries, SweepStart, SweepWrite, Tick, RedisLosesList, vars
<1>7. CASE Restart
  <2>1. pc'[r] = pc[r] \/ pc'[r] \notin {"new", "append"}
    BY <1>7 DEF Restart
  <2> QED BY <1>7, <1>old, <2>1 DEF Restart
<1> QED BY <1>1, <1>2, <1>4, <1>5, <1>6, <1>7 DEF Next, Request

LEMMA BirthStep == TypeOK /\ BirthInv /\ PlacesInv /\ RefillInv /\ [Next]_vars => BirthInv'
<1> SUFFICES ASSUME TypeOK, BirthInv, PlacesInv, RefillInv, [Next]_vars PROVE BirthInv'
  OBVIOUS
<1>1. \A b \in Born' : born'[b] <= now'
  <2>1. \A b \in Born : born[b] <= now /\ born[b] \in Nat
    BY ConstantsAssumption DEF BirthInv, Born, TypeOK, Unborn
  <2> QED BY <2>1, BornStays, Clock
<1>2. \A r \in Requests, n \in 1 .. MaxRounds + 1 :
        n > count'[r] \/ (n = count'[r] /\ pc'[r] \in {"new", "append"}) => <<r, n>> \notin Born'
  BY NextIsNew
<1> QED BY <1>1, <1>2, PlacedBefore, ListedBefore DEF BirthInv

-------------------------------------------------------------------------------
(* No batch is in two places.                                              *)

(* What may be repeated stays so.                                           *)
LEMMA UnsureStays ==
  ASSUME TypeOK, BirthInv, PlacesInv, [Next]_vars
  PROVE  unsure \subseteq unsure'
BY Whereabouts DEF Quiet, Death, Clearing, Birth, Delivery

LEMMA PlacesStep == TypeOK /\ BirthInv /\ PlacesInv /\ [Next]_vars => PlacesInv'
<1> SUFFICES ASSUME TypeOK, BirthInv, PlacesInv, [Next]_vars PROVE PlacesInv'
  OBVIOUS
<1> USE DEF redis, mysql, past
<1> DEFINE Row == /\ OnItsWay' \cap (InDb' \cup InRead') \subseteq unsure'
                  /\ RepeatsOnly(Batches(db'), unsure') /\ RepeatsOnly(Batches(sweep'.read), unsure')
<1>p. /\ OnItsWay \cap (InDb \cup InRead) \subseteq unsure
      /\ RepeatsOnly(Batches(db), unsure) /\ RepeatsOnly(Batches(sweep.read), unsure)
      /\ OnItsWay \cup InDb \cup InRead \subseteq Born
  BY DEF PlacesInv, BirthInv
<1>1. ASSUME Quiet PROVE Row
  <2>1. /\ UNCHANGED <<db, sweep, unsure>> /\ InDb' = InDb /\ InRead' = InRead
        /\ OnItsWay' = OnItsWay
    BY <1>1 DEF Quiet, InDb, InRead, Batches
  <2> QED BY <1>p, <2>1
<1>2. ASSUME NEW b \in Batch, Birth(b) PROVE Row
  <2>1. /\ UNCHANGED <<db, sweep, unsure>> /\ InDb' = InDb /\ InRead' = InRead
        /\ OnItsWay' = OnItsWay \cup {b} /\ b \notin Born
    BY <1>2 DEF Birth, InDb, InRead, Batches
  <2> QED BY <1>p, <2>1
<1>3. ASSUME NEW b \in Batch, Delivery(b) PROVE Row
  <2>1. /\ UNCHANGED sweep /\ InRead' = InRead /\ OnItsWay' \subseteq OnItsWay /\ b \in OnItsWay
        /\ unsure \subseteq unsure'
    BY <1>3 DEF Delivery, InRead, Batches
  <2>2. RepeatsOnly(Batches(db), unsure') /\ RepeatsOnly(Batches(sweep.read), unsure')
    BY <1>p, <2>1, RepeatsMore
  <2>3. CASE UNCHANGED db
    <3>1. InDb' = InDb
      BY <2>3 DEF InDb, Batches
    <3> QED BY <1>p, <2>1, <2>2, <2>3, <3>1
  <2>4. CASE AppendDb(b) /\ (b \in OnItsWay' => b \in unsure')
    <3>1. b \in InDb => b \in unsure'
      BY <1>p, <2>1
    <3>2. InDb' \subseteq InDb \cup {b} /\ RepeatsOnly(Batches(db'), unsure')
      BY <2>2, <2>4, <3>1, AppendedRow
    <3> QED BY <1>p, <2>1, <2>2, <2>4, <3>2
  <2> QED BY <1>3, <2>3, <2>4 DEF Delivery
<1>4. ASSUME Death PROVE Row
  <2>1. /\ UNCHANGED <<db, unsure>> /\ OnItsWay' = {} /\ sweep'.read = <<>>
        /\ RepeatsOnly(Batches(<<>>), unsure)
    BY <1>4 DEF Death, NoSweep, RepeatsOnly, Batches
  <2> QED BY <1>p, <2>1
<1>5. ASSUME Clearing PROVE Row
  <2>1. OnItsWay' = OnItsWay /\ unsure' = unsure
    BY <1>5 DEF Clearing
  <2> QED BY <1>5, <1>p, <2>1, ClearingRow
<1>6. Row
  BY <1>1, <1>2, <1>3, <1>4, <1>5, Whereabouts
<1>7. Apart'
  BY Whereabouts
<1> QED BY <1>6, <1>7 DEF PlacesInv, Apart, Batches, RepeatsOnly

-------------------------------------------------------------------------------
(* Stamps, and what is forgotten.                                          *)

(* The entries of the row, and of what the cleanup has read, after a step.  *)
LEMMA RowMoves ==
  ASSUME TypeOK, BirthInv, PlacesInv, [Next]_vars
  PROVE  /\ \A e \in ToSet(db') : \/ e \in ToSet(db) \cup ToSet(sweep.read)
                                  \/ \E b \in OnItsWay : e = [batch |-> b, at |-> now]
         /\ updated' = now \/ (updated' = updated /\ ToSet(db') \subseteq ToSet(db))
         /\ ToSet(sweep'.read) \subseteq ToSet(db) \cup ToSet(sweep.read)
<1> USE DEF mysql, owed, past
<1>1. CASE UNCHANGED <<db, updated, sweep>>
  BY <1>1
<1>2. ASSUME NEW b \in Batch, Delivery(b), AppendDb(b)
      PROVE  /\ ToSet(db') \subseteq ToSet(db) \cup {[batch |-> b, at |-> now]}
             /\ updated' = now /\ UNCHANGED sweep /\ b \in OnItsWay
  BY <1>2, AppendedRow DEF Delivery
<1>3. CASE \E b \in Batch : Delivery(b) /\ AppendDb(b)
  <2>1. PICK b \in Batch : Delivery(b) /\ AppendDb(b)
    BY <1>3
  <2>2. /\ ToSet(db') \subseteq ToSet(db) \cup {[batch |-> b, at |-> now]}
        /\ updated' = now /\ UNCHANGED sweep /\ b \in OnItsWay
    BY <1>2, <2>1
  <2> QED BY <2>2
<1>4. CASE Death
  BY <1>4 DEF Death, NoSweep, ToSet
<1>5. CASE Clearing
  BY <1>5, ClearingRow
<1> QED
  BY <1>1, <1>3, <1>4, <1>5, Whereabouts DEF Quiet, Birth, Delivery

LEMMA StampStep == TypeOK /\ BirthInv /\ PlacesInv /\ StampInv /\ [Next]_vars => StampInv'
<1> SUFFICES ASSUME TypeOK, BirthInv, PlacesInv, StampInv, [Next]_vars PROVE StampInv'
  OBVIOUS
<1>1. /\ \A e \in ToSet(db) \cup ToSet(sweep.read) : e \in Entry /\ e.batch \in Born
      /\ InDb \cup InRead \cup OnItsWay \subseteq Born
  <2>1. InDb \cup InRead \cup OnItsWay \subseteq Born
    BY DEF BirthInv
  <2>2. \A e \in ToSet(db) : e \in Entry /\ e.batch \in InDb
    BY BatchesProperties DEF TypeOK, InDb
  <2>3. \A e \in ToSet(sweep.read) : e \in Entry /\ e.batch \in InRead
    BY BatchesProperties DEF TypeOK, InRead
  <2> QED BY <2>1, <2>2, <2>3
<1>2. \A e \in ToSet(db) \cup ToSet(sweep.read) :
        e.at \in Nat /\ born'[e.batch] <= e.at /\ e.at <= now
  <2>1. \A e \in ToSet(db) \cup ToSet(sweep.read) :
          e.at \in Nat /\ born[e.batch] <= e.at /\ e.at <= now
    <3>1. updated \in Nat /\ now \in Nat /\ updated <= now
      BY ConstantsAssumption DEF StampInv, TypeOK, Time
    <3>2. \A e \in Entry : e.at \in Nat
      BY ConstantsAssumption DEF Entry, Time
    <3> QED BY <1>1, <3>1, <3>2 DEF StampInv
  <2> QED BY <1>1, <2>1, BornStays
<1>3. \A b \in OnItsWay : born'[b] <= now
  BY <1>1, BornStays DEF BirthInv
<1>4. now \in Nat /\ now' \in Nat /\ now <= now' /\ updated \in Nat /\ updated <= now
  <2>1. updated \in Nat /\ updated <= now
    BY ConstantsAssumption DEF TypeOK, Time, StampInv
  <2> QED BY <2>1, Clock
<1>5. updated' <= now'
  BY <1>4, RowMoves
<1>6. ASSUME NEW e \in ToSet(db') PROVE born'[e.batch] <= e.at /\ e.at <= updated'
  <2>1. born'[e.batch] <= e.at /\ e.at <= now
    <3>1. CASE e \in ToSet(db) \cup ToSet(sweep.read)
      BY <1>2, <3>1
    <3>2. CASE \E b \in OnItsWay : e = [batch |-> b, at |-> now]
      BY <1>3, <1>4, <3>2
    <3> QED BY <3>1, <3>2, RowMoves
  <2>2. CASE updated' = now
    BY <2>1, <2>2
  <2>3. CASE updated' = updated /\ ToSet(db') \subseteq ToSet(db)
    BY <2>1, <2>3 DEF StampInv
  <2> QED BY <2>2, <2>3, RowMoves
<1>7. ASSUME NEW e \in ToSet(sweep'.read) PROVE born'[e.batch] <= e.at /\ e.at <= now'
  <2>1. e \in ToSet(db) \cup ToSet(sweep.read)
    BY RowMoves
  <2> QED BY <1>2, <1>4, <2>1
<1>8. ToSet(db)' = ToSet(db') /\ ToSet(sweep.read)' = ToSet(sweep'.read)
  BY DEF ToSet
<1> QED BY <1>5, <1>6, <1>7, <1>8 DEF StampInv

LEMMA EntryOf ==
  ASSUME TypeOK, NEW b \in InDb
  PROVE  \E e \in ToSet(db) : e.batch = b /\ e \in Entry /\ e.at \in Nat
<1>1. db \in Seq(Entry) /\ InDb = {e.batch : e \in ToSet(db)} /\ ToSet(db) \subseteq Entry
  <2>1. db \in Seq(Entry)
    BY DEF TypeOK
  <2> QED BY <2>1, BatchesProperties DEF InDb
<1>2. PICK e \in ToSet(db) : e.batch = b
  BY <1>1
<1>3. e \in Entry /\ e.at \in Nat
  BY <1>1, ConstantsAssumption DEF Entry, Time
<1> QED BY <1>2, <1>3

(* An entry that is pruned is not recent.                                   *)
LEMMA PrunedIsOld ==
  ASSUME TypeOK, BirthInv, StampInv, NEW e \in ToSet(db), e.at < Cutoff
  PROVE  ~Recent(e.batch)
<1>1. e \in Entry /\ e.batch \in Batch
  BY BatchesProperties DEF TypeOK, Entry
<1>2. e.at \in Nat /\ born[e.batch] \in Nat /\ born[e.batch] <= e.at /\ Window \in Nat
  BY <1>1, ConstantsAssumption DEF TypeOK, Entry, Time, StampInv, Unborn
<1>3. e.at + Window < now /\ now \in Nat
  BY <1>2, CutoffProperties
<1> QED BY <1>2, <1>3 DEF Recent

LEMMA ForgetStep ==
  TypeOK /\ BirthInv /\ PlacesInv /\ StampInv /\ NothingForgotten /\ [Next]_vars => NothingForgotten'
<1> SUFFICES ASSUME TypeOK, BirthInv, PlacesInv, StampInv, NothingForgotten, [Next]_vars,
                    NEW b \in Born', Recent(b)'
             PROVE  b \in InDb' \cup OnItsWay' \cup lost' \cup cleared'
  BY DEF NothingForgotten, OnItsWay, InQueue, InHands, Hands
<1> USE DEF mysql, owed, past
<1>1. CASE b \notin Born
  <2>1. PICK c \in Batch : Birth(c)
    BY <1>1, Whereabouts DEF Quiet, Death, Clearing, Delivery, Born
  <2>2. b = c
    <3>1. \A d \in Batch : d # c => born'[d] = born[d]
      BY <2>1 DEF Birth, TypeOK
    <3> QED BY <1>1, <3>1 DEF Born
  <2> QED BY <2>1, <2>2 DEF Birth
<1>2. CASE b \in Born
  <2>1. Recent(b)
    <3>1. born'[b] = born[b] /\ born[b] <= now
      BY <1>2, BornStays DEF BirthInv
    <3>2. born[b] \in Nat /\ Window \in Nat
      BY <1>2, ConstantsAssumption DEF TypeOK, Born, Unborn
    <3> QED BY <3>1, <3>2, Clock DEF Recent
  <2>2. b \in InDb \cup OnItsWay \cup lost \cup cleared
    BY <1>2, <2>1 DEF NothingForgotten, OnItsWay, InQueue, InHands, Hands
  <2>3. CASE Quiet \/ Death \/ \E c \in Batch : Birth(c)
    <3>1. InDb' = InDb /\ lost \subseteq lost' /\ cleared' = cleared
          /\ OnItsWay \subseteq OnItsWay' \cup lost'
      BY <2>3 DEF Quiet, Death, Birth, InDb, Batches
    <3> QED BY <2>2, <3>1
  <2>4. ASSUME NEW c \in Batch, Delivery(c) PROVE b \in InDb' \cup OnItsWay' \cup lost' \cup cleared'
    <3>1. OnItsWay \ {c} \subseteq OnItsWay' /\ lost \subseteq lost' /\ cleared' = cleared
      BY <2>4 DEF Delivery
    <3>2. CASE UNCHANGED db /\ (c \notin OnItsWay' => c \in lost')
      BY <2>2, <3>1, <3>2 DEF InDb, Batches
    <3>3. CASE AppendDb(c)
      <4>1. c \in InDb'
        BY <3>3, AppendedRow
      <4>2. ASSUME b \in InDb PROVE b \in InDb'
        <5>1. PICK e \in ToSet(db) : e.batch = b /\ e \in Entry /\ e.at \in Nat
          BY <4>2, EntryOf
        <5>2. ~(e.at < Cutoff)
          BY <2>1, <5>1, PrunedIsOld
        <5>3. e.at \in Nat /\ Cutoff \in Nat
          BY <5>1, CutoffProperties, ConstantsAssumption DEF Time
        <5>4. e \in ToSet(db') /\ db' \in Seq(Entry)
          BY <3>3, <5>1, <5>2, <5>3, AppendedRow
        <5>5. b \in ToSet(Batches(db'))
          BY <5>1, <5>4, BatchesProperties
        <5> QED BY <5>5 DEF InDb, Batches, ToSet
      <4> QED BY <2>2, <3>1, <4>1, <4>2
    <3> QED BY <2>4, <3>2, <3>3 DEF Delivery
  <2>5. CASE Clearing
    <3>1. OnItsWay' = OnItsWay /\ lost \subseteq lost' /\ cleared \subseteq cleared'
      BY <2>5, ClearingRow DEF Clearing
    <3>2. ASSUME b \in InDb, db' = <<>>, updated < Cutoff PROVE FALSE
      <4>1. PICK e \in ToSet(db) : e.batch = b /\ e \in Entry /\ e.at \in Nat
        BY <3>2, EntryOf
      <4>2. Cutoff \in Nat /\ updated \in Nat /\ e.at <= updated
        <5>1. updated \in Time /\ Cutoff \in Time
          BY CutoffProperties DEF TypeOK
        <5>2. e.at <= updated
          BY <4>1 DEF StampInv
        <5> QED BY <5>1, <5>2, ConstantsAssumption DEF Time
      <4>3. e.at < Cutoff
        BY <3>2, <4>1, <4>2
      <4> QED BY <2>1, <4>1, <4>3, PrunedIsOld
    <3>3. b \in InDb => b \in InDb' \cup lost' \cup cleared'
      BY <2>5, <3>2, ClearingRow
    <3> QED BY <2>2, <3>1, <3>3
  <2> QED BY <2>3, <2>4, <2>5, Whereabouts
<1> QED BY <1>1, <1>2

-------------------------------------------------------------------------------
(* Refills.                                                                *)

(* Steps that list at most what is born with them, and start no refill.     *)
LEMMA RefillStays ==
  ASSUME RefillInv, Born \subseteq Born', unsure \subseteq unsure',
         RepeatsOnly(list, unsure) => RepeatsOnly(list', unsure'),
         InList' \cap Born \subseteq InList, mixed' = mixed,
         \A r \in Requests : pc'[r] \in {"refill", "fill"} => pc'[r] = pc[r] /\ saw'[r] = saw[r]
  PROVE  RefillInv'
<1>1. ASSUME NEW r \in Requests, pc'[r] \in {"refill", "fill"}
      PROVE  RepeatsOnly(saw'[r], unsure') /\ ToSet(saw'[r]) \subseteq Born'
  BY <1>1, RepeatsMore DEF RefillInv
<1>2. CASE mixed
  BY <1>1, <1>2 DEF RefillInv, RepeatsOnly, ToSet
<1>3. CASE ~mixed
  <2>1. /\ RepeatsOnly(list, unsure)
        /\ \A p, q \in Requests : pc[p] = "fill" /\ pc[q] = "fill" => p = q
        /\ \A r \in Requests : pc[r] = "fill" => ToSet(saw[r]) \cap InList = {}
    BY <1>3 DEF RefillInv
  <2>2. ASSUME NEW r \in Requests, pc'[r] = "fill" PROVE ToSet(saw'[r]) \cap InList' = {}
    <3>1. pc[r] = "fill" /\ saw'[r] = saw[r] /\ ToSet(saw[r]) \subseteq Born
      BY <2>2 DEF RefillInv
    <3> QED BY <2>1, <3>1
  <2>3. \A p, q \in Requests : pc'[p] = "fill" /\ pc'[q] = "fill" => p = q
    BY <2>1
  <2> QED BY <1>1, <2>1, <2>2, <2>3 DEF RefillInv, RepeatsOnly, ToSet
<1> QED BY <1>2, <1>3

LEMMA RefillStep ==
  TypeOK /\ StagesInv /\ BirthInv /\ PlacesInv /\ RefillInv /\ [Next]_vars => RefillInv'
<1> SUFFICES ASSUME TypeOK, StagesInv, BirthInv, PlacesInv, RefillInv, [Next]_vars
             PROVE  RefillInv'
  OBVIOUS
<1> USE DEF redis, mysql, owed, request, past
<1>t. /\ pc \in [Requests -> Stages] /\ saw \in [Requests -> Seq(Batch)] /\ list \in Seq(Batch)
      /\ Born \subseteq Born' /\ unsure \subseteq unsure'
  BY BornStays, UnsureStays DEF TypeOK
<1>more. \A s : RepeatsOnly(s, unsure) => RepeatsOnly(s, unsure')
  BY UnsureStays, RepeatsMore
<1>none. RepeatsOnly(<<>>, unsure')
  BY DEF RepeatsOnly
<1>same. ASSUME list' = list \/ list' = <<>>
         PROVE  (RepeatsOnly(list, unsure) => RepeatsOnly(list', unsure')) /\ InList' \cap Born \subseteq InList
  BY <1>same, <1>more, <1>none DEF InList, ToSet
<1>move. ASSUME NEW r \in Requests, NEW to, pc' = [pc EXCEPT ![r] = to], to \notin {"refill", "fill"},
                \A q \in Requests \ {r} : saw'[q] = saw[q]
         PROVE  \A q \in Requests :
                  pc'[q] \in {"refill", "fill"} => pc'[q] = pc[q] /\ saw'[q] = saw[q]
  BY <1>t, <1>move
<1>1. ASSUME NEW r \in Requests,
             \/ Begin(r) \/ ReadExists(r) \/ ReadRange(r) \/ Ask(r) \/ ClearList(r) \/ ClearDb(r)
      PROVE  RefillInv'
  <2>1. PICK to \in {"append", "clearList", "range", "readDb", "ask", "ended", "clearDb"} :
          pc' = [pc EXCEPT ![r] = to]
    BY <1>1 DEF Begin, ReadExists, ReadRange, Ask, ClearList, ClearDb, Goto
  <2>2. \A q \in Requests \ {r} : saw'[q] = saw[q]
    BY <1>1, <1>t DEF Begin, ReadExists, ReadRange, Ask, ClearList, ClearDb
  <2>3. (list' = list \/ list' = <<>>) /\ mixed' = mixed
    BY <1>1 DEF Begin, ReadExists, ReadRange, Ask, ClearList, ClearDb
  <2>4. \A q \in Requests :
          pc'[q] \in {"refill", "fill"} => pc'[q] = pc[q] /\ saw'[q] = saw[q]
    BY <1>move, <2>1, <2>2
  <2> QED BY <1>t, <1>same, <2>3, <2>4, RefillStays
<1>2. ASSUME NEW r \in Requests, AppendToList(r) PROVE RefillInv'
  <2>1. mixed' = mixed /\ \A q \in Requests :
          pc'[q] \in {"refill", "fill"} => pc'[q] = pc[q] /\ saw'[q] = saw[q]
    BY <1>2, <1>t DEF AppendToList, Goto
  <2>2. Current(r) \in Batch /\ Current(r) \notin Born
    <3>1. count[r] \in 1 .. MaxRounds + 1
      BY DEF TypeOK
    <3> QED BY <1>2, <3>1, CurrentIsBatch DEF AppendToList, BirthInv, Current
  <2>3. CASE Push(Current(r))
    <3>1. InList' = InList \cup {Current(r)}
      BY <2>2, <2>3, PushTypes
    <3>2. Current(r) \notin InList
      BY <2>2 DEF BirthInv
    <3>3. RepeatsOnly(list, unsure) => RepeatsOnly(list', unsure')
      BY <1>t, <1>more, <2>2, <2>3, <3>2, AppendRepeats DEF Push, InList
    <3> QED BY <1>t, <2>1, <2>2, <3>1, <3>3, RefillStays
  <2>4. CASE UNCHANGED redis
    BY <1>t, <1>same, <2>1, <2>4, RefillStays
  <2> QED BY <1>2, <2>3, <2>4 DEF AppendToList
<1>3. ASSUME NEW r \in Requests, Enqueue(r) \/ SyncWrite(r) PROVE RefillInv'
  <2>1. \E to \in {"exists", "ask", "ended", "sync"} : pc' = [pc EXCEPT ![r] = to]
    <3>1. CASE Continue(r)
      BY <3>1, Continues
    <3>2. CASE Goto(r, "sync")
      BY <3>2 DEF Goto
    <3> QED BY <1>3, <3>1, <3>2 DEF Enqueue, SyncWrite
  <2>2. UNCHANGED <<list, mixed, saw>>
    BY <1>3 DEF Enqueue, SyncWrite
  <2>3. \A q \in Requests :
          pc'[q] \in {"refill", "fill"} => pc'[q] = pc[q] /\ saw'[q] = saw[q]
    BY <1>move, <2>1, <2>2
  <2> QED BY <1>t, <1>same, <2>2, <2>3, RefillStays
<1>4. ASSUME NEW r \in Requests, ReadDb(r) PROVE RefillInv'
  <2>1. /\ pc' = [pc EXCEPT ![r] = "refill"] /\ UNCHANGED <<list, mixed, born>> /\ pc[r] = "readDb"
        /\ \A q \in Requests \ {r} : saw'[q] = saw[q]
    BY <1>4, <1>t DEF ReadDb, Goto
  <2>2. RepeatsOnly(saw'[r], unsure') /\ ToSet(saw'[r]) \subseteq Born
    <3>1. CASE saw' = [saw EXCEPT ![r] = Batches(Prune(db, Cutoff))]
      <4>1. /\ db \in Seq(Entry) /\ Prune(db, Cutoff) \in Seq(Entry)
            /\ ToSet(Prune(db, Cutoff)) \subseteq ToSet(db)
            /\ RepeatsOnly(Batches(Prune(db, Cutoff)), unsure)
        BY PruneProperties DEF TypeOK, PlacesInv
      <4>2. ToSet(Batches(Prune(db, Cutoff))) \subseteq InDb
        BY <4>1, BatchesProperties DEF InDb
      <4>3. saw'[r] = Batches(Prune(db, Cutoff))
        BY <1>t, <3>1
      <4> QED BY <1>more, <4>1, <4>2, <4>3 DEF BirthInv
    <3>2. CASE UNCHANGED saw
      <4>1. saw'[r] = <<>>
        BY <2>1, <3>2 DEF StagesInv
      <4> QED BY <4>1 DEF RepeatsOnly, ToSet
    <3> QED BY <1>4, <3>1, <3>2 DEF ReadDb
  <2>3. /\ \A q \in Requests \ {r} : pc'[q] = pc[q]
        /\ pc'[r] = "refill" /\ InList' = InList /\ Born' = Born
    BY <1>t, <2>1 DEF InList, Born
  <2>4. \A q \in Requests :
          pc'[q] \in {"refill", "fill"} => RepeatsOnly(saw'[q], unsure') /\ ToSet(saw'[q]) \subseteq Born'
    BY <1>more, <2>1, <2>2, <2>3 DEF RefillInv
  <2>5. CASE mixed
    BY <2>1, <2>4, <2>5 DEF RefillInv, RepeatsOnly, ToSet
  <2>6. CASE ~mixed
    <3>1. /\ RepeatsOnly(list, unsure)
          /\ \A p, q \in Requests : pc[p] = "fill" /\ pc[q] = "fill" => p = q
          /\ \A q \in Requests : pc[q] = "fill" => ToSet(saw[q]) \cap InList = {}
      BY <2>6 DEF RefillInv
    <3>2. \A q \in Requests : pc'[q] = "fill" => pc[q] = "fill" /\ saw'[q] = saw[q]
      BY <2>1, <2>3
    <3>3. RepeatsOnly(list', unsure')
      BY <1>more, <2>1, <3>1
    <3>4. \A q \in Requests : pc'[q] = "fill" => ToSet(saw'[q]) \cap InList' = {}
      BY <2>3, <3>1, <3>2
    <3>5. \A p, q \in Requests : pc'[p] = "fill" /\ pc'[q] = "fill" => p = q
      BY <3>1, <3>2
    <3> QED BY <2>4, <3>3, <3>4, <3>5 DEF RefillInv, RepeatsOnly, ToSet
  <2> QED BY <2>5, <2>6
<1>5. ASSUME NEW r \in Requests, Refill(r) PROVE RefillInv'
  <2>1. /\ pc[r] = "refill" /\ UNCHANGED saw
        /\ mixed' = (mixed \/ \E q \in Requests : pc[q] = "fill")
        /\ \/ list' = <<>> /\ \E to \in {"ask", "fill"} : pc' = [pc EXCEPT ![r] = to]
           \/ list' = list /\ pc' = [pc EXCEPT ![r] = "ask"]
    BY <1>5 DEF Refill, Goto
  <2>2. \A q \in Requests :
          pc'[q] \in {"refill", "fill"} => RepeatsOnly(saw'[q], unsure') /\ ToSet(saw'[q]) \subseteq Born'
    BY <1>t, <1>more, <2>1 DEF RefillInv
  <2>3. CASE mixed'
    BY <2>2, <2>3 DEF RefillInv, RepeatsOnly, ToSet
  <2>4. CASE ~mixed'
    <3>1. ~mixed /\ RepeatsOnly(list, unsure) /\ \A q \in Requests : pc[q] # "fill"
      BY <2>1, <2>4 DEF RefillInv
    <3>2. \A p \in Requests : pc'[p] = "fill" => p = r /\ list' = <<>>
      BY <1>t, <2>1, <3>1
    <3>3. RepeatsOnly(list, unsure) => RepeatsOnly(list', unsure')
      BY <1>same, <2>1
    <3>4. list' = <<>> => InList' = {}
      BY DEF InList, ToSet
    <3>5. \A p \in Requests : pc'[p] = "fill" => ToSet(saw'[p]) \cap InList' = {}
      BY <3>2, <3>4
    <3>6. \A p, q \in Requests : pc'[p] = "fill" /\ pc'[q] = "fill" => p = q
      BY <3>2
    <3> QED BY <2>2, <3>1, <3>3, <3>5, <3>6 DEF RefillInv, RepeatsOnly, ToSet
  <2> QED BY <2>3, <2>4
<1>6. ASSUME NEW r \in Requests, Fill(r) PROVE RefillInv'
  <2>1. pc[r] = "fill" /\ pc' = [pc EXCEPT ![r] = "ask"] /\ UNCHANGED <<saw, mixed>>
    BY <1>6 DEF Fill, Goto
  <2>2. \A q \in Requests :
          pc'[q] \in {"refill", "fill"} => pc'[q] = pc[q] /\ saw'[q] = saw[q]
    BY <1>move, <2>1
  <2>3. CASE UNCHANGED redis
    BY <1>t, <1>same, <2>1, <2>2, <2>3, RefillStays
  <2>4. CASE list' = list \o saw[r]
    <3>1. \A q \in Requests :
            pc'[q] \in {"refill", "fill"} => RepeatsOnly(saw'[q], unsure') /\ ToSet(saw'[q]) \subseteq Born'
      BY <1>t, <1>more, <2>2 DEF RefillInv
    <3>2. CASE mixed
      BY <2>1, <3>1, <3>2 DEF RefillInv, RepeatsOnly, ToSet
    <3>3. CASE ~mixed
      <4>1. /\ RepeatsOnly(list, unsure) /\ RepeatsOnly(saw[r], unsure) /\ saw[r] \in Seq(Batch)
            /\ \A q \in Requests : pc[q] = "fill" => q = r
            /\ ToSet(saw[r]) \cap InList = {}
        BY <1>t, <2>1, <3>3 DEF RefillInv
      <4>2. RepeatsOnly(list', unsure')
        BY <1>t, <1>more, <2>4, <4>1, ConcatRepeats DEF InList
      <4>3. \A q \in Requests : pc'[q] # "fill"
        BY <1>t, <2>1, <4>1
      <4> QED BY <3>1, <4>2, <4>3 DEF RefillInv, RepeatsOnly, ToSet
    <3> QED BY <3>2, <3>3
  <2> QED BY <1>6, <2>3, <2>4 DEF Fill
<1>7. CASE \/ \E r \in Requests : GetLate(r)
           \/ WorkerTries \/ SweepStart \/ SweepWrite \/ Tick \/ RedisLosesList \/ UNCHANGED vars
  <2>1. UNCHANGED <<pc, saw, mixed>> /\ (list' = list \/ list' = <<>>)
    BY <1>7 DEF GetLate, WorkerTries, SweepStart, SweepWrite, Tick, RedisLosesList, vars
  <2> QED BY <1>t, <1>same, <2>1, RefillStays
<1>8. CASE Restart
  <2>1. mixed' = mixed /\ (list' = list \/ list' = Batches(db))
        /\ \A q \in Requests : pc'[q] \notin {"refill", "fill"}
    BY <1>8 DEF Restart, Active
  <2>2. RepeatsOnly(list, unsure) => RepeatsOnly(list', unsure')
    BY <1>more, <2>1 DEF PlacesInv
  <2> QED BY <2>1, <2>2 DEF RefillInv, RepeatsOnly
<1> QED
  BY <1>1, <1>2, <1>3, <1>4, <1>5, <1>6, <1>7, <1>8 DEF Next, Request

-------------------------------------------------------------------------------
LEMMA InitInv == Init => IInv
<1> SUFFICES ASSUME Init PROVE IInv
  OBVIOUS
<1>e. /\ <<>> \in Seq(Batch) /\ <<>> \in Seq(Entry) /\ Len(<<>>) = 0
      /\ ToSet(<<>>) = {} /\ Batches(<<>>) = <<>> /\ IsInjective(<<>>)
      /\ \A U : RepeatsOnly(<<>>, U)
  BY EmptySeq DEF ToSet, Batches, IsInjective, RepeatsOnly
<1>1. /\ Born = {} /\ Hands = {} /\ InHands = {} /\ InQueue = {} /\ InDb = {} /\ InList = {}
      /\ sweep.read = <<>> /\ InRead = {}
  <2>1. \A b \in Batch : ~(born[b] <= MaxTime)
    BY ConstantsAssumption DEF Init, Unborn
  <2>2. Born = {} /\ Hands = {}
    BY <2>1 DEF Born, Init, Hands
  <2> QED BY <1>e, <2>2 DEF Init, InHands, InQueue, InDb, InList, NoSweep, InRead
<1>2. TypeOK
  <2>1. 0 \in Time /\ 1 \in 1 .. MaxRounds + 1 /\ Unborn \in 0 .. Unborn
        /\ 0 <= Capacity + WorkerCount /\ 0 \in 0 .. MaxTries - 1
    BY ConstantsAssumption DEF Time, Unborn
  <2>2. NoSweep \in [busy : BOOLEAN, cutoff : Time, read : Seq(Entry)]
    BY <1>e, <2>1 DEF NoSweep
  <2> QED BY <1>e, <2>1, <2>2 DEF Init, TypeOK, Stages
<1>3. StagesInv
  BY DEF Init, StagesInv
<1>4. BirthInv
  BY <1>1 DEF Init, BirthInv, OnItsWay
<1>5. PlacesInv
  BY <1>e, <1>1 DEF Init, PlacesInv, OnItsWay
<1>6. RefillInv
  BY <1>e, <1>1 DEF Init, RefillInv
<1>7. StampInv
  BY <1>e, <1>1, ConstantsAssumption DEF Init, StampInv
<1>8. NothingForgotten
  BY <1>1 DEF NothingForgotten
<1> QED BY <1>2, <1>3, <1>4, <1>5, <1>6, <1>7, <1>8 DEF IInv

(* The inductive invariant holds in every reachable state, whatever fails   *)
(* or interferes.                                                          *)
THEOREM Invariance == Spec => []IInv
<1>1. IInv /\ [Next]_vars => IInv'
  BY TypeStep, StagesStep, BirthStep, PlacesStep, RefillStep, StampStep, ForgetStep DEF IInv
<1> QED BY InitInv, <1>1, PTL DEF Spec

(* The variables have their types: the queue never holds more than its      *)
(* channel and its workers can, and no request has more than its rounds.    *)
THEOREM TypeCorrect == Spec => []TypeOK
<1>1. IInv => TypeOK
  BY DEF IInv
<1> QED BY Invariance, <1>1, PTL

(* The row has a batch twice only if one of its writes landed whose answer   *)
(* was lost, and the worker repeated it; the Redis list repeats no other,    *)
(* unless two requests refilled it at the same time.                       *)
THEOREM StoredOnce == Spec => []NoTwin
<1>1. IInv => NoTwin
  BY DEF IInv, PlacesInv, RefillInv, NoTwin
<1> QED BY Invariance, <1>1, PTL

(* Whatever happens to Redis, a batch of the last 24 hours is in MySQL or on *)
(* its way there, unless a reset, a failure of MySQL, a crash or the cleanup *)
(* accounts for it.                                                        *)
THEOREM Remembered == Spec => []NothingForgotten
<1>1. IInv => NothingForgotten
  BY DEF IInv
<1> QED BY Invariance, <1>1, PTL

-------------------------------------------------------------------------------
(* What a reset cleared from MySQL stays away: a batch that the row has is   *)
(* still on its way only while an unanswered write of it is being repeated.   *)

LEMMA ResetStep ==
  ASSUME "cleanup" \notin Disturbances
  PROVE  IInv /\ ResetInv /\ [Next]_vars => ResetInv'
<1> SUFFICES ASSUME IInv, ResetInv, [Next]_vars PROVE ResetInv'
  OBVIOUS
<1> USE DEF mysql, owed, past
<1>t. TypeOK /\ BirthInv /\ PlacesInv
  BY DEF IInv
<1>1. CASE Quiet
  <2>1. InDb' = InDb
    BY <1>1 DEF Quiet, InDb, Batches
  <2> QED BY <1>1, <2>1 DEF Quiet, ResetInv
<1>2. ASSUME NEW b \in Batch, Birth(b) PROVE ResetInv'
  <2>1. InDb' = InDb /\ b \notin cleared
    BY <1>t, <1>2 DEF Birth, BirthInv, InDb, Batches
  <2> QED BY <1>2, <2>1 DEF Birth, ResetInv
<1>3. ASSUME NEW b \in Batch, Delivery(b) PROVE ResetInv'
  <2>1. InDb' \subseteq InDb \cup {b}
    BY <1>t, <1>3, AppendedRow DEF Delivery, InDb, Batches
  <2> QED BY <1>3, <2>1 DEF Delivery, ResetInv
<1>4. CASE Death
  <2>1. InDb' = InDb
    BY <1>4 DEF Death, InDb, Batches
  <2> QED BY <1>4, <2>1 DEF Death, ResetInv, NoSweep
<1>5. CASE Clearing
  <2>1. PICK r \in Requests : ClearDb(r)
    BY <1>5 DEF Clearing, SweepStart, SweepWrite, ResetInv, May
  <2>2. OnItsWay' = OnItsWay /\ UNCHANGED <<sweep, unsure>>
    BY <1>5, <2>1 DEF Clearing, ClearDb
  <2>3. CASE db' = <<>> /\ cleared' = cleared \cup InDb
    <3>1. InDb' = {}
      BY <2>3 DEF InDb, Batches, ToSet
    <3>2. OnItsWay \cap InDb \subseteq unsure
      BY <1>t DEF PlacesInv
    <3> QED BY <2>2, <2>3, <3>1, <3>2 DEF ResetInv
  <2>4. CASE UNCHANGED <<db, cleared>>
    BY <2>2, <2>4 DEF ResetInv, InDb, Batches
  <2> QED BY <2>1, <2>3, <2>4 DEF ClearDb
<1> QED BY <1>t, <1>1, <1>2, <1>3, <1>4, <1>5, Whereabouts

(* Without the cleanup, what MySQL held when reset_conversation cleared it  *)
(* comes back to MySQL only if a write of it landed whose answer was lost.  *)
THEOREM ClearedStaysAway ==
  ASSUME "cleanup" \notin Disturbances
  PROVE  Spec => []ClearedRowIsGone
<1>1. Init => ResetInv
  <2> SUFFICES ASSUME Init PROVE ResetInv
    OBVIOUS
  <2>1. cleared = {} /\ sweep = NoSweep
    BY DEF Init
  <2> QED BY <2>1 DEF ResetInv, NoSweep
<1>2. ResetInv => ClearedRowIsGone
  BY DEF ResetInv, ClearedRowIsGone
<1> QED BY <1>1, <1>2, ResetStep, Invariance, PTL DEF Spec

-------------------------------------------------------------------------------
(* While Redis serves every command and nobody resets.                      *)

(* A request moves, and the rest stays.                                     *)
LEMMA HealthyStays ==
  ASSUME TypeOK, HealthyInv, NEW r \in Requests, NEW to, pc' = [pc EXCEPT ![r] = to],
         to \in {"append", "enqueue", "sync", "exists", "range", "ask", "ended"},
         Active(r), UNCHANGED <<redis, born, now, late, began>>,
         \A q \in Requests \ {r} : count'[q] = count[q],
         to \in {"enqueue", "sync", "exists", "range"} =>
           pc[r] \in {"enqueue", "sync", "exists", "range"} /\ count'[r] = count[r]
  PROVE  HealthyInv'
<1>1. /\ pc \in [Requests -> Stages] /\ pc'[r] = to
      /\ \A q \in Requests \ {r} : pc'[q] = pc[q]
      /\ UNCHANGED <<list, touched, born, now, late, began>>
  BY DEF TypeOK, redis
<1>2. \A q \in Requests :
        ~late'[q] /\ pc'[q] \notin {"readDb", "refill", "fill", "clearList", "clearDb", "gone"}
  BY <1>1 DEF HealthyInv
<1>3. Born' = Born /\ InList' = InList /\ \A b : Recent(b)' <=> Recent(b)
  BY <1>1 DEF Born, InList, ToSet, Recent
<1>4. ASSUME NEW q \in Requests, Active(q)' PROVE began'[q] <= now' /\ now' < began'[q] + Window
  <2>1. Active(q)
    BY <1>1, <1>4 DEF Active
  <2> QED BY <1>1, <2>1 DEF HealthyInv
<1>5. ASSUME NEW q \in Requests, pc'[q] \in {"enqueue", "sync", "exists", "range"}, count'[q] = 1
      PROVE  <<q, 1>> \in Born' /\ began'[q] <= born'[<<q, 1>>]
  <2>1. pc[q] \in {"enqueue", "sync", "exists", "range"} /\ count[q] = 1
    BY <1>1, <1>5
  <2> QED BY <1>1, <1>3, <2>1 DEF HealthyInv
<1>6. touched' <= now' /\ \A b \in Born' : born'[b] <= touched'
  BY <1>1, <1>3 DEF HealthyInv
<1>7. \A b \in Born' : Recent(b)' => b \in InList'
  BY <1>3 DEF HealthyInv
<1> QED BY <1>2, <1>4, <1>5, <1>6, <1>7 DEF HealthyInv

LEMMA HealthyStep ==
  ASSUME Disturbances \subseteq {"mysql", "unsure", "cleanup"}
  PROVE  TypeOK /\ StagesInv /\ HealthyInv /\ [Next]_vars => HealthyInv'
<1> SUFFICES ASSUME TypeOK, StagesInv, HealthyInv, [Next]_vars PROVE HealthyInv'
  OBVIOUS
<1> USE DEF redis, mysql, owed, request, past
<1>calm. ~May("redis") /\ ~May("late") /\ ~May("loss") /\ ~May("reset") /\ ~May("restart")
  BY DEF May
<1>works. \A r \in Requests : RedisWorks(r) /\ ~RedisFails(r)
  BY <1>calm DEF HealthyInv, RedisWorks, RedisFails
<1>t. /\ pc \in [Requests -> Stages] /\ now \in Nat /\ now <= MaxTime /\ Window \in Nat \ {0}
      /\ began \in [Requests -> Time] /\ born \in [Batch -> 0 .. Unborn] /\ touched \in Nat
      /\ \A r \in Requests : pc[r] \notin {"readDb", "refill", "fill", "clearList", "clearDb", "gone"}
  BY ConstantsAssumption DEF HealthyInv, TypeOK, Time
<1>1. ASSUME NEW r \in Requests, Begin(r) PROVE HealthyInv'
  <2>1. /\ pc' = [pc EXCEPT ![r] = "append"] /\ began' = [began EXCEPT ![r] = now]
        /\ UNCHANGED <<list, touched, born, now, late, count>>
    BY <1>1, <1>calm DEF Begin, Goto
  <2>2. /\ pc'[r] = "append" /\ began'[r] = now
        /\ \A q \in Requests \ {r} : pc'[q] = pc[q] /\ began'[q] = began[q]
    BY <1>t, <2>1
  <2>3. Born' = Born /\ InList' = InList /\ \A b : Recent(b)' <=> Recent(b)
    BY <2>1 DEF Born, InList, ToSet, Recent
  <2>4. \A q \in Requests :
          ~late'[q] /\ pc'[q] \notin {"readDb", "refill", "fill", "clearList", "clearDb", "gone"}
    BY <1>t, <2>1, <2>2 DEF HealthyInv
  <2>5. ASSUME NEW q \in Requests, Active(q)' PROVE began'[q] <= now' /\ now' < began'[q] + Window
    <3>1. CASE q = r
      BY <1>t, <2>1, <2>2, <3>1
    <3>2. CASE q # r
      <4>1. Active(q)
        BY <2>2, <2>5, <3>2 DEF Active
      <4> QED BY <2>1, <2>2, <3>2, <4>1 DEF HealthyInv
    <3> QED BY <3>1, <3>2
  <2>6. \A q \in Requests : pc'[q] \in {"enqueue", "sync", "exists", "range"} /\ count'[q] = 1 =>
          <<q, 1>> \in Born' /\ began'[q] <= born'[<<q, 1>>]
    BY <2>1, <2>2, <2>3 DEF HealthyInv
  <2>7. touched' <= now' /\ \A b \in Born' : born'[b] <= touched'
    BY <2>1, <2>3 DEF HealthyInv
  <2>8. \A b \in Born' : Recent(b)' => b \in InList'
    BY <2>3 DEF HealthyInv
  <2> QED BY <2>4, <2>5, <2>6, <2>7, <2>8 DEF HealthyInv
<1>2. ASSUME NEW r \in Requests, AppendToList(r) PROVE HealthyInv'
  <2>1. /\ pc' = [pc EXCEPT ![r] = "enqueue"] /\ Push(Current(r)) /\ pc[r] = "append"
        /\ born' = [born EXCEPT ![Current(r)] = now]
        /\ UNCHANGED <<now, late, count, began>>
    BY <1>2, <1>works DEF AppendToList, Goto
  <2>2. /\ pc'[r] = "enqueue" /\ \A q \in Requests \ {r} : pc'[q] = pc[q]
        /\ Current(r) \in Batch /\ touched' = now /\ InList' = InList \cup {Current(r)}
    BY <1>t, <2>1, CurrentIsBatch, PushTypes DEF Push
  <2>3. /\ \A b \in Batch : born'[b] = IF b = Current(r) THEN now ELSE born[b]
        /\ Born' = Born \cup {Current(r)}
    <3>1. \A b \in Batch : born'[b] = IF b = Current(r) THEN now ELSE born[b]
      BY <1>t, <2>1, <2>2
    <3> QED BY <1>t, <2>2, <3>1 DEF Born
  <2>4. \A q \in Requests :
          ~late'[q] /\ pc'[q] \notin {"readDb", "refill", "fill", "clearList", "clearDb", "gone"}
    BY <1>t, <2>1, <2>2 DEF HealthyInv
  <2>5. ASSUME NEW q \in Requests, Active(q)' PROVE began'[q] <= now' /\ now' < began'[q] + Window
    <3>1. Active(q)
      BY <2>1, <2>2, <2>5 DEF Active
    <3> QED BY <2>1, <3>1 DEF HealthyInv
  <2>6. ASSUME NEW q \in Requests, pc'[q] \in {"enqueue", "sync", "exists", "range"}, count'[q] = 1
        PROVE  <<q, 1>> \in Born' /\ began'[q] <= born'[<<q, 1>>]
    <3>1. CASE q = r
      <4>1. Current(r) = <<q, 1>>
        BY <2>1, <2>6, <3>1 DEF Current
      <4>2. began[q] <= now
        BY <2>1, <3>1 DEF HealthyInv, Active
      <4> QED BY <2>1, <2>2, <2>3, <4>1, <4>2
    <3>2. CASE q # r
      <4>1. <<q, 1>> \in Born /\ began[q] <= born[<<q, 1>>]
        BY <2>1, <2>2, <2>6, <3>2 DEF HealthyInv
      <4>2. <<q, 1>> # Current(r) /\ <<q, 1>> \in Batch
        BY <3>2, <4>1 DEF Current, Born
      <4> QED BY <2>1, <2>3, <4>1, <4>2
    <3> QED BY <3>1, <3>2
  <2>7. touched' <= now' /\ \A b \in Born' : born'[b] <= touched'
    <3>1. \A b \in Born : b \in Batch /\ born[b] <= now
      BY <1>t DEF HealthyInv, Born
    <3> QED BY <1>t, <2>1, <2>2, <2>3, <3>1
  <2>8. ASSUME NEW b \in Born', Recent(b)' PROVE b \in InList'
    <3>1. CASE b = Current(r)
      BY <2>2, <3>1
    <3>2. CASE b # Current(r)
      <4>1. b \in Born /\ b \in Batch /\ born'[b] = born[b]
        BY <2>3, <3>2 DEF Born
      <4>2. Recent(b)
        BY <2>1, <2>8, <4>1 DEF Recent
      <4> QED BY <2>2, <4>1, <4>2 DEF HealthyInv
    <3> QED BY <3>1, <3>2
  <2> QED BY <2>4, <2>5, <2>6, <2>7, <2>8 DEF HealthyInv
<1>3. ASSUME NEW r \in Requests, Enqueue(r) \/ SyncWrite(r) PROVE HealthyInv'
  <2>1. UNCHANGED <<list, touched, born, now, late, began, count>> /\ pc[r] \in {"enqueue", "sync"}
    BY <1>3 DEF Enqueue, SyncWrite
  <2>2. \E to \in {"exists", "ask", "ended", "sync"} : pc' = [pc EXCEPT ![r] = to]
    <3>1. CASE Continue(r)
      BY <3>1, Continues
    <3>2. CASE Goto(r, "sync")
      BY <3>2 DEF Goto
    <3> QED BY <1>3, <3>1, <3>2 DEF Enqueue, SyncWrite
  <2> QED BY <2>1, <2>2, HealthyStays DEF Active
<1>4. ASSUME NEW r \in Requests, ReadExists(r) PROVE HealthyInv'
  <2>1. list # <<>>
    <3>1. <<r, 1>> \in Born /\ began[r] <= born[<<r, 1>>]
          /\ now < began[r] + Window /\ born[<<r, 1>>] <= touched /\ touched <= now
      <4>1. pc[r] = "exists" /\ Active(r)
        BY <1>4 DEF ReadExists, Active
      <4>2. count[r] = 1
        BY <1>4 DEF ReadExists, StagesInv
      <4> QED BY <4>1, <4>2 DEF HealthyInv
    <3>2. began[r] \in Nat /\ born[<<r, 1>>] \in Nat
      BY <1>t, <3>1, ConstantsAssumption DEF Time, Born, Unborn
    <3>3. Recent(<<r, 1>>)
      BY <1>t, <3>1, <3>2 DEF Recent
    <3>4. <<r, 1>> \in InList
      BY <3>1, <3>3 DEF HealthyInv
    <3> QED BY <3>4 DEF InList, ToSet
  <2>2. pc' = [pc EXCEPT ![r] = "range"] /\ pc[r] = "exists"
        /\ UNCHANGED <<list, touched, born, now, late, began, count>>
    BY <1>4, <1>works, <2>1 DEF ReadExists, Goto
  <2> QED BY <2>2, HealthyStays DEF Active
<1>5. ASSUME NEW r \in Requests, ReadRange(r) PROVE HealthyInv'
  <2>1. pc' = [pc EXCEPT ![r] = "ask"] /\ pc[r] = "range"
        /\ UNCHANGED <<list, touched, born, now, late, began, count>>
    BY <1>5, <1>works DEF ReadRange, Goto
  <2> QED BY <2>1, HealthyStays DEF Active
<1>6. ASSUME NEW r \in Requests, Ask(r) PROVE HealthyInv'
  <2>1. (\E to \in {"ended", "append"} : pc' = [pc EXCEPT ![r] = to]) /\ pc[r] = "ask"
        /\ UNCHANGED <<list, touched, born, now, late, began>>
    BY <1>6, <1>calm DEF Ask, Goto
  <2>2. \A q \in Requests \ {r} : count'[q] = count[q]
    BY <1>6 DEF Ask, TypeOK
  <2> QED BY <2>1, <2>2, HealthyStays DEF Active
<1>7. ASSUME NEW r \in Requests,
             ReadDb(r) \/ Refill(r) \/ Fill(r) \/ ClearList(r) \/ ClearDb(r) \/ GetLate(r)
      PROVE  FALSE
  BY <1>7, <1>t, <1>calm DEF ReadDb, Refill, Fill, ClearList, ClearDb, GetLate
<1>8. CASE WorkerTries \/ SweepStart \/ SweepWrite \/ UNCHANGED vars
  <2>1. UNCHANGED <<list, touched, born, now, late, began, count, pc>>
    BY <1>8 DEF WorkerTries, SweepStart, SweepWrite, vars
  <2> QED BY <2>1 DEF HealthyInv, Born, InList, ToSet, Recent, Active
<1>9. CASE Tick
  <2>1. /\ now' = now + 1 /\ UNCHANGED <<touched, born, late, began, count, pc>>
        /\ \A r \in Requests : Active(r) => now' < began[r] + Window
        /\ list' = IF now' >= touched + Window THEN <<>> ELSE list
    BY <1>9 DEF Tick
  <2>2. Born' = Born /\ \A r \in Requests : Active(r)' <=> Active(r)
    BY <2>1 DEF Born, Active
  <2>3. \A b \in Born : born[b] \in Nat /\ born[b] <= touched
    BY <1>t, ConstantsAssumption DEF HealthyInv, Born, Unborn
  <2>4. ASSUME NEW b \in Born', Recent(b)' PROVE b \in InList'
    <3>1. born[b] <= now' /\ now' < born[b] + Window /\ b \in Born
      BY <2>1, <2>2, <2>4 DEF Recent
    <3>2. list' = list /\ Recent(b)
      BY <1>t, <2>1, <2>3, <3>1 DEF HealthyInv, Recent
    <3> QED BY <3>1, <3>2 DEF HealthyInv, InList, ToSet
  <2>5. ASSUME NEW r \in Requests, Active(r)' PROVE began'[r] <= now' /\ now' < began'[r] + Window
    <3>1. began[r] <= now /\ now' < began[r] + Window /\ began[r] \in Nat
      BY <1>t, <2>1, <2>2, <2>5, ConstantsAssumption DEF HealthyInv, Time
    <3> QED BY <1>t, <2>1, <3>1
  <2>6. touched' <= now' /\ \A b \in Born' : born'[b] <= touched'
    BY <1>t, <2>1, <2>2, <2>3 DEF HealthyInv
  <2>7. \A q \in Requests : pc'[q] \in {"enqueue", "sync", "exists", "range"} /\ count'[q] = 1 =>
          <<q, 1>> \in Born' /\ began'[q] <= born'[<<q, 1>>]
    BY <2>1, <2>2 DEF HealthyInv
  <2>8. \A q \in Requests :
          ~late'[q] /\ pc'[q] \notin {"readDb", "refill", "fill", "clearList", "clearDb", "gone"}
    BY <2>1 DEF HealthyInv
  <2> QED BY <2>4, <2>5, <2>6, <2>7, <2>8 DEF HealthyInv
<1>10. CASE RedisLosesList \/ Restart
  BY <1>10, <1>calm DEF RedisLosesList, Restart
<1> QED
  BY <1>1, <1>2, <1>3, <1>4, <1>5, <1>6, <1>7, <1>8, <1>9, <1>10 DEF Next, Request

LEMMA RecentIsBorn == ASSUME TypeOK, NEW b \in Batch, Recent(b) PROVE b \in Born
<1>1. born[b] \in Nat /\ now \in Nat /\ now <= MaxTime /\ MaxTime \in Nat
  BY ConstantsAssumption DEF TypeOK, Time, Unborn
<1> QED BY <1>1 DEF Recent, Born

LEMMA InitHealthy == Init => HealthyInv
<1> SUFFICES ASSUME Init PROVE HealthyInv
  OBVIOUS
<1>1. Born = {}
  BY ConstantsAssumption DEF Init, Unborn, Born
<1>2. \A r \in Requests : pc[r] = "new" /\ ~late[r]
  BY DEF Init
<1>3. touched = 0 /\ now = 0
  BY DEF Init
<1> QED BY <1>1, <1>2, <1>3 DEF HealthyInv, Active

(* While Redis serves every command, whatever MySQL and the cleanup do: a    *)
(* recent batch of the row is in the list, so that the list may be read     *)
(* first; the TTL hides no recent row.                                     *)
THEOREM RedisLeads ==
  ASSUME Disturbances \subseteq {"mysql", "unsure", "cleanup"}
  PROVE  Spec => []ListCoversDb
<1>1. TypeOK /\ HealthyInv => ListCoversDb
  <2> SUFFICES ASSUME TypeOK, HealthyInv, NEW b \in InDb, Recent(b) PROVE b \in InList
    BY DEF ListCoversDb
  <2>1. b \in Batch /\ born[b] <= MaxTime
    <3>1. PICK e \in ToSet(db) : e.batch = b /\ e \in Entry
      BY EntryOf
    <3>2. b \in Batch
      BY <3>1 DEF Entry
    <3> QED BY <3>2, RecentIsBorn DEF Born
  <2> QED BY <2>1 DEF HealthyInv, Born
<1>2. IInv => TypeOK /\ StagesInv
  BY DEF IInv
<1> QED BY <1>1, <1>2, InitHealthy, HealthyStep, Invariance, PTL DEF Spec

(* Under the same conditions a request asks the model with its own message  *)
(* and every recent batch that was there when it began: the list it reads    *)
(* holds them all.                                                         *)
THEOREM PastIsSeen ==
  ASSUME Disturbances \subseteq {"mysql", "unsure", "cleanup"}
  PROVE  Spec => SeesPast
<1> DEFINE Sees == \A r \in Requests : HasRead(r) =>
                     \A b \in before[r] \cup {<<r, 1>>} : Recent(b) => b \in ToSet(saw'[r])
<1>1. TypeOK /\ HealthyInv /\ [Next]_vars => [Sees]_vars
  <2> SUFFICES ASSUME TypeOK, HealthyInv, Next, NEW r \in Requests, HasRead(r),
                      NEW b \in before[r] \cup {<<r, 1>>}, Recent(b)
               PROVE  b \in ToSet(saw'[r])
    OBVIOUS
  <2>1. pc[r] = "range" /\ pc'[r] = "ask"
    BY DEF HasRead, HealthyInv
  <2>2. ReadRange(r) /\ ~RedisFails(r)
    <3>1. pc \in [Requests -> Stages] /\ \A q \in Requests : count[q] \in 1 .. MaxRounds + 1
      BY DEF TypeOK
    <3>2. ~RedisFails(r)
      BY DEF HealthyInv, RedisFails, May
    <3>3. ASSUME NEW q \in Requests, NEW to, pc' = [pc EXCEPT ![q] = to], pc[q] # "range" PROVE FALSE
      BY <2>1, <3>1, <3>3
    <3>4. ASSUME NEW q \in Requests, Request(q) PROVE ReadRange(q) \/ GetLate(q)
      <4>1. ASSUME Continue(q), pc[q] \in {"enqueue", "sync"} PROVE FALSE
        BY <3>3, <4>1, Continues
      <4> QED BY <3>3, <3>4, <4>1
              DEF Request, Begin, AppendToList, Enqueue, SyncWrite, ReadExists, ReadDb, Refill, Fill,
                  Ask, ClearList, ClearDb, Goto
    <3>5. ASSUME UNCHANGED pc PROVE FALSE
      BY <2>1, <3>5
    <3>6. ~Restart
      BY DEF Restart, May
    <3>7. \E q \in Requests : ReadRange(q)
      BY <3>4, <3>5, <3>6
         DEF Next, GetLate, WorkerTries, SweepStart, SweepWrite, Tick, RedisLosesList, request
    <3>8. \A q \in Requests : ReadRange(q) => q = r
      BY <2>1, <3>1, <3>5 DEF ReadRange, Goto
    <3> QED BY <3>2, <3>7, <3>8
  <2>3. ToSet(saw'[r]) = InList
    BY <2>2 DEF ReadRange, TypeOK, InList
  <2>4. b \in Batch /\ b \in Born
    <3>1. CASE b \in before[r]
      <4>1. before[r] \subseteq Batch
        BY DEF TypeOK
      <4> QED BY <3>1, <4>1, RecentIsBorn
    <3>2. CASE b = <<r, 1>>
      <4>1. 1 \in 1 .. MaxRounds + 1
        BY ConstantsAssumption
      <4>2. b \in Batch
        BY <3>2, <4>1 DEF Batch
      <4> QED BY <4>2, RecentIsBorn
    <3> QED BY <3>1, <3>2
  <2> QED BY <2>3, <2>4 DEF HealthyInv
<1>2. IInv => TypeOK /\ StagesInv
  BY DEF IInv
<1> QED BY <1>1, <1>2, InitHealthy, HealthyStep, Invariance, PTL DEF Spec, SeesPast
===============================================================================
