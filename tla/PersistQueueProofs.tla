-------------------------- MODULE PersistQueueProofs --------------------------
(***************************************************************************)
(* Proofs about PersistQueue for any set of requests, any finite set of    *)
(* workers, any capacity and any number of retries.                        *)
(***************************************************************************)
EXTENDS PersistQueue, SequenceTheorems, FiniteSetTheorems, TLAPS

(* Every variable keeps its type, whatever step is taken.                  *)
LEMMA TypeStep == TypeOK /\ [Next]_vars => TypeOK'
<1> SUFFICES ASSUME TypeOK, [Next]_vars PROVE TypeOK'
  OBVIOUS
<1> USE BoundsAssumption, WorkersAssumption
<1> USE DEF TypeOK, Procs, PCs, Holding, Processing, procVars, reqVars, dbVars, ctxVars
<1>task. \A r \in Requests : offer[r] <= MaxCalls => Current(r) \in Task
  BY DEF Current, Task
<1>1. ASSUME NEW r \in Requests, EnqueueAccepts(r) PROVE TypeOK'
  <2>1. Current(r) \in Task
    BY <1>1, <1>task DEF EnqueueAccepts, Offering
  <2>2. tasks' \in Seq(Task) /\ Len(tasks') <= Capacity
    BY <1>1, <2>1, AppendProperties DEF EnqueueAccepts
  <2> QED BY <1>1, <2>2 DEF EnqueueAccepts, Offering, Advance
<1>2. ASSUME NEW r \in Requests, EnqueueRefuses(r) \/ CacheRefuses(r) \/ RequestEnds(r)
      PROVE TypeOK'
  BY <1>2 DEF EnqueueRefuses, CacheRefuses, RequestEnds, KeepWithCaller, Offering
<1>write. ASSUME NEW t \in Task, NEW result, Write(t, result)
          PROVE rows' \in Seq(Task) /\ unsure' \subseteq Task
  BY <1>write DEF Write
<1>3. ASSUME NEW r \in Requests, SyncWrite(r) PROVE TypeOK'
  <2>1. Current(r) \in Task
    BY <1>3, <1>task DEF SyncWrite
  <2>2. rows' \in Seq(Task) /\ unsure' \subseteq Task /\ dropped' \subseteq Task
    BY <1>3, <2>1, <1>write DEF SyncWrite
  <2> QED BY <1>3, <2>2 DEF SyncWrite, Advance
<1>take. ASSUME NEW p \in Procs, Take(p)
         PROVE /\ tasks' \in Seq(Task) /\ Len(tasks') <= Capacity
               /\ hand' \in [Procs -> Task \cup {None}] /\ hand'[p] \in Task
  <2>1. tasks # <<>>
    BY <1>take DEF Take
  <2> QED BY <1>take, <2>1, HeadTailProperties DEF Take
<1>4. ASSUME NEW w \in Workers, WorkerReceive(w) PROVE TypeOK'
  <2>1. Take(w)
    BY <1>4 DEF WorkerReceive
  <2> QED BY <1>4, <1>take, <2>1 DEF WorkerReceive, Take, Goto
<1>5. ASSUME NEW w \in Workers, WorkerExit(w) PROVE TypeOK'
  BY <1>5 DEF WorkerExit, Goto
<1>6. ASSUME NEW p \in Procs, EnterProcess(p) PROVE TypeOK'
  BY <1>6 DEF EnterProcess, Goto
<1>7. ASSUME NEW p \in Procs, Attempt(p) PROVE TypeOK'
  <2>1. hand[p] \in Task
    BY <1>7 DEF Attempt
  <2>2. rows' \in Seq(Task) /\ unsure' \subseteq Task
    BY <1>7, <2>1, <1>write DEF Attempt
  <2>3. \E n \in 0 .. MaxRetries - 1 : tries' = [tries EXCEPT ![p] = n]
    <3>1. tries[p] \in Nat /\ (tries[p] + 1 < MaxRetries => tries[p] + 1 \in 0 .. MaxRetries - 1)
      OBVIOUS
    <3>2. 0 \in 0 .. MaxRetries - 1
      OBVIOUS
    <3> QED BY <1>7, <3>1, <3>2 DEF Attempt, FinishLoop
  <2>4. tries' \in [Procs -> 0 .. MaxRetries - 1]
    BY ONLY <2>3, TypeOK DEF TypeOK
  <2>6. pc' \in [Procs -> PCs]
    BY <1>7 DEF Attempt, FinishLoop, Goto
  <2>5. \A q \in Procs : pc'[q] \in Holding => pc[q] \in Holding
    BY <1>7 DEF Attempt, FinishLoop, Goto
  <2> QED BY <1>7, <2>2, <2>4, <2>5, <2>6 DEF Attempt
<1>8. ASSUME NEW p \in Procs, BuryTask(p) PROVE TypeOK'
  BY <1>8 DEF BuryTask, Goto
<1>9. ASSUME NEW p \in Procs, LeaveProcess(p) PROVE TypeOK'
  BY <1>9 DEF LeaveProcess, Goto
<1>10. ASSUME NEW from, NEW to \in PCs \ Holding, FlushStep(from, to)
       PROVE /\ pc' \in [Procs -> PCs]
             /\ \A p \in Procs : pc'[p] \in Holding => pc[p] \in Holding
  BY <1>10 DEF FlushStep, Goto
<1>11. CASE FlushCall
  <2>1. Owed \subseteq Task
    <3>1. Queued \subseteq Task
      BY RangeOfSeq DEF Queued
    <3> QED BY <3>1 DEF Owed, Held, Unsettled
  <2> QED BY <1>10, <1>11, <2>1 DEF FlushCall, FlushStep
<1>12. CASE FlushReceive
  <2>1. Take(Flusher) /\ resume' \in {"select", "check"}
    BY <1>12 DEF FlushReceive
  <2> QED BY <1>12, <1>take, <2>1 DEF Take, Goto
<1>13. CASE FlushTimeout \/ FlushDrained \/ FlushCheck \/ FlushSleep
  <2>1. ctxDone' = ctxDone /\ deadline' = deadline /\ due' = due
    BY <1>13 DEF FlushTimeout, FlushDrained, FlushCheck, FlushSleep
  <2>2. PICK from, to \in PCs \ Holding : FlushStep(from, to)
    BY <1>13 DEF FlushTimeout, FlushDrained, FlushCheck, FlushSleep
  <2> QED BY <1>10, <2>1, <2>2 DEF FlushStep
<1>14. CASE CancelApp \/ DeadlinePasses \/ UNCHANGED vars
  BY <1>14 DEF CancelApp, DeadlinePasses, vars
<1> QED
  BY <1>1, <1>2, <1>3, <1>4, <1>5, <1>6, <1>7, <1>8, <1>9, <1>11, <1>12, <1>13, <1>14
     DEF Next, Request, Worker, Process, Flush

-------------------------------------------------------------------------------
(* How the sets that IInv speaks of change.                                *)

LEMMA AppendRange ==
  ASSUME NEW S, NEW s \in Seq(S), NEW x \in S
  PROVE  Range(Append(s, x)) = Range(s) \cup {x}
<1>1. Append(s, x) \in Seq(S) /\ Len(s) \in Nat /\ Len(Append(s, x)) = Len(s) + 1
  BY AppendProperties
<1>2. Range(Append(s, x)) = {Append(s, x)[i] : i \in 1 .. Len(s) + 1}
  <2> DEFINE a == Append(s, x)
  <2>1. a \in Seq(S) /\ Len(a) = Len(s) + 1
    BY <1>1
  <2> HIDE DEF a
  <2>2. Range(a) = {a[i] : i \in 1 .. Len(a)}
    BY <2>1, RangeEquality
  <2>3. Range(a) = {a[i] : i \in 1 .. Len(s) + 1}
    BY <2>1, <2>2
  <2> QED BY <2>3 DEF a
<1>3. Range(s) = {s[i] : i \in 1 .. Len(s)}
  BY RangeEquality
<1>4. 1 .. Len(s) + 1 = (1 .. Len(s)) \cup {Len(s) + 1}
  BY <1>1
<1> QED BY <1>2, <1>3, <1>4, AppendProperties

(* A sequence without repetitions loses exactly its head.                   *)
LEMMA TailRange ==
  ASSUME NEW S, NEW s \in Seq(S), s # <<>>, IsInjective(s)
  PROVE  /\ Range(Tail(s)) = Range(s) \ {Head(s)}
         /\ Head(s) \in Range(s)
         /\ IsInjective(Tail(s))
<1>1. /\ Tail(s) \in Seq(S) /\ Len(Tail(s)) = Len(s) - 1
      /\ \A i \in 1 .. Len(Tail(s)) : Tail(s)[i] = s[i + 1]
      /\ Head(s) = s[1] /\ Len(s) \in Nat \ {0}
  BY HeadTailProperties
<1>2. DOMAIN s = 1 .. Len(s) /\ DOMAIN Tail(s) = 1 .. Len(Tail(s))
  BY <1>1
<1>3. IsInjective(Tail(s))
  BY <1>1, <1>2 DEF IsInjective
<1>4. ASSUME NEW i \in 2 .. Len(s) PROVE s[i] \in Range(Tail(s)) /\ s[i] # Head(s)
  <2>1. i - 1 \in 1 .. Len(Tail(s)) /\ Tail(s)[i - 1] = s[i]
    BY <1>1
  <2>2. i \in DOMAIN s /\ 1 \in DOMAIN s /\ i # 1
    BY <1>1, <1>2
  <2> QED BY <1>1, <1>2, <2>1, <2>2 DEF IsInjective, Range
<1>5. \A i \in 1 .. Len(Tail(s)) : i + 1 \in 2 .. Len(s)
  BY <1>1
<1>6. \A i \in 1 .. Len(s) : i = 1 \/ i \in 2 .. Len(s)
  BY <1>1
<1> QED BY <1>1, <1>2, <1>3, <1>4, <1>5, <1>6 DEF Range

LEMMA PassedAdvances ==
  ASSUME TypeOK, NEW r \in Requests, offer[r] <= MaxCalls, Advance(r)
  PROVE  Passed' = Passed \cup {Current(r)} /\ Current(r) \in Task \ Passed
<1>1. /\ Current(r) \in Task \ Passed
      /\ Current(r)[1] = r /\ Current(r)[2] = offer[r] /\ offer[r] \in Int
  BY BoundsAssumption DEF TypeOK, Passed, Current, Task
<1>2. ASSUME NEW t \in Task PROVE t[2] < offer'[t[1]] <=> t[2] < offer[t[1]] \/ t = Current(r)
  <2>1. t[1] \in Requests /\ t[2] \in Int /\ t = <<t[1], t[2]>> /\ offer[t[1]] \in Int
    BY BoundsAssumption DEF TypeOK, Task
  <2>2. offer' = [offer EXCEPT ![r] = @ + 1] /\ offer \in [Requests -> 1 .. MaxCalls + 1]
    BY DEF TypeOK, Advance
  <2>3. CASE t[1] = r
    <3>1. offer'[t[1]] = offer[r] + 1 /\ (t = Current(r) <=> t[2] = offer[r])
      BY <2>1, <2>2, <2>3, <1>1 DEF Current
    <3> QED BY <2>1, <2>3, <3>1, <1>1
  <2>4. CASE t[1] # r
    BY <2>1, <2>2, <2>4, <1>1
  <2> QED BY <2>3, <2>4
<1> QED BY <1>1, <1>2 DEF Passed

LEMMA AppendInjectiveFresh ==
  ASSUME NEW S, NEW s \in Seq(S), NEW x \in S \ Range(s), IsInjective(s)
  PROVE  IsInjective(Append(s, x))
<1>1. /\ DOMAIN Append(s, x) = 1 .. Len(s) + 1 /\ DOMAIN s = 1 .. Len(s) /\ Len(s) \in Nat
      /\ \A i \in 1 .. Len(s) : Append(s, x)[i] = s[i] /\ s[i] # x
      /\ Append(s, x)[Len(s) + 1] = x
  BY AppendProperties DEF Range
<1>2. \A i \in 1 .. Len(s) + 1 : i \in 1 .. Len(s) \/ i = Len(s) + 1
  BY <1>1
<1> QED BY <1>1, <1>2 DEF IsInjective

(* Where the writes are is decided by tasks, pc, hand, offer and call; what  *)
(* has become of them by rows, deadLetters and dropped.                    *)
LEMMA PlacesUnchanged ==
  ASSUME UNCHANGED <<tasks, pc, hand>>
  PROVE  Queued' = Queued /\ Held' = Held /\ Owed' = Owed /\ InProcess' = InProcess
  BY DEF Queued, Held, Owed, InProcess

(* A processor that stays on its side of "unsettled" moves no write.        *)
LEMMA HeldUnchanged ==
  ASSUME UNCHANGED hand,
         \A q \in Procs : pc'[q] \in Unsettled <=> pc[q] \in Unsettled
  PROVE  Held' = Held
  BY DEF Held

-------------------------------------------------------------------------------
(* No write is lost or held twice.                                         *)

(* The ways a write can end.                                               *)
Ends == Stored \cup deadLetters \cup dropped

Places ==
  /\ Owed \subseteq Passed
  /\ IsInjective(tasks)
  /\ \A p, q \in Procs : pc[p] \in Unsettled /\ pc[q] \in Unsettled /\ hand[p] = hand[q] => p = q
  /\ Queued \cap Held = {}
  /\ Passed \subseteq Owed \cup Ends

LEMMA PlacesAndType ==
  TypeOK => (Places <=> OwedIsPassed /\ OneHolder /\ NothingVanishes)
<1> SUFFICES ASSUME TypeOK
             PROVE  Places <=> OwedIsPassed /\ OneHolder /\ NothingVanishes
  OBVIOUS
<1>1. WithCaller \cap Passed = {}
  BY DEF TypeOK, WithCaller, Passed, Current
<1> QED
  BY <1>1 DEF Places, Ends, OwedIsPassed, OneHolder, NothingVanishes, Offered

(* Steps that move no write between the places.                             *)
LEMMA PlacesStay ==
  ASSUME Places, UNCHANGED <<tasks, hand, offer>>,
         \A q \in Procs : pc'[q] \in Unsettled <=> pc[q] \in Unsettled,
         Ends \subseteq Ends'
  PROVE  Places'
<1>1. Held' = Held /\ Queued' = Queued
  BY HeldUnchanged DEF Queued
<1>2. Passed' = Passed
  BY DEF Passed
<1> QED BY <1>1, <1>2 DEF Places, Owed

(* A receive moves a write from the channel into a hand.                    *)
LEMMA PlacesTake ==
  ASSUME TypeOK, Places, NEW p \in Procs, pc[p] \notin Unsettled, Take(p)
  PROVE  Places'
<1>1. /\ Queued' = Queued \ {Head(tasks)} /\ Head(tasks) \in Queued
      /\ IsInjective(tasks')
  BY TailRange DEF TypeOK, Places, Take, Queued
<1>2. /\ hand' = [hand EXCEPT ![p] = Head(tasks)]
      /\ pc' = [pc EXCEPT ![p] = "received"]
      /\ UNCHANGED <<offer, rows, deadLetters, dropped>>
  BY DEF Take, Goto, reqVars, dbVars
<1>3. \A q \in Procs : /\ pc'[q] \in Unsettled <=> q = p \/ pc[q] \in Unsettled
                       /\ hand'[q] = IF q = p THEN Head(tasks) ELSE hand[q]
  BY <1>2 DEF TypeOK, Unsettled
<1>4. Held' = Held \cup {Head(tasks)}
  BY <1>3 DEF Held
<1>5. Owed' = Owed
  BY <1>1, <1>4 DEF Owed
<1>6. \A q \in Procs : pc[q] \in Unsettled => hand[q] # Head(tasks)
  BY <1>1 DEF Places, Held
<1>7. Passed' = Passed /\ Ends' = Ends
  BY <1>2 DEF Passed, Ends, Stored
<1> QED BY <1>1, <1>3, <1>4, <1>5, <1>6, <1>7 DEF Places

(* A processor lets go of its write once that write has an outcome.         *)
LEMMA PlacesSettle ==
  ASSUME TypeOK, Places, NEW p \in Procs, pc[p] \in Unsettled,
         UNCHANGED <<tasks, hand, offer>>, pc' = [pc EXCEPT ![p] = "leave"],
         Ends \cup {hand[p]} \subseteq Ends'
  PROVE  Places'
<1>1. \A q \in Procs : pc'[q] \in Unsettled <=> q # p /\ pc[q] \in Unsettled
  BY DEF TypeOK, Unsettled
<1>2. Held \subseteq Held' \cup {hand[p]} /\ Held' \subseteq Held
  BY <1>1 DEF Held
<1>3. Queued' = Queued /\ Passed' = Passed
  BY DEF Queued, Passed
<1> QED BY <1>1, <1>2, <1>3 DEF Places, Owed

LEMMA PlacesStep == TypeOK /\ Places /\ [Next]_vars => Places'
<1> SUFFICES ASSUME TypeOK, Places, [Next]_vars PROVE Places'
  OBVIOUS
<1> USE DEF procVars, reqVars, dbVars, ctxVars
<1>write. ASSUME NEW t \in Task, NEW result, Write(t, result)
          PROVE  /\ Stored \subseteq Stored'
                 /\ result # "failed" => t \in Stored'
  BY <1>write, AppendRange DEF Write, Stored, TypeOK
<1>1. ASSUME NEW r \in Requests, EnqueueAccepts(r) PROVE Places'
  <2>1. Passed' = Passed \cup {Current(r)} /\ Current(r) \in Task \ Passed
    BY <1>1, PassedAdvances DEF EnqueueAccepts, Offering
  <2>2. Queued' = Queued \cup {Current(r)} /\ IsInjective(tasks')
    <3>1. Current(r) \notin Range(tasks)
      BY <2>1 DEF Places, Owed, Queued
    <3> QED BY <1>1, <2>1, <3>1, AppendRange, AppendInjectiveFresh
            DEF EnqueueAccepts, Queued, TypeOK, Places
  <2>3. Held' = Held /\ Ends' = Ends /\ UNCHANGED <<pc, hand>>
    BY <1>1 DEF EnqueueAccepts, Held, Ends, Stored
  <2> QED BY <2>1, <2>2, <2>3 DEF Places, Owed
<1>2. ASSUME NEW r \in Requests, EnqueueRefuses(r) \/ CacheRefuses(r) \/ RequestEnds(r)
      PROVE  Places'
  <2>1. UNCHANGED <<tasks, pc, hand, offer, rows, deadLetters, dropped>>
    BY <1>2 DEF EnqueueRefuses, CacheRefuses, RequestEnds, KeepWithCaller
  <2> QED BY <2>1, PlacesStay DEF Ends, Stored
<1>3. ASSUME NEW r \in Requests, SyncWrite(r) PROVE Places'
  <2>1. offer[r] <= MaxCalls /\ Advance(r) /\ UNCHANGED <<tasks, pc, hand, deadLetters>>
    BY <1>3 DEF SyncWrite, TypeOK
  <2>2. Passed' = Passed \cup {Current(r)} /\ Current(r) \in Task
    BY <2>1, PassedAdvances
  <2>3. Ends \cup {Current(r)} \subseteq Ends'
    BY <1>3, <2>2, <1>write DEF SyncWrite, Ends
  <2>4. Held' = Held /\ Queued' = Queued
    BY <2>1, PlacesUnchanged
  <2> QED BY <2>1, <2>2, <2>3, <2>4 DEF Places, Owed
<1>4. ASSUME NEW w \in Workers, WorkerReceive(w) PROVE Places'
  BY <1>4, PlacesTake DEF WorkerReceive, Unsettled, Procs
<1>5. ASSUME NEW w \in Workers, WorkerExit(w) PROVE Places'
  <2>1. UNCHANGED <<tasks, hand, offer, rows, deadLetters, dropped>>
    BY <1>5 DEF WorkerExit
  <2>2. \A q \in Procs : pc'[q] \in Unsettled <=> pc[q] \in Unsettled
    BY <1>5 DEF WorkerExit, Goto, TypeOK, Unsettled
  <2> QED BY <2>1, <2>2, PlacesStay DEF Ends, Stored
<1>6. ASSUME NEW p \in Procs, EnterProcess(p) \/ LeaveProcess(p) PROVE Places'
  <2>1. UNCHANGED <<tasks, offer, rows, deadLetters, dropped>>
    BY <1>6 DEF EnterProcess, LeaveProcess
  <2>2. \A q \in Procs : /\ pc'[q] \in Unsettled <=> pc[q] \in Unsettled
                         /\ pc[q] \in Unsettled => hand'[q] = hand[q]
    BY <1>6 DEF EnterProcess, LeaveProcess, Goto, TypeOK, Unsettled
  <2>3. Held' = Held /\ Queued' = Queued /\ Passed' = Passed /\ Ends' = Ends
    BY <2>1, <2>2 DEF Held, Queued, Passed, Ends, Stored
  <2> QED BY <2>1, <2>2, <2>3 DEF Places, Owed
<1>7. ASSUME NEW p \in Procs, Attempt(p) PROVE Places'
  <2>1. hand[p] \in Task /\ pc[p] \in Unsettled
        /\ UNCHANGED <<tasks, hand, offer, deadLetters, dropped>>
    BY <1>7 DEF Attempt, TypeOK, Holding, Processing, Unsettled
  <2>2. PICK result \in Outcomes :
          /\ Write(hand[p], result)
          /\ \/ result = "ok" /\ pc' = [pc EXCEPT ![p] = "leave"]
             \/ pc' = pc \/ pc' = [pc EXCEPT ![p] = "bury"]
    BY <1>7 DEF Attempt, FinishLoop, Goto
  <2>3. Stored \subseteq Stored' /\ (result = "ok" => hand[p] \in Stored')
    BY <2>1, <2>2, <1>write
  <2>4. CASE pc' = [pc EXCEPT ![p] = "leave"] /\ result = "ok"
    BY <2>1, <2>3, <2>4, PlacesSettle DEF Ends
  <2>5. CASE pc' = pc \/ pc' = [pc EXCEPT ![p] = "bury"]
    <3>1. \A q \in Procs : pc'[q] \in Unsettled <=> pc[q] \in Unsettled
      BY <1>7, <2>5 DEF Attempt, TypeOK, Unsettled
    <3> QED BY <2>1, <2>3, <3>1, PlacesStay DEF Ends
  <2> QED BY <2>2, <2>4, <2>5
<1>8. ASSUME NEW p \in Procs, BuryTask(p) PROVE Places'
  <2>1. pc[p] \in Unsettled /\ Ends \cup {hand[p]} \subseteq Ends'
    BY <1>8 DEF BuryTask, Unsettled, Ends, Stored
  <2> QED BY <1>8, <2>1, PlacesSettle DEF BuryTask, Goto
<1>9. ASSUME NEW from, NEW to, from \notin Unsettled, to \notin Unsettled, FlushStep(from, to)
      PROVE  Places'
  <2>1. \A q \in Procs : pc'[q] \in Unsettled <=> pc[q] \in Unsettled
    BY <1>9 DEF FlushStep, Goto, TypeOK
  <2> QED BY <1>9, <2>1, PlacesStay DEF FlushStep, Ends, Stored
<1>10. CASE FlushCall \/ FlushTimeout \/ FlushDrained \/ FlushCheck \/ FlushSleep
  BY <1>9, <1>10 DEF FlushCall, FlushTimeout, FlushDrained, FlushCheck, FlushSleep, Unsettled
<1>11. CASE FlushReceive
  BY <1>11, PlacesTake DEF FlushReceive, Unsettled, Procs
<1>12. CASE CancelApp \/ DeadlinePasses \/ UNCHANGED vars
  BY <1>12, PlacesStay DEF CancelApp, DeadlinePasses, vars, Ends, Stored
<1> QED
  BY <1>1, <1>2, <1>3, <1>4, <1>5, <1>6, <1>7, <1>8, <1>10, <1>11, <1>12
     DEF Next, Request, Worker, Process, Flush, Procs

-------------------------------------------------------------------------------
(* inFlight counts the goroutines inside process.                          *)

LEMMA ProcsFinite ==
  ASSUME NEW S \in SUBSET Procs
  PROVE  IsFiniteSet(S) /\ Cardinality(S) \in Nat
  BY WorkersAssumption, FS_AddElement, FS_Subset, FS_CardinalityType DEF Procs

LEMMA CountStep == TypeOK /\ InFlightExact /\ [Next]_vars => InFlightExact'
<1> SUFFICES ASSUME TypeOK, InFlightExact, [Next]_vars PROVE InFlightExact'
  OBVIOUS
<1> USE DEF procVars, reqVars, dbVars, ctxVars, Processing
<1>pc. pc \in [Procs -> PCs]
  BY DEF TypeOK
<1>same. ASSUME inFlight' = inFlight,
                \A q \in Procs : pc'[q] \in Processing <=> pc[q] \in Processing
         PROVE  InFlightExact'
  BY <1>same DEF InFlightExact, InProcess
<1>move. ASSUME NEW p \in Procs, NEW to, to \notin Processing, pc[p] \notin Processing,
                inFlight' = inFlight, Goto(p, to)
         PROVE  InFlightExact'
  BY <1>pc, <1>same, <1>move DEF Goto
<1>1. ASSUME NEW r \in Requests, Request(r) PROVE InFlightExact'
  <2>1. UNCHANGED <<pc, inFlight>>
    BY <1>1 DEF Request, EnqueueAccepts, EnqueueRefuses, CacheRefuses, RequestEnds,
                SyncWrite, KeepWithCaller
  <2> QED BY <2>1, <1>same
<1>2. ASSUME NEW p \in Procs, pc[p] \in {"select", "waiting"}, Take(p) PROVE InFlightExact'
  BY <1>2, <1>move DEF Take
<1>3. ASSUME NEW w \in Workers, WorkerExit(w) PROVE InFlightExact'
  BY <1>3, <1>move DEF WorkerExit, Procs
<1>4. ASSUME NEW p \in Procs, EnterProcess(p) PROVE InFlightExact'
  <2>1. InProcess' = InProcess \cup {p} /\ p \notin InProcess /\ inFlight' = inFlight + 1
    BY <1>pc, <1>4 DEF EnterProcess, Goto, InProcess
  <2>2. IsFiniteSet(InProcess)
    BY ProcsFinite DEF InProcess
  <2> QED BY <2>1, <2>2, FS_AddElement DEF InFlightExact
<1>5. ASSUME NEW p \in Procs, Attempt(p) \/ BuryTask(p) PROVE InFlightExact'
  <2>1. /\ pc[p] \in Processing /\ inFlight' = inFlight
        /\ \E to \in Processing : pc' = [pc EXCEPT ![p] = to]
    BY <1>pc, <1>5 DEF Attempt, BuryTask, FinishLoop, Goto
  <2> QED BY <1>pc, <2>1, <1>same
<1>6. ASSUME NEW p \in Procs, LeaveProcess(p) PROVE InFlightExact'
  <2>1. InProcess' = InProcess \ {p} /\ p \in InProcess /\ inFlight' = inFlight - 1
    BY <1>pc, <1>6 DEF LeaveProcess, Goto, InProcess, TypeOK
  <2>2. IsFiniteSet(InProcess)
    BY ProcsFinite DEF InProcess
  <2> QED BY <2>1, <2>2, FS_RemoveElement DEF InFlightExact
<1>7. ASSUME NEW from, NEW to, {from, to} \cap Processing = {}, FlushStep(from, to)
      PROVE  InFlightExact'
  BY <1>7, <1>move DEF FlushStep, Procs
<1>8. CASE FlushCall \/ FlushTimeout \/ FlushDrained \/ FlushCheck \/ FlushSleep
  BY <1>7, <1>8 DEF FlushCall, FlushTimeout, FlushDrained, FlushCheck, FlushSleep
<1>9. CASE CancelApp \/ DeadlinePasses \/ UNCHANGED vars
  BY <1>9, <1>same DEF CancelApp, DeadlinePasses, vars
<1> QED
  BY <1>1, <1>2, <1>3, <1>4, <1>5, <1>6, <1>8, <1>9
     DEF Next, Worker, WorkerReceive, Process, Flush, FlushReceive, Procs

-------------------------------------------------------------------------------
(* The theorems.                                                           *)

LEMMA InitIInv == Init => IInv
<1> SUFFICES ASSUME Init PROVE IInv
  OBVIOUS
<1>1. TypeOK
  <2>1. tasks \in Seq(Task) /\ Len(tasks) <= Capacity /\ rows \in Seq(Task)
    BY BoundsAssumption, EmptySeq DEF Init
  <2>2. 0 \in 0 .. MaxRetries - 1 /\ 1 \in 1 .. MaxCalls + 1
    BY BoundsAssumption
  <2>3. pc \in [Procs -> PCs] /\ \A p \in Procs : pc[p] \notin Holding
    BY DEF Init, PCs, Holding, Processing
  <2>4. tries \in [Procs -> 0 .. MaxRetries - 1] /\ offer \in [Requests -> 1 .. MaxCalls + 1]
    BY <2>2 DEF Init
  <2>5. hand \in [Procs -> Task \cup {None}] /\ call \in [Requests -> {"offer", "sync"}]
    BY DEF Init
  <2>6. \A r \in Requests : call[r] # "sync"
    BY DEF Init
  <2>7. inFlight \in Int /\ reqDone \in [Requests -> BOOLEAN] /\ resume \in {"select", "check"}
    BY DEF Init
  <2> QED BY <2>1, <2>3, <2>4, <2>5, <2>6, <2>7 DEF Init, TypeOK
<1>2. Queued = {} /\ Held = {} /\ InProcess = {} /\ Passed = {} /\ WithCaller = {}
  BY BoundsAssumption
     DEF Init, Queued, Held, InProcess, Passed, WithCaller, Task, Range, Unsettled, Processing
<1>3. IsInjective(tasks) /\ \A p \in Procs : pc[p] \notin Unsettled
  BY DEF Init, IsInjective, Unsettled
<1>4. InFlightExact
  BY <1>2, FS_EmptySet DEF Init, InFlightExact
<1> QED
  BY <1>1, <1>2, <1>3, <1>4 DEF IInv, OwedIsPassed, OneHolder, NothingVanishes, Owed, Offered

LEMMA StepIInv == IInv /\ [Next]_vars => IInv'
<1> SUFFICES ASSUME IInv, [Next]_vars PROVE IInv'
  OBVIOUS
<1>1. TypeOK' /\ InFlightExact' /\ Places'
  BY TypeStep, CountStep, PlacesStep, PlacesAndType DEF IInv
<1>2. TypeOK' /\ Places' => (OwedIsPassed /\ OneHolder /\ NothingVanishes)'
  <2>1. TypeOK' => WithCaller' \cap Passed' = {}
    BY DEF TypeOK, WithCaller, Passed, Current
  <2> QED BY <2>1 DEF Places, Ends, OwedIsPassed, OneHolder, NothingVanishes, Offered
<1> QED BY <1>1, <1>2 DEF IInv

(* The strengthening is an invariant of every run of the queue.             *)
THEOREM Invariance == Spec => []IInv
  BY InitIInv, StepIInv, PTL DEF Spec

(* Every variable of the queue keeps its type.                              *)
THEOREM TypeCorrect == Spec => []TypeOK
<1>1. IInv => TypeOK
  BY DEF IInv
<1> QED BY <1>1, Invariance, PTL

(* No write handed over by a request is ever gone without a trace.          *)
THEOREM NothingIsLost == Spec => []NothingVanishes
<1>1. IInv => NothingVanishes
  BY DEF IInv
<1> QED BY <1>1, Invariance, PTL

(* No write is ever in two places.                                          *)
THEOREM NothingIsDoubled == Spec => []OneHolder
<1>1. IInv => OneHolder
  BY DEF IInv
<1> QED BY <1>1, Invariance, PTL

(* inFlight is the number of goroutines inside process.                     *)
THEOREM InFlightIsExact == Spec => []InFlightExact
<1>1. IInv => InFlightExact
  BY DEF IInv
<1> QED BY <1>1, Invariance, PTL

-------------------------------------------------------------------------------
(* What a nil answer of Flush is worth.                                    *)

LEMMA DrainedStep == IInv /\ FlushHasDrained /\ [Next]_vars => FlushHasDrained'
<1> SUFFICES ASSUME IInv, FlushHasDrained, [Next]_vars PROVE FlushHasDrained'
  OBVIOUS
<1> USE DEF procVars, reqVars, dbVars, ctxVars
<1>type. TypeOK /\ Owed \subseteq Passed /\ IsInjective(tasks)
  BY DEF IInv, OwedIsPassed, OneHolder
<1>pc. pc \in [Procs -> PCs] /\ Flusher \in Procs /\ Flusher \notin Workers
  BY <1>type, WorkersAssumption DEF TypeOK, Procs
(* Nothing the flusher owes comes back, and the flusher does not move on.   *)
<1>still. ASSUME UNCHANGED <<due, resume>>, Passed \subseteq Passed', Queued' \cap Passed \subseteq Queued,
                 pc'[Flusher] # pc[Flusher]
                   => \/ pc[Flusher] \in Holding /\ pc'[Flusher] \in Holding
                      \/ pc'[Flusher] \notin Holding \cup {"check", "waiting"}
          PROVE  FlushHasDrained'
  BY <1>still DEF FlushHasDrained, Holding, Processing
<1>1. ASSUME NEW r \in Requests, EnqueueAccepts(r) PROVE FlushHasDrained'
  <2>1. Passed' = Passed \cup {Current(r)} /\ Current(r) \in Task \ Passed
    BY <1>1, <1>type, PassedAdvances DEF EnqueueAccepts, Offering
  <2>2. Queued' = Queued \cup {Current(r)}
    BY <1>1, <1>type, <2>1, AppendRange DEF EnqueueAccepts, Queued, TypeOK
  <2> QED BY <1>1, <1>still, <2>1, <2>2 DEF EnqueueAccepts
<1>2. ASSUME NEW r \in Requests, EnqueueRefuses(r) \/ CacheRefuses(r) \/ RequestEnds(r)
      PROVE  FlushHasDrained'
  BY <1>2, <1>still
     DEF EnqueueRefuses, CacheRefuses, RequestEnds, KeepWithCaller, Queued, Passed
<1>3. ASSUME NEW r \in Requests, SyncWrite(r) PROVE FlushHasDrained'
  <2>1. Passed \subseteq Passed'
    BY <1>3, <1>type, PassedAdvances DEF SyncWrite, TypeOK
  <2> QED BY <1>3, <1>still, <2>1 DEF SyncWrite, Queued
<1>take. ASSUME NEW p \in Procs, Take(p)
         PROVE  /\ Queued' \subseteq Queued /\ Passed' = Passed /\ due' = due
                /\ pc' = [pc EXCEPT ![p] = "received"]
  BY <1>take, <1>type, TailRange DEF Take, Goto, Queued, Passed, TypeOK
<1>4. ASSUME NEW w \in Workers, WorkerReceive(w) PROVE FlushHasDrained'
  <2>1. pc'[Flusher] = pc[Flusher]
    BY <1>4, <1>pc, <1>take DEF WorkerReceive, Procs
  <2> QED BY <1>4, <1>take, <1>still, <2>1 DEF WorkerReceive, Procs
<1>5. ASSUME NEW w \in Workers, WorkerExit(w) PROVE FlushHasDrained'
  BY <1>5, <1>pc, <1>still DEF WorkerExit, Goto, Queued, Passed
<1>6. ASSUME NEW p \in Procs, EnterProcess(p) \/ Attempt(p) \/ BuryTask(p)
      PROVE  FlushHasDrained'
  <2>1. UNCHANGED <<tasks, offer, due, resume>>
    BY <1>6 DEF EnterProcess, Attempt, BuryTask
  <2>2. pc[p] \in Holding /\ \E to \in Holding : pc' = [pc EXCEPT ![p] = to]
    BY <1>6, <1>pc
       DEF EnterProcess, Attempt, BuryTask, FinishLoop, Goto, Holding, Processing
  <2> QED BY <1>pc, <1>still, <2>1, <2>2 DEF Queued, Passed
<1>7. ASSUME NEW w \in Workers, LeaveProcess(w) PROVE FlushHasDrained'
  BY <1>7, <1>pc, <1>still DEF LeaveProcess, Goto, Queued, Passed
<1>8. CASE LeaveProcess(Flusher)
  <2>1. /\ pc[Flusher] \in Holding /\ pc'[Flusher] = resume /\ resume \in {"select", "check"}
        /\ UNCHANGED <<tasks, offer, due>>
    BY <1>8, <1>pc, <1>type DEF LeaveProcess, Goto, Holding, Processing, TypeOK
  <2>2. Queued' = Queued /\ Passed' = Passed
    BY <2>1 DEF Queued, Passed
  <2> QED BY <2>1, <2>2 DEF FlushHasDrained, Holding, Processing
<1>9. CASE FlushReceive
  <2>1. /\ pc'[Flusher] = "received"
        /\ resume' = "check" => pc[Flusher] = "waiting"
        /\ Queued' \subseteq Queued /\ Passed' = Passed /\ due' = due
    BY <1>9, <1>pc, <1>take DEF FlushReceive
  <2> QED BY <2>1 DEF FlushHasDrained
<1>10. CASE FlushCall
  <2>1. pc'[Flusher] = "select" /\ due' = Owed /\ Passed' = Passed
    BY <1>10, <1>pc DEF FlushCall, FlushStep, Goto, Passed
  <2> QED BY <1>type, <2>1 DEF FlushHasDrained, Holding, Processing
<1>11. CASE FlushDrained
  <2>1. pc'[Flusher] = "check" /\ Queued' = {} /\ Passed' = Passed /\ due' = due
    BY <1>11, <1>pc DEF FlushDrained, FlushStep, Goto, Queued, Passed, Range
  <2> QED BY <2>1 DEF FlushHasDrained
<1>12. CASE FlushCheck \/ FlushSleep \/ FlushTimeout
  <2>1. /\ UNCHANGED <<tasks, offer, due, resume>>
        /\ \/ pc[Flusher] \in {"check", "waiting"} /\ pc'[Flusher] \in {"check", "waiting"}
           \/ pc'[Flusher] \in {"nil", "timeout"}
    BY <1>12, <1>pc DEF FlushCheck, FlushSleep, FlushTimeout, FlushStep, Goto
  <2>2. Queued' = Queued /\ Passed' = Passed
    BY <2>1 DEF Queued, Passed
  <2> QED BY <2>1, <2>2 DEF FlushHasDrained, Holding, Processing
<1>13. CASE CancelApp \/ DeadlinePasses \/ UNCHANGED vars
  BY <1>13, <1>still DEF CancelApp, DeadlinePasses, vars, Queued, Passed
<1> QED
  BY <1>1, <1>2, <1>3, <1>4, <1>5, <1>6, <1>7, <1>8, <1>9, <1>10, <1>11, <1>12, <1>13
     DEF Next, Request, Worker, Process, Flush, Procs

(* At a nil answer, inFlight is zero, so nobody is inside process: what is   *)
(* still owed was received by a worker that has not counted itself yet.     *)
THEOREM FlushNil == Spec => FlushNilLeavesOnlyUncounted
<1> DEFINE Answer ==
      pc[Flusher] = "check" /\ pc'[Flusher] = "nil"
        => \A t \in due : Settled(t) \/ \E w \in Workers : pc[w] = "received" /\ hand[w] = t
<1>1. ASSUME IInv, FlushHasDrained, [Next]_vars, pc[Flusher] = "check", pc'[Flusher] = "nil",
             NEW t \in due, t \in Owed
      PROVE  \E w \in Workers : pc[w] = "received" /\ hand[w] = t
  <2>1. PICK p \in Procs : pc[p] \in Unsettled /\ hand[p] = t
    BY <1>1 DEF FlushHasDrained, Owed, Held
  <2>2. inFlight = 0
    <3>1. inFlight \in Nat
      BY <1>1, ProcsFinite DEF IInv, InFlightExact, InProcess
    <3>2. pc \in [Procs -> PCs] /\ Flusher \in Procs /\ Flusher \notin Workers
      BY <1>1, WorkersAssumption DEF IInv, TypeOK, Procs
    <3>3. \A q \in Procs : pc'[q] # pc[q] /\ pc[q] = "check" => FlushCheck
      BY <1>1, <3>2
         DEF Next, Request, EnqueueAccepts, EnqueueRefuses, CacheRefuses, RequestEnds,
             SyncWrite, KeepWithCaller, Worker, WorkerReceive, WorkerExit, Process,
             EnterProcess, Attempt, FinishLoop, BuryTask, LeaveProcess, Take, Goto,
             FlushCall, Flush, FlushReceive, FlushTimeout, FlushDrained, FlushCheck,
             FlushSleep, FlushStep, CancelApp, DeadlinePasses, vars, procVars
    <3> QED BY <1>1, <3>1, <3>2, <3>3 DEF FlushCheck, FlushStep, Goto
  <2>3. p \notin InProcess
    BY <1>1, <2>2, ProcsFinite, FS_EmptySet DEF IInv, InFlightExact, InProcess
  <2> QED BY <1>1, <2>1, <2>3 DEF InProcess, Unsettled, Processing, Procs
<1>2. IInv /\ FlushHasDrained /\ [Next]_vars => [Answer]_vars
  <2>1. FlushHasDrained => due \subseteq Passed
    BY DEF FlushHasDrained
  <2>2. IInv => WithCaller \cap Passed = {}
    BY DEF IInv, TypeOK, WithCaller, Passed, Current
  <2> QED BY <1>1, <2>1, <2>2 DEF Settled, Offered
<1>3. Init => FlushHasDrained
  BY DEF Init, FlushHasDrained
<1> QED
  BY <1>2, <1>3, DrainedStep, Invariance, PTL DEF Spec, FlushNilLeavesOnlyUncounted

-------------------------------------------------------------------------------
(* On top of the inductive invariant: how a write ends, and the order in     *)
(* which the batches of a request leave the channel.                       *)

EInv == OutcomeIsFinal /\ EndsOneWay /\ DuplicatesOnlyIfUnsure

LEMMA IInvFacts ==
  IInv => TypeOK /\ Places /\ Owed \subseteq Passed /\ WithCaller \cap Passed = {}
<1>1. TypeOK => WithCaller \cap Passed = {}
  BY DEF TypeOK, WithCaller, Passed, Current
<1> QED BY <1>1, PlacesAndType DEF IInv, OwedIsPassed

-------------------------------------------------------------------------------
(* Each write has one end.                                                 *)

LEMMA AppendTwins ==
  ASSUME NEW S, NEW s \in Seq(S), NEW x \in S,
         NEW i \in DOMAIN Append(s, x), NEW j \in DOMAIN Append(s, x),
         i # j, Append(s, x)[i] = Append(s, x)[j]
  PROVE  \/ i \in DOMAIN s /\ j \in DOMAIN s /\ s[i] = s[j] /\ Append(s, x)[i] = s[i]
         \/ Append(s, x)[i] = x /\ x \in Range(s)
<1>1. /\ DOMAIN Append(s, x) = 1 .. Len(s) + 1 /\ DOMAIN s = 1 .. Len(s) /\ Len(s) \in Nat
      /\ \A k \in 1 .. Len(s) : Append(s, x)[k] = s[k]
      /\ Append(s, x)[Len(s) + 1] = x
  BY AppendProperties
<1>2. \A k \in 1 .. Len(s) + 1 : k \in 1 .. Len(s) \/ k = Len(s) + 1
  BY <1>1
<1> QED BY <1>1, <1>2 DEF Range

(* What one attempt does to the rows and to the duplicates.                 *)
LEMMA WriteEffect ==
  ASSUME TypeOK, DuplicatesOnlyIfUnsure, NEW t \in Task, NEW result \in Outcomes,
         Write(t, result), t \notin Stored \ unsure
  PROVE  /\ DuplicatesOnlyIfUnsure'
         /\ unsure \subseteq unsure' /\ Stored' \subseteq Stored \cup {t}
         /\ result = "ok" \/ Stored' \ unsure' \subseteq Stored \ unsure
<1>1. CASE result = "failed"
  BY <1>1 DEF Write, Stored, DuplicatesOnlyIfUnsure
<1>2. CASE result # "failed"
  <2>1. rows' = Append(rows, t) /\ rows \in Seq(Task)
    BY <1>2 DEF Write, TypeOK
  <2>2. Stored' = Stored \cup {t}
    BY <2>1, AppendRange DEF Stored
  <2>3. unsure' = IF result = "unsure" THEN unsure \cup {t} ELSE unsure
    BY DEF Write
  <2>4. DuplicatesOnlyIfUnsure'
    BY <2>1, <2>3, AppendTwins DEF DuplicatesOnlyIfUnsure, Stored
  <2>5. result \in {"ok", "failed", "unsure"}
    BY OutcomesAssumption DEF WriteResults
  <2> QED BY <1>2, <2>2, <2>3, <2>4, <2>5
<1> QED BY <1>1, <1>2

(* Steps that give no write an outcome.                                     *)
LEMMA EndsStay ==
  ASSUME EInv, UNCHANGED <<rows, deadLetters, dropped, unsure>>,
         Passed \subseteq Passed', Owed' \cap Passed \subseteq Owed
  PROVE  EInv'
  BY DEF EInv, OutcomeIsFinal, EndsOneWay, DuplicatesOnlyIfUnsure, Stored

LEMMA LetGo ==
  ASSUME TypeOK, Places, NEW p \in Procs, pc[p] \in Unsettled,
         UNCHANGED <<tasks, hand>>, pc' = [pc EXCEPT ![p] = "leave"]
  PROVE  Owed' = Owed \ {hand[p]} /\ hand[p] \in Owed
<1>1. \A q \in Procs : pc'[q] \in Unsettled <=> q # p /\ pc[q] \in Unsettled
  BY DEF TypeOK, Unsettled
<1>2. hand[p] \in Held /\ Held' = Held \ {hand[p]}
  BY <1>1 DEF Held, Places
<1>3. Queued' = Queued
  BY DEF Queued
<1> QED BY <1>2, <1>3 DEF Owed, Places

LEMMA EndsStep == IInv /\ EInv /\ [Next]_vars => EInv'
<1> SUFFICES ASSUME IInv, EInv, [Next]_vars PROVE EInv'
  OBVIOUS
<1> USE DEF procVars, reqVars, dbVars, ctxVars
<1>type. TypeOK /\ Places /\ Owed \subseteq Passed /\ WithCaller \cap Passed = {}
  BY IInvFacts
<1>1. ASSUME NEW r \in Requests, EnqueueAccepts(r) PROVE EInv'
  <2>1. Passed' = Passed \cup {Current(r)} /\ Current(r) \in Task \ Passed
    BY <1>1, <1>type, PassedAdvances DEF EnqueueAccepts, Offering
  <2>2. Queued' = Queued \cup {Current(r)} /\ Held' = Held
    BY <1>1, <1>type, <2>1, AppendRange DEF EnqueueAccepts, Queued, Held, TypeOK
  <2> QED BY <1>1, <2>1, <2>2, EndsStay DEF EnqueueAccepts, Owed
<1>2. ASSUME NEW r \in Requests, EnqueueRefuses(r) \/ CacheRefuses(r) \/ RequestEnds(r)
      PROVE  EInv'
  <2>1. UNCHANGED <<tasks, pc, hand, offer, rows, deadLetters, dropped, unsure>>
    BY <1>2 DEF EnqueueRefuses, CacheRefuses, RequestEnds, KeepWithCaller
  <2> QED BY <2>1, EndsStay, PlacesUnchanged DEF Passed
<1>3. ASSUME NEW r \in Requests, SyncWrite(r) PROVE EInv'
  <2>1. offer[r] <= MaxCalls /\ Advance(r) /\ UNCHANGED <<tasks, pc, hand, deadLetters>>
    BY <1>3, <1>type DEF SyncWrite, TypeOK
  <2>2. Passed' = Passed \cup {Current(r)} /\ Current(r) \in Task \ Passed
    BY <1>type, <2>1, PassedAdvances
  <2>3. Owed' = Owed
    BY <2>1, PlacesUnchanged
  <2>4. PICK result \in Outcomes :
          /\ Write(Current(r), result)
          /\ dropped' = IF result = "ok" THEN dropped ELSE dropped \cup {Current(r)}
    BY <1>3 DEF SyncWrite
  <2>5. Current(r) \notin (Stored \ unsure) \cup deadLetters \cup dropped
    BY <2>2 DEF EInv, OutcomeIsFinal
  <2>6. /\ DuplicatesOnlyIfUnsure'
        /\ unsure \subseteq unsure' /\ Stored' \subseteq Stored \cup {Current(r)}
        /\ result = "ok" \/ Stored' \ unsure' \subseteq Stored \ unsure
    BY <1>type, <2>2, <2>4, <2>5, WriteEffect DEF EInv
  <2>7. OutcomeIsFinal'
    BY <1>type, <2>1, <2>2, <2>3, <2>4, <2>6 DEF EInv, OutcomeIsFinal
  <2>8. EndsOneWay'
    BY <2>1, <2>4, <2>5, <2>6 DEF EInv, EndsOneWay
  <2> QED BY <2>6, <2>7, <2>8 DEF EInv
<1>4. ASSUME NEW p \in Procs, Take(p) PROVE EInv'
  <2>1. Queued' \subseteq Queued /\ Head(tasks) \in Queued
    BY <1>4, <1>type, TailRange DEF Take, Queued, TypeOK, Places
  <2>2. Held' \subseteq Held \cup {Head(tasks)}
    BY <1>4, <1>type DEF Take, Goto, Held, TypeOK
  <2>3. Passed' = Passed /\ UNCHANGED <<rows, deadLetters, dropped, unsure>>
    BY <1>4 DEF Take, Passed
  <2> QED BY <2>1, <2>2, <2>3, EndsStay DEF Owed
<1>5. ASSUME NEW p \in Procs, Attempt(p) PROVE EInv'
  <2>1. /\ hand[p] \in Task /\ pc[p] \in Unsettled
        /\ UNCHANGED <<tasks, hand, offer, deadLetters, dropped>>
    BY <1>5, <1>type DEF Attempt, TypeOK, Holding, Processing, Unsettled
  <2>2. Passed' = Passed /\ hand[p] \in Owed
    BY <2>1 DEF Passed, Owed, Held
  <2>3. PICK result \in Outcomes :
          /\ Write(hand[p], result)
          /\ \/ result = "ok" /\ pc' = [pc EXCEPT ![p] = "leave"]
             \/ result # "ok" /\ (pc' = pc \/ pc' = [pc EXCEPT ![p] = "bury"])
    BY <1>5 DEF Attempt, FinishLoop, Goto
  <2>4. hand[p] \notin (Stored \ unsure) \cup deadLetters \cup dropped
    BY <2>2 DEF EInv, OutcomeIsFinal
  <2>5. /\ DuplicatesOnlyIfUnsure'
        /\ unsure \subseteq unsure' /\ Stored' \subseteq Stored \cup {hand[p]}
        /\ result = "ok" \/ Stored' \ unsure' \subseteq Stored \ unsure
    BY <1>type, <2>1, <2>3, <2>4, WriteEffect DEF EInv
  <2>6. EndsOneWay'
    BY <2>1, <2>4, <2>5 DEF EInv, EndsOneWay
  <2>7. CASE result = "ok"
    <3>1. Owed' \subseteq Owed \ {hand[p]}
      BY <1>type, <2>1, <2>3, <2>7, LetGo
    <3> QED BY <1>type, <2>1, <2>2, <2>5, <2>6, <3>1 DEF EInv, OutcomeIsFinal
  <2>8. CASE result # "ok"
    <3>1. \A q \in Procs : pc'[q] \in Unsettled <=> pc[q] \in Unsettled
      BY <1>type, <2>1, <2>3, <2>8 DEF TypeOK, Unsettled
    <3>2. Owed' = Owed
      BY <2>1, <3>1, HeldUnchanged DEF Owed, Queued
    <3> QED BY <2>1, <2>2, <2>5, <2>6, <2>8, <3>2 DEF EInv, OutcomeIsFinal
  <2> QED BY <2>7, <2>8
<1>6. ASSUME NEW p \in Procs, BuryTask(p) PROVE EInv'
  <2>1. /\ pc[p] \in Unsettled /\ pc' = [pc EXCEPT ![p] = "leave"]
        /\ UNCHANGED <<tasks, hand, offer, rows, unsure>>
        /\ \/ deadLetters' = deadLetters \cup {hand[p]} /\ UNCHANGED dropped
           \/ dropped' = dropped \cup {hand[p]} /\ UNCHANGED deadLetters
    BY <1>6 DEF BuryTask, Goto, Unsettled
  <2>2. Owed' \subseteq Owed \ {hand[p]} /\ hand[p] \in Owed
    BY <1>type, <2>1, LetGo
  <2>3. Passed' = Passed /\ Stored' = Stored
    BY <2>1 DEF Passed, Stored
  <2>4. hand[p] \notin (Stored \ unsure) \cup deadLetters \cup dropped
    BY <2>2 DEF EInv, OutcomeIsFinal
  <2>5. OutcomeIsFinal'
    BY <1>type, <2>1, <2>2, <2>3 DEF EInv, OutcomeIsFinal
  <2>6. EndsOneWay' /\ DuplicatesOnlyIfUnsure'
    BY <2>1, <2>3, <2>4 DEF EInv, EndsOneWay, DuplicatesOnlyIfUnsure
  <2> QED BY <2>5, <2>6 DEF EInv
<1>7. ASSUME NEW p \in Procs, EnterProcess(p) \/ LeaveProcess(p) PROVE EInv'
  <2>1. UNCHANGED <<tasks, offer, rows, deadLetters, dropped, unsure>>
    BY <1>7 DEF EnterProcess, LeaveProcess
  <2>2. \A q \in Procs : /\ pc'[q] \in Unsettled <=> pc[q] \in Unsettled
                         /\ pc[q] \in Unsettled => hand'[q] = hand[q]
    BY <1>7, <1>type DEF EnterProcess, LeaveProcess, Goto, TypeOK, Unsettled
  <2>3. Held' = Held /\ Queued' = Queued /\ Passed' = Passed
    BY <2>1, <2>2 DEF Held, Queued, Passed
  <2> QED BY <2>1, <2>3, EndsStay DEF Owed
<1>8. ASSUME NEW p \in Procs, NEW to, to \notin Unsettled, Goto(p, to), pc[p] \notin Unsettled,
             UNCHANGED <<tasks, hand, offer, rows, deadLetters, dropped, unsure>>
      PROVE  EInv'
  <2>1. \A q \in Procs : pc'[q] \in Unsettled <=> pc[q] \in Unsettled
    BY <1>8, <1>type DEF Goto, TypeOK
  <2>2. Owed' = Owed /\ Passed' = Passed
    BY <1>8, <2>1, HeldUnchanged DEF Owed, Queued, Passed
  <2> QED BY <1>8, <2>2, EndsStay
<1>9. ASSUME NEW w \in Workers, WorkerExit(w) PROVE EInv'
  BY <1>8, <1>9 DEF WorkerExit, Unsettled, Procs
<1>10. CASE FlushCall \/ FlushTimeout \/ FlushDrained \/ FlushCheck \/ FlushSleep
  <2>1. PICK from, to \in {"idle", "select", "check", "waiting", "nil", "timeout"} :
          FlushStep(from, to)
    BY <1>10 DEF FlushCall, FlushTimeout, FlushDrained, FlushCheck, FlushSleep
  <2> QED BY <1>8, <2>1 DEF FlushStep, Unsettled, Procs
<1>11. CASE CancelApp \/ DeadlinePasses \/ UNCHANGED vars
  <2>1. UNCHANGED <<tasks, pc, hand, offer, rows, deadLetters, dropped, unsure>>
    BY <1>11 DEF CancelApp, DeadlinePasses, vars
  <2> QED BY <2>1, EndsStay, PlacesUnchanged DEF Passed
<1> QED
  BY <1>1, <1>2, <1>3, <1>4, <1>5, <1>6, <1>7, <1>9, <1>10, <1>11
     DEF Next, Request, Worker, WorkerReceive, Process, Flush, FlushReceive, Procs

LEMMA InitEInv == Init => EInv
<1>1. Init => Stored = {}
  BY DEF Init, Stored, Range
<1> QED BY <1>1 DEF Init, EInv, OutcomeIsFinal, EndsOneWay, DuplicatesOnlyIfUnsure

(* For any number of retries and workers: MySQL holds a write twice only    *)
(* after an attempt whose answer was lost.                                  *)
THEOREM NoIdleDuplicates == Spec => []DuplicatesOnlyIfUnsure
<1>1. EInv => DuplicatesOnlyIfUnsure
  BY DEF EInv
<1> QED BY <1>1, InitEInv, EndsStep, Invariance, PTL DEF Spec

(* A write ends as a row, as a dead letter or as a log line, and only an    *)
(* attempt whose answer was lost makes it end twice.                       *)
THEOREM OneEnd == Spec => []EndsOneWay
<1>1. EInv => EndsOneWay
  BY DEF EInv
<1> QED BY <1>1, InitEInv, EndsStep, Invariance, PTL DEF Spec

-------------------------------------------------------------------------------
(* The batches of a request pass through the channel in their order.       *)

OInv == ChannelInOrder /\ HeldBeforeQueued

(* Steps that put nothing into the channel and into nobody's hands.         *)
LEMMA OrderStays ==
  ASSUME OInv, UNCHANGED tasks,
         \A q \in Procs : pc'[q] \in Unsettled => pc[q] \in Unsettled /\ hand'[q] = hand[q]
  PROVE  OInv'
  BY DEF OInv, ChannelInOrder, HeldBeforeQueued, Queued

(* A new batch comes after every batch of its request that is under way.    *)
LEMMA NewestLast ==
  ASSUME TypeOK, Owed \subseteq Passed, NEW r \in Requests, offer[r] <= MaxCalls,
         NEW t \in Owed, t[1] = r
  PROVE  t[2] < Current(r)[2]
  BY DEF Passed, Current

LEMMA OrderAppend ==
  ASSUME TypeOK, Places, Owed \subseteq Passed, OInv, NEW r \in Requests, EnqueueAccepts(r)
  PROVE  OInv'
<1>1. /\ offer[r] <= MaxCalls /\ tasks' = Append(tasks, Current(r)) /\ Current(r) \in Task
      /\ UNCHANGED <<pc, hand>> /\ Current(r)[1] = r
  BY DEF EnqueueAccepts, Offering, procVars, TypeOK, Current, Task
<1>2. /\ DOMAIN tasks' = 1 .. Len(tasks) + 1 /\ DOMAIN tasks = 1 .. Len(tasks)
      /\ Len(tasks) \in Nat
      /\ \A k \in 1 .. Len(tasks) : tasks'[k] = tasks[k]
      /\ tasks'[Len(tasks) + 1] = Current(r)
  BY <1>1, AppendProperties DEF TypeOK
<1>3. \A t \in Owed : t[1] = r => t[2] < Current(r)[2]
  BY <1>1, NewestLast
<1>4. Queued' = Queued \cup {Current(r)}
  BY <1>1, AppendRange DEF Queued, TypeOK
<1>5. ChannelInOrder'
  <2> SUFFICES ASSUME NEW i \in DOMAIN tasks', NEW j \in DOMAIN tasks',
                      i < j, tasks'[i][1] = tasks'[j][1]
               PROVE  tasks'[i][2] < tasks'[j][2]
    BY DEF ChannelInOrder
  <2>1. i \in 1 .. Len(tasks) /\ tasks'[i] = tasks[i] /\ tasks[i] \in Owed
    BY <1>2 DEF Owed, Queued, Range
  <2>2. CASE j \in 1 .. Len(tasks)
    BY <1>2, <2>1, <2>2 DEF OInv, ChannelInOrder
  <2>3. CASE j = Len(tasks) + 1
    BY <1>1, <1>2, <1>3, <2>1, <2>3
  <2> QED BY <1>2, <2>2, <2>3
<1>6. HeldBeforeQueued'
  <2> SUFFICES ASSUME NEW p \in Procs, NEW t \in Queued',
                      pc'[p] \in Unsettled, hand'[p][1] = t[1]
               PROVE  hand'[p][2] < t[2]
    BY DEF HeldBeforeQueued
  <2>1. pc[p] \in Unsettled /\ hand'[p] = hand[p] /\ hand[p] \in Owed
    BY <1>1 DEF Owed, Held
  <2>2. CASE t \in Queued
    BY <2>1, <2>2 DEF OInv, HeldBeforeQueued
  <2>3. CASE t = Current(r)
    BY <1>1, <1>3, <2>1, <2>3
  <2> QED BY <1>4, <2>2, <2>3
<1> QED BY <1>5, <1>6 DEF OInv

LEMMA OrderTake ==
  ASSUME TypeOK, Places, OInv, NEW p \in Procs, Take(p)
  PROVE  OInv'
<1>1. /\ tasks # <<>> /\ tasks' = Tail(tasks) /\ tasks \in Seq(Task)
      /\ hand' = [hand EXCEPT ![p] = Head(tasks)] /\ pc' = [pc EXCEPT ![p] = "received"]
  BY DEF Take, Goto, TypeOK
<1>2. /\ Len(tasks) \in Nat \ {0} /\ DOMAIN tasks = 1 .. Len(tasks)
      /\ DOMAIN tasks' = 1 .. Len(tasks) - 1 /\ Head(tasks) = tasks[1]
      /\ \A i \in 1 .. Len(tasks) - 1 : tasks'[i] = tasks[i + 1]
  BY <1>1, HeadTailProperties
<1>3. ChannelInOrder'
  <2> SUFFICES ASSUME NEW i \in DOMAIN tasks', NEW j \in DOMAIN tasks',
                      i < j, tasks'[i][1] = tasks'[j][1]
               PROVE  tasks'[i][2] < tasks'[j][2]
    BY DEF ChannelInOrder
  <2>1. /\ i + 1 \in DOMAIN tasks /\ j + 1 \in DOMAIN tasks /\ i + 1 < j + 1
        /\ tasks'[i] = tasks[i + 1] /\ tasks'[j] = tasks[j + 1]
    BY <1>2
  <2> QED BY <2>1 DEF OInv, ChannelInOrder
<1>4. ASSUME NEW t \in Queued' PROVE \E i \in DOMAIN tasks : 1 < i /\ t = tasks[i]
  <2>1. PICK k \in DOMAIN tasks' : t = tasks'[k]
    BY <1>4 DEF Queued, Range
  <2>2. k + 1 \in DOMAIN tasks /\ 1 < k + 1 /\ t = tasks[k + 1]
    BY <1>2, <2>1
  <2> QED BY <2>2
<1>5. HeldBeforeQueued'
  <2> SUFFICES ASSUME NEW q \in Procs, NEW t \in Queued',
                      pc'[q] \in Unsettled, hand'[q][1] = t[1]
               PROVE  hand'[q][2] < t[2]
    BY DEF HeldBeforeQueued
  <2>1. PICK i \in DOMAIN tasks : 1 < i /\ t = tasks[i]
    BY <1>4
  <2>2. CASE q = p
    <3>1. hand'[q] = tasks[1] /\ 1 \in DOMAIN tasks
      BY <1>1, <1>2, <2>2 DEF TypeOK
    <3> QED BY <2>1, <3>1 DEF OInv, ChannelInOrder
  <2>3. CASE q # p
    <3>1. pc[q] \in Unsettled /\ hand'[q] = hand[q] /\ t \in Queued
      BY <1>1, <2>1, <2>3 DEF TypeOK, Queued, Range
    <3> QED BY <3>1 DEF OInv, HeldBeforeQueued
  <2> QED BY <2>2, <2>3
<1> QED BY <1>3, <1>5 DEF OInv

LEMMA OrderStep == IInv /\ OInv /\ [Next]_vars => OInv'
<1> SUFFICES ASSUME IInv, OInv, [Next]_vars PROVE OInv'
  OBVIOUS
<1> USE DEF procVars, reqVars, dbVars, ctxVars
<1>type. TypeOK /\ Places /\ Owed \subseteq Passed
  BY IInvFacts
<1>1. ASSUME NEW r \in Requests, EnqueueAccepts(r) PROVE OInv'
  BY <1>1, <1>type, OrderAppend
<1>2. ASSUME NEW r \in Requests,
             EnqueueRefuses(r) \/ CacheRefuses(r) \/ RequestEnds(r) \/ SyncWrite(r)
      PROVE  OInv'
  BY <1>2, OrderStays DEF EnqueueRefuses, CacheRefuses, RequestEnds, KeepWithCaller, SyncWrite
<1>3. ASSUME NEW p \in Procs, Take(p) PROVE OInv'
  BY <1>3, <1>type, OrderTake
<1>4. ASSUME NEW p \in Procs, NEW to, Goto(p, to), to \in Unsettled => pc[p] \in Unsettled,
             UNCHANGED <<tasks, hand>>
      PROVE  OInv'
  <2>1. \A q \in Procs : pc'[q] \in Unsettled => pc[q] \in Unsettled
    BY <1>4, <1>type DEF Goto, TypeOK
  <2> QED BY <1>4, <2>1, OrderStays
<1>5. ASSUME NEW p \in Procs, EnterProcess(p) \/ BuryTask(p) PROVE OInv'
  BY <1>4, <1>5 DEF EnterProcess, BuryTask, Unsettled
<1>6. ASSUME NEW p \in Procs, Attempt(p) PROVE OInv'
  <2>1. pc[p] = "attempt" /\ UNCHANGED <<tasks, hand>>
        /\ (UNCHANGED pc \/ Goto(p, "leave") \/ Goto(p, "bury"))
    BY <1>6 DEF Attempt, FinishLoop
  <2> QED BY <1>4, <2>1, OrderStays DEF Unsettled
<1>7. ASSUME NEW p \in Procs, LeaveProcess(p) PROVE OInv'
  <2>1. \A q \in Procs : pc'[q] \in Unsettled => pc[q] \in Unsettled /\ hand'[q] = hand[q]
    <3>1. /\ hand' = [hand EXCEPT ![p] = None]
          /\ \E to \in {"select", "check"} : pc' = [pc EXCEPT ![p] = to]
      BY <1>7, <1>type DEF LeaveProcess, Goto, TypeOK
    <3> QED BY <1>type, <3>1 DEF TypeOK, Unsettled
  <2> QED BY <1>7, <2>1, OrderStays DEF LeaveProcess
<1>8. ASSUME NEW w \in Workers, WorkerExit(w) PROVE OInv'
  BY <1>4, <1>8 DEF WorkerExit, Unsettled, Procs
<1>9. CASE FlushCall \/ FlushTimeout \/ FlushDrained \/ FlushCheck \/ FlushSleep
  <2>1. PICK from, to \in {"idle", "select", "check", "waiting", "nil", "timeout"} :
          FlushStep(from, to)
    BY <1>9 DEF FlushCall, FlushTimeout, FlushDrained, FlushCheck, FlushSleep
  <2> QED BY <1>4, <2>1 DEF FlushStep, Unsettled, Procs
<1>10. CASE CancelApp \/ DeadlinePasses \/ UNCHANGED vars
  BY <1>10, OrderStays DEF CancelApp, DeadlinePasses, vars
<1> QED
  BY <1>1, <1>2, <1>3, <1>5, <1>6, <1>7, <1>8, <1>9, <1>10
     DEF Next, Request, Worker, WorkerReceive, Process, Flush, FlushReceive, Procs

LEMMA InitOInv == Init => OInv
  BY DEF Init, OInv, ChannelInOrder, HeldBeforeQueued, Queued, Range

(* No batch waits in the channel behind the back of a later one of the same *)
(* request: only batches held at the same moment can pass each other.       *)
THEOREM OrderKept == Spec => []HeldBeforeQueued
<1>1. OInv => HeldBeforeQueued
  BY DEF OInv
<1> QED BY <1>1, InitOInv, OrderStep, Invariance, PTL DEF Spec
-------------------------------------------------------------------------------
(* The queue implements the ledger.                                        *)

(* A write whose places and outcomes are as before has the fate it had.     *)
LEMMA FateStays ==
  ASSUME UNCHANGED <<Owed, WithCaller, Passed, deadLetters, dropped>>
  PROVE  Fate' = Fate
  BY DEF Fate, Offered

(* A step that touches one write changes one fate.                          *)
LEMMA FateMoves ==
  ASSUME NEW t \in Task, NEW end,
         \A u \in Task \ {t} : /\ u \in Owed' <=> u \in Owed
                               /\ u \in WithCaller' <=> u \in WithCaller
                               /\ u \in Passed' <=> u \in Passed
                               /\ u \in deadLetters' <=> u \in deadLetters
                               /\ u \in dropped' <=> u \in dropped,
         Fate'[t] = end
  PROVE  Fate' = [Fate EXCEPT ![t] = end]
<1>1. \A u \in Task \ {t} : Fate'[u] = Fate[u]
  BY DEF Fate, Offered
<1>2. Fate = [u \in Task |-> Fate[u]] /\ Fate' = [u \in Task |-> Fate'[u]]
  BY DEF Fate
<1> QED BY <1>1, <1>2

(* The caller has its batch in hand from the refusal to its single attempt. *)
LEMMA CallerTakes ==
  ASSUME TypeOK, NEW r \in Requests, Offering(r), KeepWithCaller(r)
  PROVE  /\ WithCaller' = WithCaller \cup {Current(r)}
         /\ Current(r) \in Task \ (Passed \cup WithCaller)
<1>1. /\ \A q \in Requests : call'[q] = "sync" <=> q = r \/ call[q] = "sync"
      /\ offer' = offer /\ call[r] = "offer"
  BY DEF TypeOK, Offering, KeepWithCaller
<1>2. Current(r) \in Task
  BY DEF TypeOK, Offering, Current, Task
<1> QED BY <1>1, <1>2 DEF WithCaller, Current, Passed, TypeOK

LEMMA CallerLetsGo ==
  ASSUME TypeOK, NEW r \in Requests, Advance(r)
  PROVE  WithCaller' = WithCaller \ {Current(r)}
<1>1. \A q \in Requests : /\ call'[q] = "sync" <=> q # r /\ call[q] = "sync"
                          /\ q # r => offer'[q] = offer[q]
  BY DEF TypeOK, Advance
<1>2. \A q \in Requests : Current(q) = Current(r) => q = r
  BY DEF Current
<1>3. \A q \in Requests \ {r} : Current(q)' = Current(q)
  BY <1>1 DEF Current
<1> QED BY <1>1, <1>2, <1>3 DEF WithCaller

LEMMA LedgerStep == IInv /\ EInv /\ [Next]_vars => [Ledger!Next]_(Ledger!vars)
<1> SUFFICES ASSUME IInv, EInv, [Next]_vars PROVE [Ledger!Next]_(Ledger!vars)
  OBVIOUS
<1> USE DEF procVars, reqVars, dbVars, ctxVars
<1>type. /\ TypeOK /\ Places /\ Owed \subseteq Passed /\ WithCaller \cap Passed = {}
         /\ Passed \subseteq Task
  BY IInvFacts DEF Passed
<1>final. deadLetters \cup dropped \subseteq Passed \ Owed
  BY DEF EInv, OutcomeIsFinal
(* Steps within one fate.                                                   *)
<1>stay. ASSUME UNCHANGED <<Owed, offer, call, rows, deadLetters, dropped>>
         PROVE  [Ledger!Next]_(Ledger!vars)
  <2>1. Passed' = Passed /\ WithCaller' = WithCaller
    BY <1>stay DEF Passed, WithCaller, Current
  <2> QED BY <1>stay, <2>1, FateStays DEF Ledger!vars
<1>1. ASSUME NEW r \in Requests, EnqueueAccepts(r) PROVE [Ledger!Next]_(Ledger!vars)
  <2>1. Passed' = Passed \cup {Current(r)} /\ Current(r) \in Task \ Passed
    BY <1>1, <1>type, PassedAdvances DEF EnqueueAccepts, Offering
  <2>2. Queued' = Queued \cup {Current(r)} /\ Held' = Held
    BY <1>1, <1>type, <2>1, AppendRange DEF EnqueueAccepts, Queued, Held, TypeOK
  <2>3. WithCaller' = WithCaller \ {Current(r)} /\ Current(r) \notin WithCaller
    <3>1. Current(r) \notin WithCaller
      BY <1>1 DEF EnqueueAccepts, Offering, WithCaller, Current
    <3> QED BY <1>1, <1>type, <3>1, CallerLetsGo DEF EnqueueAccepts
  <2>4. Fate[Current(r)] = "unoffered" /\ Fate'[Current(r)] = "queued"
    BY <1>type, <2>1, <2>2, <2>3 DEF Fate, Owed, Offered
  <2>5. Fate' = [Fate EXCEPT ![Current(r)] = "queued"]
    BY <1>1, <2>1, <2>2, <2>3, <2>4, FateMoves DEF EnqueueAccepts, Owed
  <2> QED BY <1>1, <2>1, <2>4, <2>5
          DEF EnqueueAccepts, Ledger!Next, Ledger!Accept, Ledger!Become
<1>2. ASSUME NEW r \in Requests, EnqueueRefuses(r) \/ CacheRefuses(r)
      PROVE  [Ledger!Next]_(Ledger!vars)
  <2>1. KeepWithCaller(r) /\ Offering(r) /\ UNCHANGED <<tasks, pc, hand, offer, rows, deadLetters, dropped>>
    BY <1>2 DEF EnqueueRefuses, CacheRefuses, KeepWithCaller
  <2>2. /\ WithCaller' = WithCaller \cup {Current(r)}
        /\ Current(r) \in Task \ (Passed \cup WithCaller)
    BY <1>type, <2>1, CallerTakes
  <2>3. Owed' = Owed /\ Passed' = Passed
    BY <2>1, PlacesUnchanged DEF Passed
  <2>4. Fate[Current(r)] = "unoffered" /\ Fate'[Current(r)] = "caller"
    BY <1>type, <2>2, <2>3 DEF Fate, Offered
  <2>5. Fate' = [Fate EXCEPT ![Current(r)] = "caller"]
    BY <2>1, <2>2, <2>3, <2>4, FateMoves
  <2> QED BY <2>1, <2>2, <2>4, <2>5 DEF Ledger!Next, Ledger!Refuse, Ledger!Become
<1>3. ASSUME NEW r \in Requests, RequestEnds(r) PROVE [Ledger!Next]_(Ledger!vars)
  <2>1. UNCHANGED <<tasks, pc, hand, offer, call, rows, deadLetters, dropped>>
    BY <1>3 DEF RequestEnds
  <2> QED BY <1>stay, <2>1, PlacesUnchanged
<1>4. ASSUME NEW r \in Requests, SyncWrite(r) PROVE [Ledger!Next]_(Ledger!vars)
  <2>1. /\ offer[r] <= MaxCalls /\ Advance(r) /\ call[r] = "sync"
        /\ UNCHANGED <<tasks, pc, hand, deadLetters>>
    BY <1>4, <1>type DEF SyncWrite, TypeOK
  <2>2. Passed' = Passed \cup {Current(r)} /\ Current(r) \in Task \ Passed
    BY <1>type, <2>1, PassedAdvances
  <2>3. WithCaller' = WithCaller \ {Current(r)} /\ Current(r) \in WithCaller
    BY <1>type, <2>1, CallerLetsGo DEF WithCaller
  <2>4. Owed' = Owed /\ Current(r) \notin Owed \cup deadLetters \cup dropped
    BY <1>type, <1>final, <2>1, <2>2, PlacesUnchanged
  <2>5. Fate[Current(r)] = "caller"
    BY <2>2, <2>3, <2>4 DEF Fate
  <2>6. PICK result \in Outcomes :
          /\ Write(Current(r), result)
          /\ dropped' = IF result = "ok" THEN dropped ELSE dropped \cup {Current(r)}
    BY <1>4 DEF SyncWrite
  <2>7. Fate'[Current(r)] = IF result = "ok" THEN "stored" ELSE "dropped"
    BY <2>1, <2>2, <2>3, <2>4, <2>6 DEF Fate, Offered
  <2>8. Fate' = [Fate EXCEPT ![Current(r)] = IF result = "ok" THEN "stored" ELSE "dropped"]
    BY <2>1, <2>2, <2>3, <2>4, <2>6, <2>7, FateMoves
  <2>9. CASE result = "ok"
    BY <2>2, <2>5, <2>6, <2>8, <2>9
       DEF Write, Ledger!Next, Ledger!Store, Ledger!Become, Ledger!Open
  <2>10. CASE result # "ok"
    <3>1. rows' = rows \/ rows' = Append(rows, Current(r))
      BY <2>6 DEF Write
    <3> QED BY <2>2, <2>5, <2>8, <2>10, <3>1
            DEF Ledger!Next, Ledger!Drop, Ledger!Become, Ledger!Open
  <2> QED BY <2>9, <2>10
(* A receive moves a write from the channel into a hand: it stays "queued".  *)
<1>5. ASSUME NEW p \in Procs, pc[p] \notin Unsettled, Take(p) PROVE [Ledger!Next]_(Ledger!vars)
  <2>1. Queued' = Queued \ {Head(tasks)} /\ Head(tasks) \in Queued
    BY <1>5, <1>type, TailRange DEF Take, Queued, TypeOK, Places
  <2>2. \A q \in Procs : /\ pc'[q] \in Unsettled <=> q = p \/ pc[q] \in Unsettled
                         /\ hand'[q] = IF q = p THEN Head(tasks) ELSE hand[q]
    BY <1>5, <1>type DEF Take, Goto, TypeOK, Unsettled
  <2>3. Held' = Held \cup {Head(tasks)}
    BY <1>5, <2>2 DEF Held
  <2>4. Owed' = Owed
    BY <2>1, <2>3 DEF Owed
  <2> QED BY <1>5, <1>stay, <2>4 DEF Take
<1>6. ASSUME NEW p \in Procs, Attempt(p) PROVE [Ledger!Next]_(Ledger!vars)
  <2>1. /\ hand[p] \in Task /\ pc[p] \in Unsettled
        /\ UNCHANGED <<tasks, hand, offer, call, deadLetters, dropped>>
    BY <1>6, <1>type DEF Attempt, TypeOK, Holding, Processing, Unsettled
  <2>2. hand[p] \in Owed /\ Passed' = Passed /\ WithCaller' = WithCaller
    BY <2>1 DEF Passed, WithCaller, Current, Owed, Held
  <2>3. Fate[hand[p]] = "queued"
    BY <2>1, <2>2 DEF Fate
  <2>4. PICK result \in Outcomes :
          /\ Write(hand[p], result)
          /\ \/ result = "ok" /\ pc' = [pc EXCEPT ![p] = "leave"]
             \/ result # "ok" /\ (pc' = pc \/ pc' = [pc EXCEPT ![p] = "bury"])
    BY <1>6 DEF Attempt, FinishLoop, Goto
  <2>5. CASE result = "ok"
    <3>1. Owed' = Owed \ {hand[p]}
      BY <1>type, <2>1, <2>4, <2>5, LetGo
    <3>2. Fate'[hand[p]] = "stored"
      BY <1>type, <1>final, <2>1, <2>2, <3>1 DEF Fate, Offered
    <3>3. Fate' = [Fate EXCEPT ![hand[p]] = "stored"]
      BY <2>1, <2>2, <3>1, <3>2, FateMoves
    <3>4. rows' = Append(rows, hand[p])
      BY <2>4, <2>5 DEF Write
    <3> QED BY <2>1, <2>3, <3>3, <3>4
            DEF Ledger!Next, Ledger!Store, Ledger!Become, Ledger!Open
  <2>6. CASE result # "ok"
    <3>1. \A q \in Procs : pc'[q] \in Unsettled <=> pc[q] \in Unsettled
      BY <1>type, <2>1, <2>4, <2>6 DEF TypeOK, Unsettled
    <3>2. Owed' = Owed
      BY <2>1, <3>1, HeldUnchanged DEF Owed, Queued
    <3>3. Fate' = Fate
      BY <2>1, <2>2, <3>2, FateStays
    <3>4. rows' = rows \/ rows' = Append(rows, hand[p])
      BY <2>4 DEF Write
    <3> QED BY <2>1, <2>3, <3>3, <3>4 DEF Ledger!Next, Ledger!LandUnsure, Ledger!vars
  <2> QED BY <2>5, <2>6
<1>7. ASSUME NEW p \in Procs, BuryTask(p) PROVE [Ledger!Next]_(Ledger!vars)
  <2>1. /\ pc[p] \in Unsettled /\ pc' = [pc EXCEPT ![p] = "leave"]
        /\ UNCHANGED <<tasks, hand, offer, call, rows>>
        /\ \/ deadLetters' = deadLetters \cup {hand[p]} /\ UNCHANGED dropped
           \/ dropped' = dropped \cup {hand[p]} /\ UNCHANGED deadLetters
    BY <1>7 DEF BuryTask, Goto, Unsettled
  <2>2. Owed' = Owed \ {hand[p]} /\ hand[p] \in Owed /\ hand[p] \in Task
    BY <1>type, <2>1, LetGo
  <2>3. Passed' = Passed /\ WithCaller' = WithCaller
    BY <2>1 DEF Passed, WithCaller, Current
  <2>4. Fate[hand[p]] = "queued"
    BY <2>2 DEF Fate
  <2>5. CASE deadLetters' = deadLetters \cup {hand[p]} /\ UNCHANGED dropped
    <3>1. Fate'[hand[p]] = "deadLetter"
      BY <1>type, <2>2, <2>3, <2>5 DEF Fate, Offered
    <3>2. Fate' = [Fate EXCEPT ![hand[p]] = "deadLetter"]
      BY <2>2, <2>3, <2>5, <3>1, FateMoves
    <3> QED BY <2>1, <2>2, <2>4, <3>2 DEF Ledger!Next, Ledger!Bury, Ledger!Become
  <2>6. CASE dropped' = dropped \cup {hand[p]} /\ UNCHANGED deadLetters
    <3>1. Fate'[hand[p]] = "dropped"
      BY <1>type, <1>final, <2>2, <2>3, <2>6 DEF Fate, Offered
    <3>2. Fate' = [Fate EXCEPT ![hand[p]] = "dropped"]
      BY <2>2, <2>3, <2>6, <3>1, FateMoves
    <3> QED BY <2>1, <2>2, <2>4, <3>2 DEF Ledger!Next, Ledger!Drop, Ledger!Become, Ledger!Open
  <2> QED BY <2>1, <2>5, <2>6
<1>8. ASSUME NEW p \in Procs, EnterProcess(p) \/ LeaveProcess(p)
      PROVE  [Ledger!Next]_(Ledger!vars)
  <2>1. UNCHANGED <<tasks, offer, call, rows, deadLetters, dropped>>
    BY <1>8 DEF EnterProcess, LeaveProcess
  <2>2. \A q \in Procs : /\ pc'[q] \in Unsettled <=> pc[q] \in Unsettled
                         /\ pc[q] \in Unsettled => hand'[q] = hand[q]
    BY <1>8, <1>type DEF EnterProcess, LeaveProcess, Goto, TypeOK, Unsettled
  <2>3. Owed' = Owed
    BY <2>1, <2>2 DEF Owed, Held, Queued
  <2> QED BY <1>stay, <2>1, <2>3
<1>9. ASSUME NEW p \in Procs, NEW to, to \notin Unsettled, Goto(p, to), pc[p] \notin Unsettled,
             UNCHANGED <<tasks, hand, offer, call, rows, deadLetters, dropped>>
      PROVE  [Ledger!Next]_(Ledger!vars)
  <2>1. \A q \in Procs : pc'[q] \in Unsettled <=> pc[q] \in Unsettled
    BY <1>9, <1>type DEF Goto, TypeOK
  <2>2. Owed' = Owed
    BY <1>9, <2>1, HeldUnchanged DEF Owed, Queued
  <2> QED BY <1>9, <1>stay, <2>2
<1>10. ASSUME NEW w \in Workers, WorkerExit(w) PROVE [Ledger!Next]_(Ledger!vars)
  BY <1>9, <1>10 DEF WorkerExit, Unsettled, Procs
<1>11. CASE FlushCall \/ FlushTimeout \/ FlushDrained \/ FlushCheck \/ FlushSleep
  <2>1. PICK from, to \in {"idle", "select", "check", "waiting", "nil", "timeout"} :
          FlushStep(from, to)
    BY <1>11 DEF FlushCall, FlushTimeout, FlushDrained, FlushCheck, FlushSleep
  <2> QED BY <1>9, <2>1 DEF FlushStep, Unsettled, Procs
<1>12. CASE CancelApp \/ DeadlinePasses \/ UNCHANGED vars
  <2>1. UNCHANGED <<tasks, pc, hand, offer, call, rows, deadLetters, dropped>>
    BY <1>12 DEF CancelApp, DeadlinePasses, vars
  <2> QED BY <1>stay, <2>1, PlacesUnchanged
<1>13. ASSUME NEW w \in Workers, WorkerReceive(w) PROVE [Ledger!Next]_(Ledger!vars)
  BY <1>5, <1>13 DEF WorkerReceive, Unsettled, Procs
<1>14. CASE FlushReceive
  BY <1>5, <1>14 DEF FlushReceive, Unsettled, Procs
<1> QED
  BY <1>1, <1>2, <1>3, <1>4, <1>6, <1>7, <1>8, <1>10, <1>11, <1>12, <1>13, <1>14
     DEF Next, Request, Worker, Process, Flush, Procs

(* For any number of requests, workers, slots and retries, whatever the     *)
(* queue does with a write, its fallbacks and Flush included, is a step of  *)
(* the ledger about that write: taken over or handed back, then ended once. *)
THEOREM QueueKeepsLedger == Spec => ImplementsLedger
<1>1. Init => Ledger!Init
  <2> SUFFICES ASSUME Init PROVE Fate = [t \in Task |-> "unoffered"] /\ rows = <<>>
    BY DEF Ledger!Init
  <2>1. Owed = {} /\ WithCaller = {} /\ Passed = {}
    BY BoundsAssumption
       DEF Init, Owed, Queued, Held, Passed, WithCaller, Task, Range, Unsettled
  <2> QED BY <2>1 DEF Init, Fate, Offered
<1> QED
  BY <1>1, InitEInv, EndsStep, LedgerStep, Invariance, PTL
     DEF Spec, ImplementsLedger, Ledger!Spec
===============================================================================
