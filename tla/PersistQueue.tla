----------------------------- MODULE PersistQueue -----------------------------
(***************************************************************************)
(* internal/persist: the buffered channel of writes, the worker goroutines *)
(* that drain it into MySQL with retries and dead letters, the Flush of    *)
(* the shutdown, and the requests that offer writes and fall back to a     *)
(* synchronous write when the queue (or Redis before it) refuses.          *)
(*                                                                         *)
(* A request r is one ProcessMessage call.  It persists up to MaxCalls     *)
(* batches one after the other, so a task is <<r, n>>, the n-th batch of   *)
(* r; a conversation is identified with the request that writes to it.     *)
(***************************************************************************)
EXTENDS Integers, Sequences, FiniteSets, Functions

CONSTANTS Requests,     \* the ProcessMessage calls
          Workers,      \* the worker goroutines (workerCount of them)
          Flusher,      \* the goroutine of app.Run, which calls Flush once
          None,         \* no task in hand
          MaxCalls,     \* batches one request persists
          Capacity,     \* bufferSize of the channel
          MaxRetries,   \* attempts on one task
          Outcomes      \* what a MySQL write may do: WriteResults or fewer

(* "failed": an error and no row; "unsure": an error, but the row landed.  *)
WriteResults == {"ok", "failed", "unsure"}

ASSUME WorkersAssumption == IsFiniteSet(Workers) /\ Flusher \notin Workers
ASSUME BoundsAssumption  == /\ MaxCalls \in Nat
                            /\ Capacity \in Nat \ {0}
                            /\ MaxRetries \in Nat \ {0}
ASSUME OutcomesAssumption == Outcomes \subseteq WriteResults

Procs == Workers \cup {Flusher}
Task  == Requests \X (1 .. MaxCalls)

ASSUME NoneAssumption == None \notin Task

VARIABLES
  tasks,        \* q.tasks, the channel
  inFlight,     \* q.inFlight
  ctxDone,      \* the application context, which the workers watch
  deadline,     \* the shutdown context of Flush has expired
  pc,           \* where each worker and the flusher is
  hand,         \* the task each of them received and has not let go of
  tries,        \* failed attempts on that task
  resume,       \* the loop of Flush that process returns to
  offer,        \* the batch each request persists next
  call,         \* what each request does with that batch
  reqDone,      \* the context of the request has ended
  rows,         \* the rows in MySQL, in commit order
  deadLetters,  \* the rows of persist_dead_letters
  dropped,      \* writes given up with only a log line
  unsure,       \* history: tasks one of whose attempts was "unsure"
  due           \* history: tasks the queue owed when Flush was called

procVars == <<pc, hand, tries, resume, inFlight>>
reqVars  == <<offer, call, reqDone>>
dbVars   == <<rows, deadLetters, dropped, unsure>>
ctxVars  == <<ctxDone, deadline, due>>
vars     == <<tasks, procVars, reqVars, dbVars, ctxVars>>

-------------------------------------------------------------------------------
(* A processor that has entered process, and one that holds a task at all. *)
Processing == {"attempt", "bury", "leave"}
Unsettled  == {"received", "attempt", "bury"}   \* its task is still open
Holding    == Processing \cup {"received"}

PCs == Holding \cup {"idle", "select", "check", "waiting",
                     "exited", "nil", "timeout"}

Queued       == Range(tasks)
Held         == {hand[p] : p \in {q \in Procs : pc[q] \in Unsettled}}
Owed         == Queued \cup Held           \* accepted and not settled
Stored       == Range(rows)

Current(r)   == <<r, offer[r]>>
WithCaller   == {Current(r) : r \in {q \in Requests : call[q] = "sync"}}
Passed       == {t \in Task : t[2] < offer[t[1]]}   \* its request is done with it
Offered      == Passed \cup WithCaller
Settled(t)   == t \in Offered /\ t \notin Owed \cup WithCaller
InProcess    == {p \in Procs : pc[p] \in Processing}

TypeOK ==
  /\ tasks \in Seq(Task) /\ Len(tasks) <= Capacity
  /\ inFlight \in Int
  /\ ctxDone \in BOOLEAN /\ deadline \in BOOLEAN
  /\ pc \in [Procs -> PCs]
  /\ hand \in [Procs -> Task \cup {None}]
  /\ \A p \in Procs : pc[p] \in Holding => hand[p] \in Task
  /\ tries \in [Procs -> 0 .. MaxRetries - 1]
  /\ resume \in {"select", "check"}
  /\ offer \in [Requests -> 1 .. MaxCalls + 1]
  /\ call \in [Requests -> {"offer", "sync"}]
  /\ \A r \in Requests : call[r] = "sync" => offer[r] <= MaxCalls
  /\ reqDone \in [Requests -> BOOLEAN]
  /\ rows \in Seq(Task)
  /\ deadLetters \subseteq Task /\ dropped \subseteq Task
  /\ unsure \subseteq Task /\ due \subseteq Task

Init ==
  /\ tasks = <<>>
  /\ inFlight = 0
  /\ ctxDone = FALSE /\ deadline = FALSE
  /\ pc = [p \in Procs |-> IF p = Flusher THEN "idle" ELSE "select"]
  /\ hand = [p \in Procs |-> None]
  /\ tries = [p \in Procs |-> 0]
  /\ resume = "select"
  /\ offer = [r \in Requests |-> 1]
  /\ call = [r \in Requests |-> "offer"]
  /\ reqDone = [r \in Requests |-> FALSE]
  /\ rows = <<>>
  /\ deadLetters = {} /\ dropped = {} /\ unsure = {} /\ due = {}

-------------------------------------------------------------------------------
(* The requests: cache.AppendMessages, then EnqueueConv or EnqueueLog, then *)
(* the synchronous write if either of them refuses.                        *)

Offering(r) == call[r] = "offer" /\ offer[r] <= MaxCalls

Advance(r) == /\ offer' = [offer EXCEPT ![r] = @ + 1]
              /\ call' = [call EXCEPT ![r] = "offer"]
              /\ UNCHANGED reqDone

KeepWithCaller(r) == /\ call' = [call EXCEPT ![r] = "sync"]
                     /\ UNCHANGED <<tasks, offer, reqDone, procVars, dbVars, ctxVars>>

(* The send of the select; it competes with a context that is already done. *)
EnqueueAccepts(r) ==
  /\ Offering(r)
  /\ Len(tasks) < Capacity
  /\ tasks' = Append(tasks, Current(r))
  /\ Advance(r)
  /\ UNCHANGED <<procVars, dbVars, ctxVars>>

(* Bug: false is reported for a batch that did go into the channel.         *)
EnqueueRefusesAfterSend(r) ==
  /\ Offering(r)
  /\ reqDone[r] /\ Len(tasks) < Capacity
  /\ tasks' = Append(tasks, Current(r))
  /\ call' = [call EXCEPT ![r] = "sync"]
  /\ UNCHANGED <<offer, reqDone, procVars, dbVars, ctxVars>>

(* Bug: a refused batch is silently given up, as it once was (Todo.md:194). *)
EnqueueForgets(r) ==
  /\ Offering(r)
  /\ reqDone[r] \/ Len(tasks) = Capacity
  /\ Advance(r)
  /\ UNCHANGED <<tasks, procVars, dbVars, ctxVars>>

(* The other two branches of the select: ctx.Done, and default when full.   *)
EnqueueRefuses(r) ==
  /\ Offering(r)
  /\ reqDone[r] \/ Len(tasks) = Capacity
  /\ KeepWithCaller(r)

(* Bug: a batch that Redis refused is written at once and queued as well.   *)
CacheRefusesAndQueues(r) ==
  /\ Offering(r)
  /\ Len(tasks) < Capacity
  /\ tasks' = Append(tasks, Current(r))
  /\ call' = [call EXCEPT ![r] = "sync"]
  /\ UNCHANGED <<offer, reqDone, procVars, dbVars, ctxVars>>

(* Redis did not take the batch: MySQL at once, the queue is never asked.   *)
CacheRefuses(r) ==
  /\ Offering(r)
  /\ KeepWithCaller(r)

(* The context of the request ends: its nine seconds, or its client.        *)
RequestEnds(r) ==
  /\ ~reqDone[r]
  /\ offer[r] <= MaxCalls
  /\ reqDone' = [reqDone EXCEPT ![r] = TRUE]
  /\ UNCHANGED <<tasks, offer, call, procVars, dbVars, ctxVars>>

(* One transaction of ConversationRepo or one insert of CallLogRepo.        *)
Write(t, result) ==
  /\ rows' = IF result = "failed" THEN rows ELSE Append(rows, t)
  /\ unsure' = IF result = "unsure" THEN unsure \cup {t} ELSE unsure

(* The caller's write is tried once; an error is only logged.               *)
SyncWrite(r) ==
  /\ call[r] = "sync"
  /\ \E result \in Outcomes :
       /\ Write(Current(r), result)
       /\ dropped' = IF result = "ok" THEN dropped ELSE dropped \cup {Current(r)}
  /\ Advance(r)
  /\ UNCHANGED <<tasks, procVars, ctxVars, deadLetters>>

Request(r) == \/ EnqueueAccepts(r) \/ EnqueueRefuses(r) \/ CacheRefuses(r)
              \/ RequestEnds(r) \/ SyncWrite(r)

-------------------------------------------------------------------------------
(* process(t), run by a worker or by the flusher.                          *)

Goto(p, label) == pc' = [pc EXCEPT ![p] = label]

(* The receive: the task has left the channel and inFlight is unchanged.    *)
Take(p) ==
  /\ tasks # <<>>
  /\ tasks' = Tail(tasks)
  /\ hand' = [hand EXCEPT ![p] = Head(tasks)]
  /\ Goto(p, "received")
  /\ UNCHANGED <<tries, inFlight, reqVars, dbVars, ctxVars>>

(* q.inFlight.Add(1), a step of its own after the receive.                  *)
EnterProcess(p) ==
  /\ pc[p] = "received"
  /\ inFlight' = inFlight + 1
  /\ Goto(p, "attempt")
  /\ UNCHANGED <<tasks, hand, tries, resume, reqVars, dbVars, ctxVars>>

(* The loop variable goes with the loop.                                    *)
FinishLoop(p, label) == tries' = [tries EXCEPT ![p] = 0] /\ Goto(p, label)

(* Bug: success on the last attempt falls through to the dead letters.      *)
AttemptWithoutReturn(p) ==
  /\ pc[p] = "attempt"
  /\ \E result \in Outcomes :
       /\ Write(hand[p], result)
       /\ \/ result = "ok" /\ tries[p] + 1 < MaxRetries /\ FinishLoop(p, "leave")
          \/ /\ result # "ok" /\ tries[p] + 1 < MaxRetries
             /\ tries' = [tries EXCEPT ![p] = @ + 1]
             /\ UNCHANGED pc
          \/ tries[p] + 1 = MaxRetries /\ FinishLoop(p, "bury")
  /\ UNCHANGED <<tasks, hand, resume, inFlight, reqVars, ctxVars, deadLetters, dropped>>

(* One turn of the retry loop; the sleep is the room between two turns.     *)
Attempt(p) ==
  /\ pc[p] = "attempt"
  /\ \E result \in Outcomes :
       /\ Write(hand[p], result)
       /\ \/ result = "ok" /\ FinishLoop(p, "leave")
          \/ /\ result # "ok" /\ tries[p] + 1 < MaxRetries
             /\ tries' = [tries EXCEPT ![p] = @ + 1]
             /\ UNCHANGED pc
          \/ result # "ok" /\ tries[p] + 1 = MaxRetries /\ FinishLoop(p, "bury")
  /\ UNCHANGED <<tasks, hand, resume, inFlight, reqVars, ctxVars, deadLetters, dropped>>

(* Bug: the exhausted task goes back to the end of the channel.             *)
BuryByRequeueing(p) ==
  /\ pc[p] = "bury"
  /\ Len(tasks) < Capacity
  /\ tasks' = Append(tasks, hand[p])
  /\ Goto(p, "leave")
  /\ UNCHANGED <<hand, tries, resume, inFlight, reqVars, ctxVars, dbVars>>

(* Retries exhausted: a dead letter, or, if that insert fails too, a log    *)
(* line.  app.Run always configures the dead letter repository.            *)
BuryTask(p) ==
  /\ pc[p] = "bury"
  /\ \/ deadLetters' = deadLetters \cup {hand[p]} /\ UNCHANGED dropped
     \/ dropped' = dropped \cup {hand[p]} /\ UNCHANGED deadLetters
  /\ Goto(p, "leave")
  /\ UNCHANGED <<tasks, hand, tries, resume, inFlight, reqVars, ctxVars, rows, unsure>>

(* Bug: the deferred decrement is missing.                                  *)
LeaveStillCounted(p) ==
  /\ pc[p] = "leave"
  /\ hand' = [hand EXCEPT ![p] = None]
  /\ Goto(p, IF p = Flusher THEN resume ELSE "select")
  /\ resume' = IF p = Flusher THEN "select" ELSE resume
  /\ UNCHANGED <<tasks, tries, inFlight, reqVars, dbVars, ctxVars>>

(* The deferred q.inFlight.Add(-1) and the return to the caller's loop.     *)
LeaveProcess(p) ==
  /\ pc[p] = "leave"
  /\ inFlight' = inFlight - 1
  /\ hand' = [hand EXCEPT ![p] = None]
  /\ Goto(p, IF p = Flusher THEN resume ELSE "select")
  /\ resume' = IF p = Flusher THEN "select" ELSE resume   \* idle value
  /\ UNCHANGED <<tasks, tries, reqVars, dbVars, ctxVars>>

Process(p) == EnterProcess(p) \/ Attempt(p) \/ BuryTask(p) \/ LeaveProcess(p)

-------------------------------------------------------------------------------
(* The worker loop: a random choice when both branches are ready.           *)

WorkerReceive(w) == pc[w] = "select" /\ Take(w) /\ UNCHANGED resume

(* Bug: the worker looks at the context again once it has received.         *)
WorkerExitsWithTask(w) ==
  /\ pc[w] \in {"select", "received"} /\ ctxDone
  /\ Goto(w, "exited")
  /\ UNCHANGED <<tasks, hand, tries, resume, inFlight, reqVars, dbVars, ctxVars>>

(* Bug: an idle worker ends although the application runs.                  *)
WorkerExitsWhenIdle(w) ==
  /\ pc[w] = "select" /\ tasks = <<>>
  /\ Goto(w, "exited")
  /\ UNCHANGED <<tasks, hand, tries, resume, inFlight, reqVars, dbVars, ctxVars>>

WorkerExit(w) ==
  /\ pc[w] = "select" /\ ctxDone
  /\ Goto(w, "exited")
  /\ UNCHANGED <<tasks, hand, tries, resume, inFlight, reqVars, dbVars, ctxVars>>

Worker(w) == WorkerReceive(w) \/ WorkerExit(w) \/ Process(w)

-------------------------------------------------------------------------------
(* Flush, called once by app.Run.                                          *)

FlushStep(from, to) ==
  /\ pc[Flusher] = from
  /\ Goto(Flusher, to)
  /\ UNCHANGED <<tasks, hand, tries, resume, inFlight, reqVars, dbVars>>

FlushCall == /\ FlushStep("idle", "select")
             /\ due' = Owed
             /\ UNCHANGED <<ctxDone, deadline>>

(* The receive of the outer select, and of the select of the waiting loop.  *)
FlushReceive ==
  \/ pc[Flusher] = "select"  /\ Take(Flusher) /\ resume' = "select"
  \/ pc[Flusher] = "waiting" /\ Take(Flusher) /\ resume' = "check"

FlushTimeout ==
  /\ deadline
  /\ FlushStep("select", "timeout") \/ FlushStep("waiting", "timeout")
  /\ UNCHANGED ctxVars

(* Bug: Flush only waits for inFlight and leaves the channel alone.         *)
FlushIgnoresChannel ==
  /\ ~deadline
  /\ FlushStep("select", "check")
  /\ UNCHANGED ctxVars

(* The outer default: nothing to receive and no deadline.                   *)
FlushDrained ==
  /\ tasks = <<>> /\ ~deadline
  /\ FlushStep("select", "check")
  /\ UNCHANGED ctxVars

(* Bug: Flush returns once the channel is empty (Todo.md:200).              *)
FlushChecksNothing == FlushStep("check", "nil") /\ UNCHANGED ctxVars

(* The condition of the waiting loop reads inFlight.                        *)
FlushCheck == /\ FlushStep("check", IF inFlight > 0 THEN "waiting" ELSE "nil")
              /\ UNCHANGED ctxVars

(* The inner default: sleep, then read inFlight again.                      *)
FlushSleep == /\ tasks = <<>> /\ ~deadline
              /\ FlushStep("waiting", "check")
              /\ UNCHANGED ctxVars

Flush == \/ FlushReceive \/ FlushTimeout \/ FlushDrained
         \/ FlushCheck \/ FlushSleep \/ Process(Flusher)

-------------------------------------------------------------------------------
(* The contexts.                                                           *)

CancelApp == /\ ~ctxDone
             /\ ctxDone' = TRUE
             /\ UNCHANGED <<tasks, procVars, reqVars, dbVars, deadline, due>>

(* The five seconds run from before metrics.Stop, so perhaps before Flush.  *)
DeadlinePasses == /\ ~deadline
                  /\ deadline' = TRUE
                  /\ UNCHANGED <<tasks, procVars, reqVars, dbVars, ctxDone, due>>

Next == \/ \E r \in Requests : Request(r)
        \/ \E w \in Workers : Worker(w)
        \/ FlushCall \/ Flush
        \/ CancelApp \/ DeadlinePasses

Spec == Init /\ [][Next]_vars

-------------------------------------------------------------------------------
(* Safety                                                                  *)

(* A write that a request handed over is never simply gone: whatever the    *)
(* retries, the fallbacks and the flush do, it is in the channel, in        *)
(* somebody's hands, in MySQL, a dead letter, or was dropped with a log     *)
(* line (process, EnqueueConv/EnqueueLog and their fallbacks).             *)
NothingVanishes ==
  \A t \in Offered : t \in Owed \cup WithCaller \cup Stored \cup deadLetters \cup dropped

(* A write is in one place at a time: no two goroutines hold it, it is not  *)
(* both queued and held, and one that the queue refused, so that its caller *)
(* writes it, is not also in the queue ("the same batch is never written    *)
(* both synchronously and asynchronously" of the design).                  *)
OneHolder ==
  /\ IsInjective(tasks)
  /\ \A p, q \in Procs : pc[p] \in Unsettled /\ pc[q] \in Unsettled /\ hand[p] = hand[q] => p = q
  /\ Queued \cap Held = {} /\ Owed \cap WithCaller = {}

(* What the queue owes, its requests are done with.                         *)
OwedIsPassed == Owed \subseteq Passed

(* inFlight counts exactly the goroutines inside process, so that it can    *)
(* neither stay positive with nobody working (Flush would spin until its    *)
(* deadline) nor go to zero while somebody is (process, 102-104).          *)
InFlightExact == inFlight = Cardinality(InProcess)

(* The four facts together are inductive: each step that moves a write, or  *)
(* a goroutine into or out of process, needs the others.                    *)
IInv == TypeOK /\ OwedIsPassed /\ OneHolder /\ InFlightExact /\ NothingVanishes

(* From the moment Flush found the channel empty, none of the writes it owes *)
(* is in the channel again.                                                *)
FlushHasDrained ==
  /\ due \subseteq Passed
  /\ pc[Flusher] \in {"check", "waiting"} => due \cap Queued = {}
  /\ pc[Flusher] \in Holding /\ resume = "check" => due \cap Queued = {}

(* MySQL holds a write twice only if some attempt on it failed after its    *)
(* row had landed: neither the retries nor the two paths into MySQL write   *)
(* twice of their own accord.                                              *)
DuplicatesOnlyIfUnsure ==
  \A i, j \in DOMAIN rows : i # j /\ rows[i] = rows[j] => rows[i] \in unsure

(* A dead letter or a dropped write is not in MySQL as well (again unless   *)
(* an attempt was unsure), and it ends in only one of the two: replaying    *)
(* the dead letters by hand does not duplicate history.                    *)
EndsOneWay ==
  /\ deadLetters \cap dropped = {}
  /\ (deadLetters \cup dropped) \cap Stored \subseteq unsure

(* The channel keeps the order of a conversation: whoever holds a batch, no *)
(* earlier batch of the same request is still waiting in the channel.  Only *)
(* batches that are in hands at the same moment can pass each other there.  *)
HeldBeforeQueued ==
  \A p \in Procs, t \in Queued :
    pc[p] \in Unsettled /\ hand[p][1] = t[1] => hand[p][2] < t[2]

(* What the three rest on: a write with an outcome is in nobody's hands any *)
(* more, unless that outcome is a row whose writer was told of an error ... *)
OutcomeIsFinal ==
  (Stored \ unsure) \cup deadLetters \cup dropped \subseteq Passed \ Owed

(* ... and the batches of a request stand in the channel in their order.    *)
ChannelInOrder ==
  \A i, j \in DOMAIN tasks :
    i < j /\ tasks[i][1] = tasks[j][1] => tasks[i][2] < tasks[j][2]

(* When Flush returns nil, every write the queue owed when it was called is *)
(* settled or in the hands of a worker that has received it and not yet     *)
(* counted itself into inFlight.                                           *)
FlushNilLeavesOnlyUncounted ==
  [][pc[Flusher] = "check" /\ pc'[Flusher] = "nil"
       => \A t \in due : Settled(t) \/ \E w \in Workers : pc[w] = "received" /\ hand[w] = t]_vars

(* The promise of the queue about every single write.                       *)
Fate == [t \in Task |->
          IF t \in Owed THEN "queued"
          ELSE IF t \in WithCaller THEN "caller"
          ELSE IF t \notin Offered THEN "unoffered"
          ELSE IF t \in deadLetters THEN "deadLetter"
          ELSE IF t \in dropped THEN "dropped"
          ELSE "stored"]

Ledger == INSTANCE PersistLedger WITH fate <- Fate, rows <- rows

(* The queue, its retries and its fallbacks implement that promise.         *)
ImplementsLedger == Ledger!Spec

-------------------------------------------------------------------------------
(* Claims of the comments, tests and documents that the code does not keep. *)

(* persist.go:149 and TestPersistQueue_Flush_WaitsForInFlight: Flush waits  *)
(* for all the tasks that the workers are processing.                       *)
FlushNilMeansSettled == pc[Flusher] = "nil" => \A t \in due : Settled(t)
==============================================================================
