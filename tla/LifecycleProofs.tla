---------------------------- MODULE LifecycleProofs ----------------------------
(***************************************************************************)
(* The queue inside the application behaves as the queue alone; what Run    *)
(* adds to it is the order of its shutdown.                                *)
(***************************************************************************)
EXTENDS Lifecycle, SequenceTheorems, TLAPS

-------------------------------------------------------------------------------
(* The composition                                                         *)

LEMMA QueueInit == Init => Q!Init
  BY DEF Init

LEMMA QueueStep == [Next]_vars => [Q!Next]_(Q!vars)
<1> SUFFICES ASSUME [Next]_vars PROVE Q!Next \/ UNCHANGED Q!vars
  OBVIOUS
<1> USE DEF Q!vars, Q!procVars, Q!reqVars, Q!dbVars, Q!ctxVars, queueVars, runVars
<1>1. ASSUME NEW g \in Handlers, Handler(g) PROVE Q!Next \/ UNCHANGED Q!vars
  BY <1>1 DEF Handler, Accept, Persist, Answer, Q!Next
<1>2. ASSUME NEW w \in Workers, WorkerStep(w) PROVE Q!Next
  BY <1>2 DEF WorkerStep, Q!Next
<1>3. CASE Main
  BY <1>3 DEF Main, Start, SeeEnd, AwaitStop, FlushQueue, EndFlush, CloseServer, Q!Next
<1>4. CASE StopReturns \/ Signal \/ ListenFails \/ DeadlinePasses
  BY <1>4 DEF StopReturns, Signal, ListenFails, DeadlinePasses, Q!Next
<1>5. CASE UNCHANGED vars
  BY <1>5 DEF vars
<1> QED BY <1>1, <1>2, <1>3, <1>4, <1>5 DEF Next

(* Whatever holds of the queue alone holds of it inside the application.    *)
THEOREM ImplementsQueue == Spec => Q!Spec
  BY QueueInit, QueueStep, PTL DEF Spec, Q!Spec

-------------------------------------------------------------------------------
(* What the order of the shutdown is worth.                                *)

Drained ==
  \/ pc[Flusher] \in {"check", "waiting", "nil"}
  \/ pc[Flusher] \in Q!Holding /\ resume = "check"

QueueTypes ==
  /\ tasks \in Seq(Requests \X Nat)
  /\ offer \in [Requests -> Nat] /\ call \in [Requests -> {"offer", "sync"}]
  /\ pc \in [Q!Procs -> Q!PCs] /\ resume \in {"select", "check"}

HandlersInv ==
  /\ job \in [Handlers -> {"new", "open", "done"}]
  /\ \A r \in Requests : call[r] = "sync" => job[r] = "open"
  /\ phase = "starting" => \A g \in Handlers : job[g] = "new"

(* Once Flush has found the channel empty, no batch of a handler that had   *)
(* answered before is in it again.                                         *)
AnsweredInv ==
  /\ \A g \in answered : g \in Handlers /\ job[g] = "done"
  /\ Drained => \A t \in Q!Queued : t[1] \notin answered

LInv == QueueTypes /\ HandlersInv /\ AnsweredInv

(* The three kinds of step of the queue, as Run sees them.                  *)
LEMMA RequestEffect ==
  ASSUME QueueTypes, NEW r \in Requests, Q!Request(r)
  PROVE  /\ QueueTypes'
         /\ \A q \in Requests \ {r} : call'[q] = call[q]
         /\ UNCHANGED <<pc, resume, deadline>>
         /\ \A t \in Q!Queued' : t \in Q!Queued \/ t[1] = r
<1> USE DEF Q!procVars, Q!reqVars, Q!dbVars, Q!ctxVars
<1>1. CASE Q!EnqueueAccepts(r)
  <2>1. /\ tasks' = Append(tasks, Q!Current(r)) /\ Q!Current(r) \in Requests \X Nat
        /\ Q!Current(r)[1] = r
        /\ offer' = [offer EXCEPT ![r] = @ + 1] /\ call' = [call EXCEPT ![r] = "offer"]
        /\ UNCHANGED <<pc, resume, deadline>>
    BY <1>1 DEF Q!EnqueueAccepts, Q!Advance, Q!Current, QueueTypes
  <2>2. /\ tasks' \in Seq(Requests \X Nat) /\ DOMAIN tasks = 1 .. Len(tasks)
        /\ DOMAIN tasks' = 1 .. Len(tasks) + 1 /\ Len(tasks) \in Nat
        /\ \A i \in 1 .. Len(tasks) : tasks'[i] = tasks[i]
        /\ tasks'[Len(tasks) + 1] = Q!Current(r)
    BY <2>1, AppendProperties DEF QueueTypes
  <2>3. \A i \in 1 .. Len(tasks) + 1 : i \in 1 .. Len(tasks) \/ i = Len(tasks) + 1
    BY <2>2
  <2>4. \A t \in Q!Queued' : t \in Q!Queued \/ t[1] = r
    BY <2>1, <2>2, <2>3 DEF Q!Queued, Q!Range
  <2> QED BY <2>1, <2>2, <2>4 DEF QueueTypes
<1>2. CASE Q!EnqueueRefuses(r) \/ Q!CacheRefuses(r)
  BY <1>2 DEF Q!EnqueueRefuses, Q!CacheRefuses, Q!KeepWithCaller, Q!Queued, QueueTypes
<1>3. CASE Q!RequestEnds(r)
  BY <1>3 DEF Q!RequestEnds, Q!Queued, QueueTypes
<1>4. CASE Q!SyncWrite(r)
  BY <1>4 DEF Q!SyncWrite, Q!Advance, Q!Queued, QueueTypes
<1> QED BY <1>1, <1>2, <1>3, <1>4 DEF Q!Request

LEMMA TakeEffect ==
  ASSUME QueueTypes, NEW p \in Q!Procs, Q!Take(p), resume' \in {"select", "check", resume}
  PROVE  /\ QueueTypes' /\ Q!Queued' \subseteq Q!Queued
         /\ pc' = [pc EXCEPT ![p] = "received"]
         /\ UNCHANGED <<offer, call, deadline>>
<1>1. /\ tasks # <<>> /\ tasks' = Tail(tasks) /\ pc' = [pc EXCEPT ![p] = "received"]
      /\ UNCHANGED <<offer, call, deadline>>
  BY DEF Q!Take, Q!Goto, Q!reqVars, Q!ctxVars
<1>2. /\ tasks' \in Seq(Requests \X Nat) /\ Len(tasks) \in Nat
      /\ DOMAIN tasks = 1 .. Len(tasks) /\ DOMAIN tasks' = 1 .. Len(tasks) - 1
      /\ \A i \in 1 .. Len(tasks) - 1 : tasks'[i] = tasks[i + 1]
  BY <1>1, HeadTailProperties DEF QueueTypes
<1>3. \A i \in DOMAIN tasks' : i + 1 \in DOMAIN tasks /\ tasks'[i] = tasks[i + 1]
  BY <1>2
<1>4. Q!Queued' \subseteq Q!Queued
  BY <1>3 DEF Q!Queued, Q!Range
<1>5. pc' \in [Q!Procs -> Q!PCs]
  BY <1>1 DEF QueueTypes, Q!PCs, Q!Holding
<1> QED BY <1>1, <1>2, <1>4, <1>5 DEF QueueTypes

(* Inside process, nobody leaves or enters its loop but by LeaveProcess.    *)
LEMMA ProcessEffect ==
  ASSUME QueueTypes, NEW p \in Q!Procs, Q!Process(p)
  PROVE  /\ QueueTypes' /\ pc[p] \in Q!Holding
         /\ UNCHANGED <<tasks, offer, call, deadline>>
         /\ \/ \E to \in Q!Holding : pc' = [pc EXCEPT ![p] = to] /\ resume' = resume
            \/ /\ pc' = [pc EXCEPT ![p] = IF p = Flusher THEN resume ELSE "select"]
               /\ resume' = IF p = Flusher THEN "select" ELSE resume
<1> USE DEF Q!reqVars, Q!ctxVars, Q!dbVars, Q!Goto, Q!Holding, Q!Processing
<1>1. CASE Q!EnterProcess(p) \/ Q!BuryTask(p)
  BY <1>1 DEF Q!EnterProcess, Q!BuryTask, QueueTypes, Q!PCs
<1>2. CASE Q!Attempt(p)
  <2>1. /\ pc[p] = "attempt" /\ UNCHANGED <<tasks, offer, call, deadline, resume>>
        /\ \E to \in {"attempt", "leave", "bury"} : pc' = [pc EXCEPT ![p] = to]
    BY <1>2 DEF Q!Attempt, Q!FinishLoop, QueueTypes
  <2> QED BY <2>1 DEF QueueTypes, Q!PCs
<1>3. CASE Q!LeaveProcess(p)
  BY <1>3 DEF Q!LeaveProcess, QueueTypes, Q!PCs
<1> QED BY <1>1, <1>2, <1>3 DEF Q!Process

LEMMA WorkerEffect ==
  ASSUME QueueTypes, NEW w \in Workers, Q!Worker(w)
  PROVE  /\ QueueTypes' /\ Q!Queued' \subseteq Q!Queued
         /\ pc'[Flusher] = pc[Flusher]
         /\ UNCHANGED <<offer, call, resume, deadline>>
<1>w. w \in Q!Procs /\ Flusher \in Q!Procs /\ w # Flusher
  BY FlusherAssumption DEF Q!Procs
<1>1. CASE Q!WorkerReceive(w)
  BY <1>1, <1>w, TakeEffect DEF Q!WorkerReceive, QueueTypes
<1>2. CASE Q!WorkerExit(w)
  BY <1>2, <1>w DEF Q!WorkerExit, Q!Goto, Q!reqVars, Q!ctxVars, Q!Queued, QueueTypes, Q!PCs
<1>3. CASE Q!Process(w)
  <2>1. /\ QueueTypes' /\ UNCHANGED <<tasks, offer, call, deadline, resume>>
        /\ \E to : pc' = [pc EXCEPT ![w] = to]
    BY <1>3, <1>w, ProcessEffect
  <2> QED BY <1>w, <2>1 DEF QueueTypes, Q!Queued
<1> QED BY <1>1, <1>2, <1>3 DEF Q!Worker

LEMMA FlushEffect ==
  ASSUME QueueTypes, Q!Flush
  PROVE  /\ QueueTypes' /\ Q!Queued' \subseteq Q!Queued
         /\ Drained' => Drained \/ Q!Queued' = {}
         /\ UNCHANGED <<offer, call, deadline>>
<1>f. Flusher \in Q!Procs
  BY DEF Q!Procs
<1>1. CASE Q!FlushReceive
  <2>1. Q!Take(Flusher) /\ resume' \in {"select", "check"}
        /\ (resume' = "check" => pc[Flusher] = "waiting")
    BY <1>1 DEF Q!FlushReceive
  <2>2. /\ QueueTypes' /\ Q!Queued' \subseteq Q!Queued /\ UNCHANGED <<offer, call, deadline>>
        /\ pc' = [pc EXCEPT ![Flusher] = "received"]
    BY <1>f, <2>1, TakeEffect
  <2> QED BY <1>f, <2>1, <2>2 DEF Drained, QueueTypes
<1>2. CASE Q!Process(Flusher)
  <2>1. /\ QueueTypes' /\ pc[Flusher] \in Q!Holding
        /\ UNCHANGED <<tasks, offer, call, deadline>>
        /\ \/ \E to \in Q!Holding : pc' = [pc EXCEPT ![Flusher] = to] /\ resume' = resume
           \/ pc' = [pc EXCEPT ![Flusher] = resume] /\ resume' = "select"
    BY <1>f, <1>2, ProcessEffect
  <2> QED BY <1>f, <2>1 DEF Drained, QueueTypes, Q!Queued, Q!Holding, Q!Processing
<1>3. CASE Q!FlushTimeout \/ Q!FlushDrained \/ Q!FlushCheck \/ Q!FlushSleep
  <2>1. /\ UNCHANGED <<tasks, offer, call, resume, deadline>>
        /\ \/ pc' = [pc EXCEPT ![Flusher] = "timeout"]
           \/ tasks = <<>> /\ pc' = [pc EXCEPT ![Flusher] = "check"]
           \/ /\ pc[Flusher] = "check"
              /\ \E to \in {"waiting", "nil"} : pc' = [pc EXCEPT ![Flusher] = to]
    BY <1>3 DEF Q!FlushTimeout, Q!FlushDrained, Q!FlushCheck, Q!FlushSleep, Q!FlushStep,
                Q!Goto, Q!reqVars, Q!ctxVars
  <2>2. Q!Queued' = Q!Queued /\ (tasks = <<>> => Q!Queued = {})
    BY <2>1 DEF Q!Queued, Q!Range
  <2>3. QueueTypes'
    BY <2>1 DEF QueueTypes, Q!PCs
  <2> QED BY <1>f, <2>1, <2>2, <2>3 DEF Drained, QueueTypes, Q!Holding, Q!Processing
<1> QED BY <1>1, <1>2, <1>3 DEF Q!Flush

-------------------------------------------------------------------------------

LEMMA LInvStep == LInv /\ [Next]_vars => LInv'
<1> SUFFICES ASSUME LInv, [Next]_vars PROVE LInv'
  OBVIOUS
<1> USE DEF LInv, runVars
<1>job. job \in [Handlers -> {"new", "open", "done"}]
  BY DEF HandlersInv
(* The queue moves on and Run stays where it is.                            *)
<1>moves. ASSUME QueueTypes', UNCHANGED <<runVars, call, deadline>>,
                 Q!Queued' \subseteq Q!Queued, Drained' => Drained \/ Q!Queued' = {}
          PROVE  LInv'
  BY <1>moves DEF HandlersInv, AnsweredInv
(* Run moves on and the queue stays where it is.                            *)
<1>rests. ASSUME UNCHANGED <<queueVars, job, answered>>,
                 phase' # "starting"
          PROVE  LInv'
  <2>1. QueueTypes' /\ Q!Queued' = Q!Queued /\ Drained' = Drained /\ UNCHANGED <<call, deadline>>
    BY <1>rests DEF queueVars, QueueTypes, Q!Queued, Drained
  <2> QED BY <1>rests, <2>1 DEF HandlersInv, AnsweredInv
<1>1. ASSUME NEW g \in Handlers, Accept(g) \/ Answer(g) PROVE LInv'
  <2>1. /\ UNCHANGED <<queueVars, phase, answered>> /\ phase \notin {"starting", "exited"}
        /\ \/ job[g] = "new" /\ job' = [job EXCEPT ![g] = "open"]
           \/ /\ job[g] = "open" /\ job' = [job EXCEPT ![g] = "done"]
              /\ g \in Requests => call[g] # "sync"
    BY <1>1 DEF Accept, Answer, Become, Accepting, Alive
  <2>2. QueueTypes' /\ Q!Queued' = Q!Queued /\ Drained' = Drained /\ UNCHANGED <<call, deadline>>
    BY <2>1 DEF queueVars, QueueTypes, Q!Queued, Drained
  <2>3. HandlersInv'
    BY <1>job, <2>1, <2>2, RequestsAssumption DEF HandlersInv
  <2>4. AnsweredInv'
    BY <1>job, <2>1, <2>2 DEF AnsweredInv
  <2> QED BY <2>2, <2>3, <2>4
<1>2. ASSUME NEW g \in Handlers, Persist(g) PROVE LInv'
  <2>1. /\ g \in Requests /\ job[g] = "open" /\ Q!Request(g) /\ UNCHANGED runVars
        /\ phase \notin {"starting", "exited"}
    BY <1>2 DEF Persist, Alive
  <2>2. /\ QueueTypes' /\ \A q \in Requests \ {g} : call'[q] = call[q]
        /\ UNCHANGED <<pc, resume, deadline>>
        /\ \A t \in Q!Queued' : t \in Q!Queued \/ t[1] = g
    BY <2>1, RequestEffect
  <2>3. Drained' = Drained /\ g \notin answered
    BY <2>1, <2>2 DEF Drained, AnsweredInv
  <2> QED BY <2>1, <2>2, <2>3 DEF HandlersInv, AnsweredInv
<1>3. ASSUME NEW w \in Workers, WorkerStep(w) PROVE LInv'
  <2>1. /\ QueueTypes' /\ Q!Queued' \subseteq Q!Queued /\ pc'[Flusher] = pc[Flusher]
        /\ UNCHANGED <<call, resume, deadline, runVars>>
    BY <1>3, WorkerEffect DEF WorkerStep
  <2> QED BY <1>moves, <2>1 DEF Drained
<1>4. CASE FlushQueue
  BY <1>4, <1>moves, FlushEffect DEF FlushQueue
<1>5. CASE AwaitStop
  <2>1. /\ phase = "stopping" /\ phase' = "flushing" /\ UNCHANGED <<job, resume, call, offer, tasks, deadline>>
        /\ answered' = {g \in Handlers : job[g] = "done"}
        /\ pc' = [pc EXCEPT ![Flusher] = "select"]
    BY <1>5 DEF AwaitStop, To, Q!FlushCall, Q!FlushStep, Q!Goto, Q!reqVars
  <2>2. ~Drained' /\ QueueTypes'
    BY <2>1 DEF Drained, QueueTypes, Q!Procs, Q!PCs, Q!Holding, Q!Processing
  <2> QED BY <2>1, <2>2 DEF HandlersInv, AnsweredInv
<1>6. CASE Start
  BY <1>6, <1>rests DEF Start, To
<1>7. CASE CloseServer
  BY <1>7, <1>rests DEF CloseServer, To
<1>8. CASE StopReturns \/ ListenFails \/ SeeEnd \/ EndFlush
  BY <1>8, <1>rests DEF StopReturns, ListenFails, SeeEnd, EndFlush, To, Alive
<1>9. CASE Signal
  BY <1>9, <1>moves DEF Signal, Q!CancelApp, Q!procVars, Q!reqVars, QueueTypes, Q!Queued, Drained
<1>10. CASE DeadlinePasses
  <2>1. /\ phase # "exited" /\ UNCHANGED <<runVars, tasks, offer, call, pc, resume>>
    BY <1>10 DEF DeadlinePasses, Alive, Q!DeadlinePasses, Q!procVars, Q!reqVars
  <2>2. QueueTypes' /\ Q!Queued' = Q!Queued /\ Drained' = Drained
    BY <2>1 DEF QueueTypes, Q!Queued, Drained
  <2> QED BY <2>1, <2>2 DEF HandlersInv, AnsweredInv
<1>11. CASE UNCHANGED vars
  BY <1>11, <1>moves DEF vars, queueVars, QueueTypes, Q!Queued, Drained
<1> QED BY <1>1, <1>2, <1>3, <1>4, <1>5, <1>6, <1>7, <1>8, <1>9, <1>10, <1>11
           DEF Next, Handler, Main

LEMMA InitLInv == Init => LInv
<1> SUFFICES ASSUME Init PROVE LInv
  OBVIOUS
<1>1. QueueTypes
  <2>1. tasks \in Seq(Requests \X Nat)
    BY EmptySeq DEF Init, Q!Init
  <2> QED BY <2>1 DEF Init, Q!Init, QueueTypes, Q!PCs
<1>2. HandlersInv /\ answered = {}
  BY DEF Init, Q!Init, HandlersInv
<1> QED BY <1>1, <1>2 DEF LInv, AnsweredInv

LEMMA Ordered == Spec => []LInv
  BY InitLInv, LInvStep, PTL DEF Spec

(* What was persisted by a handler that had answered before Flush is kept   *)
(* when Flush returns nil, except in the hands of a worker.                 *)
THEOREM AnswersAreKept == Spec => []AnsweredIsKept
<1>1. LInv => AnsweredIsKept
  <2> SUFFICES ASSUME LInv, pc[Flusher] = "nil", NEW t \in Q!Offered, t[1] \in answered,
                      ~Q!Settled(t)
               PROVE  \E w \in Workers : pc[w] \in Q!Unsettled /\ hand[w] = t
    BY DEF AnsweredIsKept
  <2>1. t \notin Q!WithCaller
    BY DEF LInv, HandlersInv, AnsweredInv, Q!WithCaller, Q!Current
  <2>2. t \notin Q!Queued
    BY DEF LInv, AnsweredInv, Drained
  <2>3. t \in Q!Held
    BY <2>1, <2>2 DEF Q!Settled, Q!Owed
  <2> QED BY <2>3 DEF Q!Held, Q!Procs, Q!Unsettled
<1> QED BY <1>1, Ordered, PTL

(* Run calls Shutdown only after Flush has returned.                        *)
THEOREM TypeCorrect == Spec => []TypeOK
<1>1. Init => TypeOK
  BY DEF Init, TypeOK, Phases
<1>2. LInv /\ TypeOK /\ [Next]_vars => TypeOK'
  <2> SUFFICES ASSUME LInv, TypeOK, [Next]_vars PROVE TypeOK'
    OBVIOUS
  <2> USE DEF TypeOK, Phases, runVars
  <2>keeps. ASSUME UNCHANGED <<pc, job, answered>>, phase' = phase \/ phase' \in Phases \ {"closing"},
                   listenFailed' \in BOOLEAN, stopDone' \in BOOLEAN
            PROVE  TypeOK'
    BY <2>keeps
  <2>1. ASSUME NEW g \in Handlers, Accept(g) \/ Answer(g) PROVE TypeOK'
    BY <2>1 DEF Accept, Answer, Become, queueVars
  <2>2. ASSUME NEW g \in Handlers, Persist(g) PROVE TypeOK'
    <3>1. g \in Requests /\ Q!Request(g) /\ UNCHANGED runVars
      BY <2>2 DEF Persist
    <3> QED BY <2>keeps, <3>1, RequestEffect DEF LInv
  <2>3. ASSUME NEW w \in Workers, WorkerStep(w) PROVE TypeOK'
    <3>1. pc'[Flusher] = pc[Flusher] /\ UNCHANGED runVars
      BY <2>3, WorkerEffect DEF WorkerStep, LInv
    <3> QED BY <3>1
  <2>4. CASE StopReturns \/ ListenFails \/ Start \/ SeeEnd \/ CloseServer
    BY <2>4, <2>keeps DEF StopReturns, ListenFails, Start, SeeEnd, CloseServer, To, queueVars
  <2>5. CASE AwaitStop
    BY <2>5 DEF AwaitStop, To
  <2>6. CASE FlushQueue
    BY <2>6 DEF FlushQueue
  <2>7. CASE EndFlush
    BY <2>7 DEF EndFlush, To, queueVars
  <2>8. CASE Signal \/ DeadlinePasses
    BY <2>8, <2>keeps DEF Signal, DeadlinePasses, Q!CancelApp, Q!DeadlinePasses, Q!procVars
  <2>9. CASE UNCHANGED vars
    BY <2>9, <2>keeps DEF vars, queueVars
  <2> QED BY <2>1, <2>2, <2>3, <2>4, <2>5, <2>6, <2>7, <2>8, <2>9 DEF Next, Handler, Main
<1> QED BY <1>1, <1>2, Ordered, PTL DEF Spec
===============================================================================
