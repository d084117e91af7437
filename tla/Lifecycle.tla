------------------------------- MODULE Lifecycle -------------------------------
(***************************************************************************)
(* app.Run: the HTTP server whose handlers use the persist queue, and the   *)
(* shutdown that stops the metrics recorder, flushes the queue and closes   *)
(* the server, in that order, within one deadline.  The handlers go on      *)
(* while the first two of these are under way.  Of the recorder (module     *)
(* MetricsRecorder) only this is kept: Stop returns some time, or never.    *)
(***************************************************************************)
EXTENDS Naturals, Sequences

CONSTANTS Handlers,    \* the HTTP requests
          Requests,    \* those whose payload is a user message
          Workers, Flusher, None, MaxCalls, Capacity, MaxRetries, Outcomes

ASSUME RequestsAssumption == Requests \subseteq Handlers
ASSUME FlusherAssumption  == Flusher \notin Workers

VARIABLES tasks, inFlight, ctxDone, deadline, pc, hand, tries, resume, offer, call,
          reqDone, rows, deadLetters, dropped, unsure, due

Q == INSTANCE PersistQueue

queueVars == <<tasks, inFlight, ctxDone, deadline, pc, hand, tries, resume, offer, call,
               reqDone, rows, deadLetters, dropped, unsure, due>>

VARIABLES
  phase,         \* how far Run has come
  listenFailed,  \* ListenAndServe has returned an error
  stopDone,      \* metrics.Stop has returned
  job,           \* what each handler does
  answered       \* history: the handlers that had answered when Flush began

runVars == <<phase, listenFailed, stopDone, job, answered>>
vars    == <<queueVars, runVars>>

Phases == {"starting", "serving", "stopping", "flushing", "closing", "exited"}

(* The variables of the queue keep their types as PersistQueue shows.       *)
TypeOK ==
  /\ phase \in Phases /\ listenFailed \in BOOLEAN /\ stopDone \in BOOLEAN
  /\ job \in [Handlers -> {"new", "open", "done"}]
  /\ answered \subseteq Handlers
  /\ phase = "closing" => pc[Flusher] \in {"nil", "timeout"}

Init ==
  /\ Q!Init
  /\ phase = "starting" /\ listenFailed = FALSE /\ stopDone = FALSE
  /\ job = [g \in Handlers |-> "new"]
  /\ answered = {}

Alive     == phase \notin {"starting", "exited"}
Accepting == phase \in {"serving", "stopping", "flushing"}
Ending    == ctxDone \/ listenFailed

Become(g, state) == job' = [job EXCEPT ![g] = state]

-------------------------------------------------------------------------------
(* The handlers.                                                           *)

(* A new request, until srv.Shutdown; over an open connection even after    *)
(* the listener failed.                                                    *)
Accept(g) ==
  /\ Accepting /\ job[g] = "new" /\ Become(g, "open")
  /\ UNCHANGED <<queueVars, phase, listenFailed, stopDone, answered>>

(* Inside ProcessMessage: a batch is persisted, or its context ends.        *)
Persist(g) ==
  /\ Alive /\ g \in Requests /\ job[g] = "open"
  /\ Q!Request(g)
  /\ UNCHANGED runVars

(* Every way out of handleCallback: the early returns, and the reply of     *)
(* ProcessMessage once nothing is left to write.  It records a sample, and  *)
(* may wait long for the flush that this starts.                           *)
Answer(g) ==
  /\ Alive /\ job[g] = "open"
  /\ g \in Requests => call[g] # "sync"
  /\ Become(g, "done")
  /\ UNCHANGED <<queueVars, phase, listenFailed, stopDone, answered>>

Handler(g) == Accept(g) \/ Persist(g) \/ Answer(g)

-------------------------------------------------------------------------------
(* The goroutines that persist and metrics started.                        *)

WorkerStep(w) == Alive /\ Q!Worker(w) /\ UNCHANGED runVars

(* The goroutine that calls metrics.Stop.                                   *)
StopReturns == /\ Alive /\ phase # "serving" /\ ~stopDone /\ stopDone' = TRUE
               /\ UNCHANGED <<queueVars, phase, listenFailed, job, answered>>

-------------------------------------------------------------------------------
(* Run itself.                                                             *)

To(next) == phase' = next

(* The tables are ensured one after the other; one failure ends Run.        *)
Start ==
  /\ phase = "starting"
  /\ To("serving") \/ To("exited")
  /\ UNCHANGED <<queueVars, listenFailed, stopDone, job, answered>>

(* SIGINT or SIGTERM, perhaps while Run still starts.                       *)
Signal ==
  /\ phase # "exited" /\ Q!CancelApp
  /\ UNCHANGED runVars

ListenFails ==
  /\ phase = "serving" /\ ~listenFailed /\ listenFailed' = TRUE
  /\ UNCHANGED <<queueVars, phase, stopDone, job, answered>>

SeeEnd ==
  /\ phase = "serving" /\ Ending /\ To("stopping")
  /\ UNCHANGED <<queueVars, listenFailed, stopDone, job, answered>>

(* Five seconds for all that follows.                                       *)
DeadlinePasses ==
  /\ Alive /\ phase # "serving" /\ Q!DeadlinePasses
  /\ UNCHANGED runVars

(* Bug: Run waits for metrics.Stop without looking at the deadline.         *)
AwaitStopForEver ==
  /\ phase = "stopping" /\ stopDone
  /\ Q!FlushCall /\ To("flushing")
  /\ answered' = {g \in Handlers : job[g] = "done"}
  /\ UNCHANGED <<listenFailed, stopDone, job>>

(* metrics.Stop has returned, or the deadline has passed: Flush is called.  *)
AwaitStop ==
  /\ phase = "stopping" /\ (stopDone \/ deadline)
  /\ Q!FlushCall /\ To("flushing")
  /\ answered' = {g \in Handlers : job[g] = "done"}
  /\ UNCHANGED <<listenFailed, stopDone, job>>

FlushQueue == phase = "flushing" /\ Q!Flush /\ UNCHANGED runVars

EndFlush ==
  /\ phase = "flushing" /\ pc[Flusher] \in {"nil", "timeout"} /\ To("closing")
  /\ UNCHANGED <<queueVars, listenFailed, stopDone, job, answered>>

(* srv.Shutdown waits for the handlers, or for the deadline; then the       *)
(* process ends and every goroutine with it.                               *)
CloseServer ==
  /\ phase = "closing"
  /\ deadline \/ \A g \in Handlers : job[g] \in {"new", "done"}
  /\ To("exited")
  /\ UNCHANGED <<queueVars, listenFailed, stopDone, job, answered>>

Main == Start \/ SeeEnd \/ AwaitStop \/ FlushQueue \/ EndFlush \/ CloseServer

Next == \/ \E g \in Handlers : Handler(g)
        \/ \E w \in Workers : WorkerStep(w)
        \/ StopReturns \/ Main \/ Signal \/ ListenFails \/ DeadlinePasses

Spec == Init /\ [][Next]_vars

(* The scheduler runs the goroutine of Run, MySQL answers its statements,   *)
(* and the clock reaches the deadline.  Handlers, workers and the recorder  *)
(* owe nothing: each of them may hang.                                     *)
FairSpec == Spec /\ WF_vars(Main) /\ WF_vars(DeadlinePasses)

-------------------------------------------------------------------------------
(* Once Run has seen the end it returns, whatever the handlers, the workers *)
(* and the recorder do or do not do.                                       *)
RunReturns == (phase = "stopping") ~> (phase = "exited")

(* As long as Run is not told to end, no write that the queue accepted      *)
(* starves in the channel or in the hands of a worker, provided the workers *)
(* are run; after that, CloseServer may end the process under them.         *)
AcceptedSettles ==
  (\A w \in Workers : WF_vars(WorkerStep(w)))
    => \A t \in Q!Task : (t \in Q!Owed) ~> (Q!Settled(t) \/ Ending)

(* What a request persisted before it answered, and before Flush was called, *)
(* is settled when the process ends after a Flush that returned nil; only a *)
(* worker that had just received it can still lose it.                     *)
AnsweredIsKept ==
  phase = "exited" /\ pc[Flusher] = "nil" =>
    \A t \in Q!Offered : t[1] \in answered =>
      Q!Settled(t) \/ \E w \in Workers : pc[w] \in Q!Unsettled /\ hand[w] = t
===============================================================================
