-------------------------- MODULE ProcessedMessages --------------------------
(***************************************************************************)
(* internal/repository/processed_message.go and the wrapper of             *)
(* Agent.ProcessMessage around it: one webhook message, delivered several  *)
(* times, and the row of processed_messages that keeps it from being       *)
(* processed again.  Rows of different messages have different keys and    *)
(* never meet, so one message is enough.                                   *)
(***************************************************************************)
EXTENDS Naturals, FiniteSets

CONSTANTS Deliveries,  \* the callbacks that carry the message
          None,        \* no reply
          Timeout,     \* processingTimeout, in ticks
          MaxTime,     \* bound on the clock
          Faults       \* TRUE if statements may fail

ASSUME ConstantsAssumption == /\ Timeout \in Nat /\ MaxTime \in Nat
                              /\ Faults \in BOOLEAN /\ None \notin Deliveries
                              /\ "wait" \notin Deliveries \cup {None}
                              /\ Deliveries # {}

VARIABLES
  row,        \* the row: status, whose reply it keeps, updated_at
  now,        \* the clock
  pc,         \* where the handler of each delivery is
  start,      \* the now that its StartProcessing began with
  guarded,    \* it was told to process, so it will mark the row
  answer,     \* what its caller got: a reply (of a delivery), "wait", None
  runs,       \* history: deliveries that were processed (tools were called)
  finished,   \* history: those whose processing produced a reply
  mishaps     \* history: "fault", "panic", "crash"

handler == <<pc, start, guarded, answer>>
history == <<runs, finished, mishaps>>
vars    == <<row, now, handler, history>>

InFlight == {"insert", "select", "claim", "working", "markDone", "markFailed"}
Ended    == {"answered", "aborted", "gone"}

TypeOK ==
  /\ row \in [status : {"absent", "processing", "done", "failed"},
              reply : Deliveries \cup {None}, at : 0 .. MaxTime]
  /\ now \in 0 .. MaxTime
  /\ pc \in [Deliveries -> InFlight \cup Ended \cup {"new"}]
  /\ start \in [Deliveries -> 0 .. MaxTime]
  /\ guarded \subseteq Deliveries
  /\ answer \in [Deliveries -> Deliveries \cup {"wait", None}]
  /\ runs \subseteq Deliveries /\ finished \subseteq Deliveries
  /\ mishaps \subseteq {"fault", "panic", "crash"}

Init ==
  /\ row = [status |-> "absent", reply |-> None, at |-> 0]
  /\ now = 0
  /\ pc = [d \in Deliveries |-> "new"]
  /\ start = [d \in Deliveries |-> 0]
  /\ guarded = {} /\ runs = {} /\ finished = {} /\ mishaps = {}
  /\ answer = [d \in Deliveries |-> None]

-------------------------------------------------------------------------------
Goto(d, label) == pc' = [pc EXCEPT ![d] = label]

Answer(d, a) == answer' = [answer EXCEPT ![d] = a] /\ Goto(d, "answered")

Happens(m) == mishaps' = mishaps \cup {m}

Fault == Faults /\ Happens("fault")

(* The row says that this delivery is at work, since its own start.         *)
Claimed(d) == row' = [row EXCEPT !.status = "processing", !.at = start[d]]

(* StartProcessing said true: the outcome will be marked.                   *)
ProcessGuarded(d) == /\ Goto(d, "working")
                     /\ guarded' = guarded \cup {d}
                     /\ runs' = runs \cup {d}
                     /\ UNCHANGED <<start, answer, now, finished>>

(* StartProcessing failed: the message is processed all the same, and       *)
(* nothing is marked afterwards.                                           *)
ProcessUnguarded(d) == /\ Goto(d, "working")
                       /\ runs' = runs \cup {d}
                       /\ UNCHANGED <<start, guarded, answer, now, finished>>

Arrive(d) ==
  /\ pc[d] = "new"
  /\ start' = [start EXCEPT ![d] = now]
  /\ Goto(d, "insert")
  /\ UNCHANGED <<row, now, guarded, answer, history>>

(* Bug: existence is looked up first, the row is written in a later step.   *)
InsertAfterLook(d) ==
  /\ pc[d] \in {"insert", "claim"}
  /\ IF pc[d] = "insert"
       THEN /\ Goto(d, IF row.status = "absent" THEN "claim" ELSE "select")
            /\ UNCHANGED <<row, now, start, guarded, answer, history>>
       ELSE Claimed(d) /\ ProcessGuarded(d) /\ UNCHANGED mishaps

(* Bug: an insert that reports an error ends the delivery instead.          *)
InsertFailsClosed(d) ==
  /\ pc[d] = "insert"
  /\ \/ row.status = "absent" /\ Claimed(d) /\ ProcessGuarded(d) /\ UNCHANGED mishaps
     \/ /\ Fault
        /\ row' = row \/ (row.status = "absent" /\ Claimed(d))
        /\ Goto(d, "aborted")
        /\ UNCHANGED <<now, start, guarded, answer, runs, finished>>

(* The INSERT.  Only an error of the MySQL server leads to the SELECT; a    *)
(* driver error, with or without the row, is returned to the agent.         *)
Insert(d) ==
  /\ pc[d] = "insert"
  /\ \/ row.status = "absent" /\ Claimed(d) /\ ProcessGuarded(d) /\ UNCHANGED mishaps
     \/ /\ (row.status # "absent" /\ UNCHANGED mishaps) \/ Fault
        /\ Goto(d, "select")
        /\ UNCHANGED <<row, now, start, guarded, answer, runs, finished>>
     \/ /\ Fault
        /\ row' = row \/ (row.status = "absent" /\ Claimed(d))
        /\ ProcessUnguarded(d)

Lapsed(d) == row.status = "processing" /\ start[d] > row.at + Timeout

(* Bug: a delivery that is told to wait refreshes updated_at.               *)
SelectTouches(d) ==
  /\ pc[d] = "select"
  /\ row.status = "processing" /\ ~Lapsed(d)
  /\ Answer(d, "wait") /\ Claimed(d)
  /\ UNCHANGED <<now, start, guarded, history>>

(* The SELECT and the decision on what it returned.                         *)
SelectRow(d) ==
  /\ pc[d] = "select"
  /\ UNCHANGED row
  /\ \/ /\ row.status = "done" /\ Answer(d, row.reply)
        /\ UNCHANGED <<now, start, guarded, history>>
     \/ /\ row.status = "processing" /\ ~Lapsed(d) /\ Answer(d, "wait")
        /\ UNCHANGED <<now, start, guarded, history>>
     \/ /\ row.status = "failed" \/ Lapsed(d)
        /\ Goto(d, "claim")
        /\ UNCHANGED <<now, start, guarded, answer, history>>
     \/ /\ (row.status = "absent" /\ UNCHANGED mishaps) \/ Fault
        /\ ProcessUnguarded(d)

(* The UPDATE, which does not look at the row again.                        *)
Claim(d) ==
  /\ pc[d] = "claim"
  /\ \/ Claimed(d) /\ ProcessGuarded(d) /\ UNCHANGED mishaps
     \/ Fault /\ (row' = row \/ Claimed(d)) /\ ProcessUnguarded(d)

(* The rest of ProcessMessage returns a reply, be it an error text.         *)
Finish(d) ==
  /\ pc[d] = "working"
  /\ finished' = finished \cup {d}
  /\ IF d \in guarded THEN Goto(d, "markDone") /\ UNCHANGED answer ELSE Answer(d, d)
  /\ UNCHANGED <<row, now, start, guarded, runs, mishaps>>

(* Bug: without the recover, the deferred function marks done after a panic. *)
PanicMarksDone(d) ==
  /\ pc[d] = "working"
  /\ Happens("panic")
  /\ Goto(d, IF d \in guarded THEN "markDone" ELSE "aborted")
  /\ UNCHANGED <<row, now, start, guarded, answer, runs, finished>>

(* A tool or the model client panics.                                       *)
Panic(d) ==
  /\ pc[d] = "working"
  /\ Happens("panic")
  /\ Goto(d, IF d \in guarded THEN "markFailed" ELSE "aborted")
  /\ UNCHANGED <<row, now, start, guarded, answer, runs, finished>>

(* An UPDATE of the outcome: unconditional, its error is at most logged.    *)
Mark(outcome) == \/ row' = outcome /\ UNCHANGED mishaps
                 \/ Fault /\ row' \in {row, outcome}

MarkDone(d) ==
  /\ pc[d] = "markDone"
  /\ Mark([status |-> "done", reply |-> d, at |-> now])
  /\ Answer(d, d)
  /\ UNCHANGED <<now, start, guarded, runs, finished>>

MarkFailed(d) ==
  /\ pc[d] = "markFailed"
  /\ Mark([row EXCEPT !.status = "failed", !.at = now])
  /\ Goto(d, "aborted")
  /\ UNCHANGED <<now, start, guarded, answer, runs, finished>>

Step(d) == \/ Insert(d) \/ SelectRow(d) \/ Claim(d) \/ Finish(d) \/ Panic(d)
           \/ MarkDone(d) \/ MarkFailed(d)

(* The process dies and is started again: what it was doing is gone.        *)
Crash ==
  /\ \E d \in Deliveries : pc[d] \in InFlight
  /\ pc' = [d \in Deliveries |-> IF pc[d] \in InFlight THEN "gone" ELSE pc[d]]
  /\ Happens("crash")
  /\ UNCHANGED <<row, now, start, guarded, answer, runs, finished>>

Tick == /\ now < MaxTime
        /\ now' = now + 1
        /\ UNCHANGED <<row, handler, history>>

Next == (\E d \in Deliveries : Arrive(d) \/ Step(d)) \/ Crash \/ Tick

Spec == Init /\ [][Next]_vars

-------------------------------------------------------------------------------
(* Two processed deliveries that began more than the timeout apart.         *)
FarApart == \E d, e \in runs : start[e] > start[d] + Timeout

(* A message is processed twice only for a reason: a statement failed, a    *)
(* handler panicked, the process died, or a delivery began more than the    *)
(* timeout after another one.  Concurrent redeliveries alone never call the *)
(* tools twice (Todo.md, item 7).                                          *)
DuplicateHasCause ==
  Cardinality(runs) > 1 => mishaps # {} \/ FarApart

(* Nobody suppresses everybody: once all deliveries have ended without a    *)
(* crash, the message was processed.                                       *)
SomebodyProcesses ==
  (\A d \in Deliveries : pc[d] \in Ended) /\ "crash" \notin mishaps => runs # {}

(* A saved or replayed reply is the reply of a processing that ended        *)
(* normally, never the remains of one that panicked or died.               *)
RepliesAreReal ==
  /\ row.status = "done" => row.reply \in finished
  /\ \A d \in Deliveries : answer[d] \in Deliveries => answer[d] \in finished

(* Who is told to wait is told so because another delivery really began to  *)
(* process the message no longer than the timeout ago: waiting deliveries   *)
(* do not keep a dead message alive.                                       *)
WaitHasWorker ==
  \A d \in Deliveries : answer[d] = "wait" =>
    \E e \in runs \ {d} : start[d] <= start[e] + Timeout

(* What the four invariants rest on: where a delivery is in its handler     *)
(* tells whether it has been processed and what it has run into ...         *)
StageTells(d) ==
  /\ pc[d] \in {"new", "insert", "select", "claim"} => d \notin runs
  /\ pc[d] \in {"working", "markDone", "markFailed", "aborted"} => d \in runs
  /\ pc[d] = "markDone" => d \in finished
  /\ pc[d] = "answered" <=> answer[d] # None
  /\ pc[d] = "markFailed" => mishaps # {}
  /\ pc[d] = "gone" => "crash" \in mishaps
  /\ pc[d] = "select" /\ row.status = "absent" => mishaps # {}
  /\ pc[d] = "claim" => mishaps # {} \/ \E e \in runs : start[d] > start[e] + Timeout

(* ... and so does the row.                                                 *)
RowTells ==
  /\ row.status = "processing" => \E e \in runs : row.at = start[e]
  /\ row.status = "failed" => mishaps # {}
  /\ mishaps = {} => IF row.status = "absent" THEN runs = {}
                      ELSE FarApart \/ \E e \in Deliveries : runs = {e}

Bookkeeping == /\ \A d \in Deliveries : StageTells(d)
               /\ finished \subseteq runs
               /\ RowTells

IInv == TypeOK /\ Bookkeeping /\ RepliesAreReal /\ WaitHasWorker
===============================================================================
