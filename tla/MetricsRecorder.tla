---------------------------- MODULE MetricsRecorder ----------------------------
(***************************************************************************)
(* internal/metrics: samples that any goroutine records, the Flush that     *)
(* writes them to MySQL under flushMu, called by the recorder that filled   *)
(* the buffer and by the background loop, and Stop.  The state begins after *)
(* metrics.Run.  Samples are numbered in the order they entered pending.    *)
(***************************************************************************)
EXTENDS Naturals, Sequences, FiniteSets, SequencesExt

CONSTANTS Recorders,     \* the goroutines that record
          Loop,          \* the background goroutine of Run
          Nobody,        \* flushMu is free
          MaxPending,    \* maxPending
          MaxMade,       \* bound on the samples recorded
          SaveOutcomes   \* what store.Save may do: SaveResults or fewer

(* "failed": an error and no rows; "unsure": an error, but the rows landed. *)
SaveResults == {"ok", "failed", "unsure"}

ASSUME RecorderAssumption == /\ IsFiniteSet(Recorders)
                             /\ Loop \notin Recorders
                             /\ Nobody \notin Recorders \cup {Loop}
                             /\ MaxPending \in Nat \ {0} /\ MaxMade \in Nat
                             /\ SaveOutcomes \subseteq SaveResults

Flushers == Recorders \cup {Loop}
Limit    == 2 * MaxPending
Sample   == 1 .. MaxMade

VARIABLES
  ctxDone,    \* the context given to Run has ended
  stopped,    \* stopCh is closed
  made,       \* samples recorded so far
  pending,    \* the samples that wait
  holder,     \* who holds flushMu
  batch,      \* toSave of the holder
  stage,      \* where each goroutine is
  final,      \* the loop returns after this flush
  stored,     \* the samples that have a row in metric_samples
  failed,     \* history: samples that a Save has returned an error for
  before      \* history: the samples recorded before the loop was told to end

vars == <<ctxDone, stopped, made, pending, holder, batch, stage, final, stored, failed, before>>

Stages  == {"idle", "wait", "off", "flush", "save", "putBack"}
Unsaved == batch \o pending

TypeOK ==
  /\ ctxDone \in BOOLEAN /\ stopped \in BOOLEAN /\ final \in BOOLEAN
  /\ made \in 0 .. MaxMade /\ before \in 0 .. made
  /\ pending \in Seq(Sample) /\ batch \in Seq(Sample) /\ stored \subseteq Sample
  /\ failed \subseteq Sample
  /\ stage \in [Flushers -> Stages]
  /\ holder \in Flushers \cup {Nobody}
  /\ \A p \in Flushers : (holder = p) <=> (stage[p] \in {"save", "putBack"})
  /\ batch # <<>> => holder # Nobody

Init ==
  /\ ctxDone = FALSE /\ stopped = FALSE /\ final = FALSE
  /\ made = 0 /\ before = 0 /\ pending = <<>> /\ batch = <<>> /\ stored = {} /\ failed = {}
  /\ stage = [p \in Flushers |-> IF p = Loop THEN "wait" ELSE "idle"]
  /\ holder = Nobody

(* Where p goes when its Flush returns.                                     *)
Enter(p, s) == stage' = [stage EXCEPT ![p] = s]
Return(p)   == Enter(p, IF p # Loop THEN "idle" ELSE IF final THEN "off" ELSE "wait")

(* Recorder.Record.                                                        *)
Record(g) ==
  /\ stage[g] = "idle" /\ made < MaxMade
  /\ made' = made + 1
  /\ pending' = Append(pending, made')
  /\ Enter(g, IF Len(pending') >= MaxPending THEN "flush" ELSE "idle")
  /\ UNCHANGED <<ctxDone, stopped, holder, batch, final, stored, failed, before>>

(* Flush: flushMu, then the copy of pending under pendingMu.                *)
FlushTake(p) ==
  /\ stage[p] = "flush" /\ holder = Nobody
  /\ IF pending = <<>>
       THEN Return(p) /\ UNCHANGED <<pending, holder, batch>>
       ELSE /\ Enter(p, "save")
            /\ holder' = p /\ batch' = pending /\ pending' = <<>>
  /\ UNCHANGED <<ctxDone, stopped, made, final, stored, failed, before>>

(* MetricSampleRepo.Save, one INSERT, outside pendingMu.                    *)
Save(p) ==
  /\ stage[p] = "save"
  /\ \E result \in SaveOutcomes :
       /\ stored' = IF result = "failed" THEN stored ELSE stored \cup ToSet(batch)
       /\ IF result = "ok"
            THEN Return(p) /\ holder' = Nobody /\ batch' = <<>> /\ UNCHANGED failed
            ELSE Enter(p, "putBack") /\ failed' = failed \cup ToSet(batch) /\ UNCHANGED <<holder, batch>>
  /\ UNCHANGED <<ctxDone, stopped, made, pending, final, before>>

Newest(s, n) == IF Len(s) > n THEN SubSeq(s, Len(s) - n + 1, Len(s)) ELSE s

(* Bug: the batch goes behind what was recorded meanwhile.                  *)
PutBehind(p) ==
  /\ stage[p] = "putBack"
  /\ pending' = Newest(pending \o batch, Limit)
  /\ holder' = Nobody /\ batch' = <<>>
  /\ Return(p)
  /\ UNCHANGED <<ctxDone, stopped, made, final, stored, failed, before>>

(* Bug: nothing is cut.                                                     *)
PutBackAll(p) ==
  /\ stage[p] = "putBack"
  /\ pending' = Unsaved
  /\ holder' = Nobody /\ batch' = <<>>
  /\ Return(p)
  /\ UNCHANGED <<ctxDone, stopped, made, final, stored, failed, before>>

(* Bug: the way out of an error leaves flushMu locked.                      *)
PutBackLocked(p) ==
  /\ stage[p] = "putBack"
  /\ pending' = Newest(Unsaved, Limit)
  /\ batch' = <<>>
  /\ Return(p)
  /\ UNCHANGED <<ctxDone, stopped, made, holder, final, stored, failed, before>>

(* After an error the batch goes in front again, and the oldest are cut.    *)
PutBack(p) ==
  /\ stage[p] = "putBack"
  /\ pending' = Newest(Unsaved, Limit)
  /\ holder' = Nobody /\ batch' = <<>>
  /\ Return(p)
  /\ UNCHANGED <<ctxDone, stopped, made, final, stored, failed, before>>

(* The loop of Run: the ticker, or the end, whichever select picks.         *)
LoopTick ==
  /\ stage[Loop] = "wait"
  /\ Enter(Loop, "flush")
  /\ UNCHANGED <<ctxDone, stopped, made, pending, holder, batch, final, stored, failed, before>>

(* Bug: the loop ends without a last flush.                                 *)
LoopJustEnds ==
  /\ stage[Loop] = "wait" /\ (ctxDone \/ stopped)
  /\ Enter(Loop, "off") /\ final' = TRUE
  /\ UNCHANGED <<ctxDone, stopped, made, pending, holder, batch, stored, failed, before>>

LoopEnds ==
  /\ stage[Loop] = "wait" /\ (ctxDone \/ stopped)
  /\ Enter(Loop, "flush") /\ final' = TRUE
  /\ UNCHANGED <<ctxDone, stopped, made, pending, holder, batch, stored, failed, before>>

(* Stop closes stopCh once; then it waits until the loop has returned.      *)
StopCloses ==
  /\ ~stopped /\ stopped' = TRUE
  /\ before' = IF ctxDone THEN before ELSE made
  /\ UNCHANGED <<ctxDone, made, pending, holder, batch, stage, final, stored, failed>>

(* The context of Run ends.                                                 *)
CtxEnds ==
  /\ ~ctxDone /\ ctxDone' = TRUE
  /\ before' = IF stopped THEN before ELSE made
  /\ UNCHANGED <<stopped, made, pending, holder, batch, stage, final, stored, failed>>

Next == \/ \E g \in Recorders : Record(g)
        \/ \E p \in Flushers : FlushTake(p) \/ Save(p) \/ PutBack(p)
        \/ LoopTick \/ LoopEnds \/ CtxEnds \/ StopCloses

Spec == Init /\ [][Next]_vars

(* MySQL answers, a Go mutex does not starve a waiter for ever, and a select *)
(* with two ready branches takes each of them again and again.  Nobody has  *)
(* to record or to stop.                                                   *)
FairSpec == /\ Spec
            /\ \A p \in Flushers : SF_vars(FlushTake(p)) /\ WF_vars(Save(p) \/ PutBack(p))
            /\ SF_vars(LoopEnds)

-------------------------------------------------------------------------------
(* However many goroutines record while one Save is under way, and however  *)
(* many Saves fail, pending holds no more than twice maxPending samples and *)
(* one for each goroutine that waits for its own flush.                    *)
PendingBounded ==
  Len(pending) <= Limit + Cardinality({g \in Recorders : stage[g] = "flush"})

(* Once the loop has returned, a sample that is still unsaved was recorded  *)
(* after the loop was told to end, or a Save of it has failed: the last     *)
(* flush waits for those of other goroutines and overlooks nothing.        *)
LastFlushCovers ==
  stage[Loop] = "off" => \A s \in ToSet(Unsaved) : s > before \/ s \in failed

(* However many goroutines flush, none waits for flushMu for ever, and Stop *)
(* returns: the loop does not miss that it was told to end.                *)
LoopReturns == (ctxDone \/ stopped) ~> (stage[Loop] = "off")

(* The recorder, its mutexes and its cut implement the buffer: samples keep *)
(* their order, are saved from the oldest on, and only the oldest of too    *)
(* many are ever given up.                                                 *)
Buffer == INSTANCE SampleBuffer WITH unsaved <- Unsaved

ImplementsBuffer == Buffer!Spec
===============================================================================
