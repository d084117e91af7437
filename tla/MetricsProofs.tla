----------------------------- MODULE MetricsProofs -----------------------------
(***************************************************************************)
(* Proofs about MetricsRecorder, for any number of goroutines that record,  *)
(* any maxPending and any number of samples: the bound on what waits, and   *)
(* what the last flush covers; and about the numbers that are made of what  *)
(* was recorded: the window of a metric after a restart and the chart of    *)
(* the statistics page, for every table.                                    *)
(***************************************************************************)
EXTENDS MetricsRecorder, Algorithms, SequenceLemmas, FiniteSetTheorems, SequenceTheorems, TLAPS

-------------------------------------------------------------------------------
(* Sequences                                                               *)

(* Cutting keeps the type, loses the oldest only, and ends at the limit.    *)
LEMMA NewestProperties ==
  ASSUME NEW S, NEW s \in Seq(S), NEW n \in Nat
  PROVE  Newest(s, n) \in Seq(S) /\ Len(Newest(s, n)) <= n /\ ToSet(Newest(s, n)) \subseteq ToSet(s)
<1>1. Len(s) \in Nat /\ DOMAIN s = 1 .. Len(s)
  BY LenProperties
<1>2. CASE Len(s) <= n
  BY <1>1, <1>2 DEF Newest
<1>3. CASE Len(s) > n
  <2> DEFINE from == Len(s) - n + 1
  <2>1. from \in 1 .. Len(s) + 1 /\ Len(s) \in 0 .. Len(s)
    BY <1>1, <1>3
  <2>2. /\ SubSeq(s, from, Len(s)) \in Seq(S)
        /\ Len(SubSeq(s, from, Len(s))) = n
        /\ \A i \in 1 .. n : SubSeq(s, from, Len(s))[i] = s[from + i - 1] /\ from + i - 1 \in DOMAIN s
    BY <1>1, <1>3, SubSeqProperties
  <2>3. DOMAIN SubSeq(s, from, Len(s)) = 1 .. n
    BY <2>2, LenProperties
  <2>4. ToSet(SubSeq(s, from, Len(s))) \subseteq ToSet(s)
    BY <2>2, <2>3 DEF ToSet
  <2> QED BY <1>1, <1>3, <2>2, <2>4 DEF Newest
<1> QED BY <1>1, <1>2, <1>3

-------------------------------------------------------------------------------
(* Types                                                                   *)

LEMMA InitTypes == Init => TypeOK
<1> SUFFICES ASSUME Init PROVE TypeOK
  OBVIOUS
<1>1. pending \in Seq(Sample) /\ batch \in Seq(Sample) /\ batch = <<>>
  BY EmptySeq DEF Init
<1>2. Loop \in Flushers /\ Nobody \notin Flushers
  BY RecorderAssumption DEF Flushers
<1>3. /\ holder = Nobody /\ stage \in [Flushers -> Stages]
      /\ \A p \in Flushers : stage[p] \notin {"save", "putBack"}
  BY DEF Init, Stages
<1>4. made \in 0 .. MaxMade /\ before \in 0 .. made
  BY RecorderAssumption DEF Init
<1> QED BY <1>1, <1>2, <1>3, <1>4 DEF Init, TypeOK

LEMMA TypeStep == TypeOK /\ [Next]_vars => TypeOK'
<1> SUFFICES ASSUME TypeOK, [Next]_vars PROVE TypeOK'
  OBVIOUS
<1>who. Loop \in Flushers /\ Nobody \notin Flushers /\ Recorders \subseteq Flushers /\ Loop \notin Recorders
  BY RecorderAssumption DEF Flushers
<1>limit. Limit \in Nat
  BY RecorderAssumption DEF Limit
<1>1. ASSUME NEW g \in Recorders, Record(g) PROVE TypeOK'
  <2>1. made' \in 0 .. MaxMade /\ made' \in Sample /\ before \in 0 .. made'
    BY <1>1, RecorderAssumption DEF Record, TypeOK, Sample
  <2>2. pending' \in Seq(Sample)
    BY <1>1, <2>1, AppendProperties DEF Record, TypeOK
  <2>3. PICK to \in {"flush", "idle"} : stage' = [stage EXCEPT ![g] = to]
    BY <1>1 DEF Record, Enter
  <2>4. holder # g
    BY <1>1, <1>who DEF Record, TypeOK
  <2> QED BY <1>1, <1>who, <2>1, <2>2, <2>3, <2>4 DEF Record, TypeOK, Stages
<1>2. ASSUME NEW p \in Flushers, FlushTake(p) PROVE TypeOK'
  <2>1. CASE pending = <<>>
    <3>1. PICK to \in {"idle", "off", "wait"} : stage' = [stage EXCEPT ![p] = to]
      BY <1>2, <2>1 DEF FlushTake, Return, Enter
    <3> QED BY <1>2, <2>1, <3>1, <1>who DEF FlushTake, TypeOK, Stages
  <2>2. CASE pending # <<>>
    <3>1. stage' = [stage EXCEPT ![p] = "save"] /\ holder' = p /\ batch' = pending /\ pending' = <<>>
      BY <1>2, <2>2 DEF FlushTake, Enter
    <3>2. \A q \in Flushers : stage[q] \notin {"save", "putBack"}
      BY <1>2, <1>who DEF FlushTake, TypeOK
    <3> QED BY <1>2, <3>1, <3>2, <1>who, EmptySeq DEF FlushTake, TypeOK, Stages
  <2> QED BY <2>1, <2>2
<1>3. ASSUME NEW p \in Flushers, Save(p) PROVE TypeOK'
  <2>1. stage[p] = "save" /\ holder = p /\ ToSet(batch) \subseteq Sample
    <3>1. ToSet(batch) \subseteq Sample
      BY LenProperties DEF TypeOK, ToSet
    <3> QED BY <1>3, <3>1 DEF Save, TypeOK
  <2>2. stored' \subseteq Sample
    BY <1>3, <2>1 DEF Save, TypeOK
  <2>3. CASE holder' = Nobody
    <3>1. /\ batch' = <<>> /\ failed' = failed
          /\ \E to \in {"idle", "off", "wait"} : stage' = [stage EXCEPT ![p] = to]
      BY <1>3, <1>who, <2>1, <2>3 DEF Save, Return, Enter
    <3> QED BY <1>3, <1>who, <2>1, <2>2, <2>3, <3>1, EmptySeq DEF Save, TypeOK, Stages
  <2>4. CASE holder' # Nobody
    <3>1. /\ batch' = batch /\ holder' = holder /\ failed' \subseteq Sample
          /\ stage' = [stage EXCEPT ![p] = "putBack"]
      BY <1>3, <2>1, <2>4 DEF Save, Enter, TypeOK
    <3> QED BY <1>3, <1>who, <2>1, <2>2, <3>1 DEF Save, TypeOK, Stages
  <2> QED BY <2>3, <2>4
<1>4. ASSUME NEW p \in Flushers, PutBack(p) PROVE TypeOK'
  <2>1. stage[p] = "putBack" /\ holder = p /\ holder' = Nobody /\ batch' = <<>>
    BY <1>4 DEF PutBack, TypeOK
  <2>2. pending' \in Seq(Sample)
    BY <1>4, <1>limit, ToSetConcat, NewestProperties DEF PutBack, TypeOK, Unsaved
  <2>3. PICK to \in {"idle", "off", "wait"} : stage' = [stage EXCEPT ![p] = to]
    BY <1>4 DEF PutBack, Return, Enter
  <2> QED BY <1>4, <1>who, <2>1, <2>2, <2>3, EmptySeq DEF PutBack, TypeOK, Stages
<1>5. CASE LoopTick \/ LoopEnds
  <2>1. stage[Loop] = "wait" /\ stage' = [stage EXCEPT ![Loop] = "flush"] /\ final' \in BOOLEAN
    BY <1>5 DEF LoopTick, LoopEnds, Enter, TypeOK
  <2> QED BY <1>5, <1>who, <2>1 DEF LoopTick, LoopEnds, TypeOK, Stages
<1>6. CASE StopCloses \/ CtxEnds \/ UNCHANGED vars
  <2>1. /\ UNCHANGED <<made, pending, holder, batch, stage, final, stored, failed>>
        /\ ctxDone' \in BOOLEAN /\ stopped' \in BOOLEAN /\ before' \in {before, made}
    BY <1>6 DEF StopCloses, CtxEnds, vars, TypeOK
  <2>2. before' \in 0 .. made'
    BY <2>1, RecorderAssumption DEF TypeOK
  <2> QED BY <2>1, <2>2 DEF TypeOK
<1> QED BY <1>1, <1>2, <1>3, <1>4, <1>5, <1>6 DEF Next

-------------------------------------------------------------------------------
(* The bound on pending.                                                   *)

AboutToFlush == {g \in Recorders : stage[g] = "flush"}

LEMMA CountsAreNat == Cardinality(AboutToFlush) \in Nat /\ IsFiniteSet(AboutToFlush)
  BY RecorderAssumption, FS_Subset, FS_CardinalityType DEF AboutToFlush

LEMMA BoundStep == TypeOK /\ PendingBounded /\ [Next]_vars => PendingBounded'
<1> SUFFICES ASSUME TypeOK, PendingBounded, [Next]_vars PROVE PendingBounded'
  OBVIOUS
<1> DEFINE n == Cardinality(AboutToFlush)
<1>who. Loop \in Flushers /\ Recorders \subseteq Flushers /\ Loop \notin Recorders
  BY RecorderAssumption DEF Flushers
<1>limit. Limit \in Nat /\ MaxPending \in Nat /\ MaxPending <= Limit
  BY RecorderAssumption DEF Limit
<1>n. n \in Nat /\ n' \in Nat /\ Len(pending) \in Nat /\ Len(pending) <= Limit + n
  <2>1. n' \in Nat
    BY RecorderAssumption, FS_Subset, FS_CardinalityType DEF AboutToFlush
  <2> QED BY <2>1, CountsAreNat, LenProperties DEF TypeOK, PendingBounded, AboutToFlush
<1>goal. ASSUME Len(pending') \in Nat, Len(pending') <= Limit + n' PROVE PendingBounded'
  BY <1>goal DEF PendingBounded, AboutToFlush
<1>same. ASSUME AboutToFlush' = AboutToFlush, pending' = pending PROVE PendingBounded'
  BY <1>same, <1>goal, <1>n
<1>1. ASSUME NEW g \in Recorders, Record(g) PROVE PendingBounded'
  <2>1. Len(pending') = Len(pending) + 1 /\ stage[g] = "idle"
    BY <1>1, RecorderAssumption, AppendProperties DEF Record, TypeOK, Sample
  <2>2. CASE Len(pending') >= MaxPending
    <3>1. stage' = [stage EXCEPT ![g] = "flush"]
      BY <1>1, <2>2 DEF Record, Enter
    <3>2. AboutToFlush' = AboutToFlush \cup {g} /\ g \notin AboutToFlush
      BY <1>who, <2>1, <3>1 DEF AboutToFlush, TypeOK
    <3>3. n' = n + 1
      BY <3>2, CountsAreNat, FS_AddElement
    <3> QED BY <1>goal, <1>n, <1>limit, <2>1, <3>3
  <2>3. CASE Len(pending') < MaxPending
    BY <1>goal, <1>n, <1>limit, <2>1, <2>3
  <2> QED BY <1>n, <1>limit, <2>1, <2>2, <2>3
<1>2. ASSUME NEW p \in Flushers, FlushTake(p) PROVE PendingBounded'
  <2>1. pending' = <<>>
    BY <1>2 DEF FlushTake
  <2> QED BY <1>goal, <1>n, <1>limit, <2>1
<1>3. ASSUME NEW p \in Flushers, Save(p) PROVE PendingBounded'
  <2>1. PICK to \in {"idle", "off", "wait", "putBack"} : stage' = [stage EXCEPT ![p] = to]
    BY <1>3 DEF Save, Return, Enter
  <2>2. AboutToFlush' = AboutToFlush
    BY <1>3, <1>who, <2>1 DEF Save, AboutToFlush, TypeOK
  <2> QED BY <1>3, <1>same, <2>2 DEF Save
<1>4. ASSUME NEW p \in Flushers, PutBack(p) PROVE PendingBounded'
  <2>1. Len(pending') <= Limit /\ Len(pending') \in Nat
    BY <1>4, <1>limit, ToSetConcat, NewestProperties, LenProperties DEF PutBack, TypeOK, Unsaved
  <2> QED BY <1>goal, <1>n, <1>limit, <2>1
<1>5. CASE LoopTick \/ LoopEnds
  <2>1. stage' = [stage EXCEPT ![Loop] = "flush"] /\ pending' = pending
    BY <1>5 DEF LoopTick, LoopEnds, Enter
  <2>2. AboutToFlush' = AboutToFlush
    BY <1>who, <2>1 DEF AboutToFlush, TypeOK
  <2> QED BY <1>same, <2>1, <2>2
<1>6. CASE StopCloses \/ CtxEnds \/ UNCHANGED vars
  <2>1. UNCHANGED <<stage, pending>>
    BY <1>6 DEF StopCloses, CtxEnds, vars
  <2> QED BY <1>same, <2>1 DEF AboutToFlush
<1> QED BY <1>1, <1>2, <1>3, <1>4, <1>5, <1>6 DEF Next

LEMMA InitBound == Init => PendingBounded
<1> SUFFICES ASSUME Init PROVE PendingBounded
  OBVIOUS
<1>1. Len(pending) = 0 /\ Limit \in Nat
  BY RecorderAssumption DEF Init, Limit
<1> QED BY <1>1, CountsAreNat DEF PendingBounded, AboutToFlush

-------------------------------------------------------------------------------
(* The last flush.  What is unsaved after it was recorded too late, or has  *)
(* failed: true of pending as soon as the loop has taken what was there,    *)
(* because only new samples and failed ones enter it from then on.          *)

Excused(S)  == \A s \in S : s > before \/ s \in failed
LastFlushed == final /\ stage[Loop] \in {"save", "putBack", "off"}

FInv ==
  /\ final => ctxDone \/ stopped
  /\ stage[Loop] = "off" => final
  /\ \A p \in Flushers : stage[p] = "putBack" => ToSet(batch) \subseteq failed
  /\ LastFlushed => Excused(ToSet(pending))
  /\ stage[Loop] = "off" => Excused(ToSet(batch))

LEMMA FInvStep == TypeOK /\ FInv /\ [Next]_vars => FInv'
<1> SUFFICES ASSUME TypeOK, FInv, [Next]_vars PROVE FInv'
  OBVIOUS
<1>who. Loop \in Flushers /\ Nobody \notin Flushers /\ Recorders \subseteq Flushers /\ Loop \notin Recorders
  BY RecorderAssumption DEF Flushers
<1>empty. ToSet(<<>>) = {}
  BY DEF ToSet
<1>1. ASSUME NEW g \in Recorders, Record(g) PROVE FInv'
  <2>1. ToSet(pending') = ToSet(pending) \cup {made + 1} /\ made + 1 > before
    <3>1. made + 1 \in Sample /\ made + 1 > before
      BY <1>1, RecorderAssumption DEF Record, TypeOK, Sample
    <3> QED BY <1>1, <3>1, ToSetAppend DEF Record, TypeOK
  <2>2. /\ \E to \in {"flush", "idle"} : stage' = [stage EXCEPT ![g] = to]
        /\ UNCHANGED <<ctxDone, stopped, batch, final, failed, before>>
    BY <1>1 DEF Record, Enter
  <2>3. stage'[Loop] = stage[Loop] /\ \A p \in Flushers : stage'[p] = "putBack" => stage[p] = "putBack"
    BY <1>who, <2>2 DEF TypeOK
  <2> QED BY <2>1, <2>2, <2>3 DEF FInv, LastFlushed, Excused
<1>2. ASSUME NEW p \in Flushers, FlushTake(p) PROVE FInv'
  <2>1. /\ stage[p] = "flush" /\ pending' = <<>> /\ batch' \in {batch, pending}
        /\ UNCHANGED <<ctxDone, stopped, final, failed, before>>
    BY <1>2 DEF FlushTake
  <2>2. batch = <<>> /\ \A q \in Flushers : stage[q] \notin {"save", "putBack"}
    BY <1>2, <1>who DEF FlushTake, TypeOK
  <2>3. \E to \in {"idle", "off", "wait", "save"} :
          /\ stage' = [stage EXCEPT ![p] = to]
          /\ to = "off" => final /\ p = Loop /\ batch' = <<>>
          /\ to = "idle" => p # Loop
    BY <1>2, <2>2 DEF FlushTake, Return, Enter
  <2>4. \A q \in Flushers : stage'[q] # "putBack"
    BY <2>2, <2>3 DEF TypeOK
  <2>5. CASE p = Loop
    BY <1>who, <1>empty, <2>1, <2>3, <2>4, <2>5 DEF FInv, LastFlushed, Excused, TypeOK
  <2>6. CASE p # Loop
    <3>1. stage'[Loop] = stage[Loop]
      BY <1>who, <2>3, <2>6 DEF TypeOK
    <3> QED BY <1>empty, <2>1, <2>4, <3>1 DEF FInv, LastFlushed, Excused
  <2> QED BY <2>5, <2>6
<1>3. ASSUME NEW p \in Flushers, Save(p) PROVE FInv'
  <2>1. /\ stage[p] = "save" /\ failed \subseteq failed'
        /\ UNCHANGED <<ctxDone, stopped, pending, final, before>>
    BY <1>3 DEF Save
  <2>2. \A q \in Flushers \ {p} : stage[q] \notin {"save", "putBack"}
    BY <1>3, <1>who DEF Save, TypeOK
  <2>3. CASE batch' = <<>> /\ failed' = failed /\ Return(p)
    <3>1. \E to \in {"idle", "off", "wait"} :
            stage' = [stage EXCEPT ![p] = to] /\ (to = "off" => final)
      BY <2>3 DEF Return, Enter
    <3>2. \A q \in Flushers : stage'[q] # "putBack"
      BY <2>2, <3>1 DEF TypeOK
    <3>3. (stage'[Loop] = "off" => final) /\ (LastFlushed' => LastFlushed)
      BY <1>who, <2>1, <3>1 DEF FInv, LastFlushed, TypeOK
    <3> QED BY <1>empty, <2>1, <2>3, <3>2, <3>3 DEF FInv, Excused
  <2>4. CASE batch' = batch /\ failed' = failed \cup ToSet(batch) /\ Enter(p, "putBack")
    <3>1. /\ stage'[Loop] = "off" => stage[Loop] = "off"
          /\ LastFlushed' => LastFlushed
      BY <1>who, <2>1, <2>4 DEF Enter, LastFlushed, TypeOK
    <3> QED BY <2>1, <2>4, <3>1 DEF FInv, Excused
  <2> QED BY <1>3, <2>3, <2>4 DEF Save
<1>4. ASSUME NEW p \in Flushers, PutBack(p) PROVE FInv'
  <2>1. /\ stage[p] = "putBack" /\ batch' = <<>>
        /\ UNCHANGED <<ctxDone, stopped, final, failed, before>>
    BY <1>4 DEF PutBack
  <2>2. \E to \in {"idle", "off", "wait"} :
          stage' = [stage EXCEPT ![p] = to] /\ (to = "off" => final)
    BY <1>4 DEF PutBack, Return, Enter
  <2>3. ToSet(pending') \subseteq ToSet(batch) \cup ToSet(pending)
    <3>1. Limit \in Nat
      BY RecorderAssumption DEF Limit
    <3>2. Unsaved \in Seq(Sample) /\ ToSet(Unsaved) = ToSet(batch) \cup ToSet(pending)
      BY ToSetConcat DEF Unsaved, TypeOK
    <3>3. pending' = Newest(Unsaved, Limit)
      BY <1>4 DEF PutBack
    <3> QED BY <3>1, <3>2, <3>3, NewestProperties
  <2>4. ToSet(batch) \subseteq failed
    BY <2>1 DEF FInv
  <2>5. \A q \in Flushers : stage'[q] # "putBack"
    <3>1. \A q \in Flushers \ {p} : stage[q] # "putBack"
      BY <2>1 DEF TypeOK
    <3> QED BY <2>2, <3>1 DEF TypeOK
  <2>6. (stage'[Loop] = "off" => final) /\ (LastFlushed' => LastFlushed)
    BY <1>who, <2>1, <2>2 DEF FInv, LastFlushed, TypeOK
  <2> QED BY <1>empty, <2>1, <2>3, <2>4, <2>5, <2>6 DEF FInv, Excused
<1>5. CASE LoopTick \/ LoopEnds
  <2>1. /\ stage' = [stage EXCEPT ![Loop] = "flush"] /\ batch' = batch /\ failed' = failed
        /\ UNCHANGED <<ctxDone, stopped>> /\ (final' => ctxDone \/ stopped)
    BY <1>5 DEF LoopTick, LoopEnds, Enter, FInv
  <2>2. stage'[Loop] = "flush" /\ \A q \in Flushers : stage'[q] = "putBack" => stage[q] = "putBack"
    BY <1>who, <2>1 DEF TypeOK
  <2> QED BY <2>1, <2>2 DEF FInv, LastFlushed
<1>6. CASE StopCloses \/ CtxEnds \/ UNCHANGED vars
  <2>1. /\ UNCHANGED <<pending, batch, stage, final, failed>>
        /\ ctxDone \/ stopped => (ctxDone \/ stopped)' /\ before' = before
    BY <1>6 DEF StopCloses, CtxEnds, vars
  <2> QED BY <2>1 DEF FInv, LastFlushed, Excused
<1> QED BY <1>1, <1>2, <1>3, <1>4, <1>5, <1>6 DEF Next

LEMMA InitFInv == Init => FInv
  BY RecorderAssumption DEF Init, FInv, LastFlushed, Flushers

-------------------------------------------------------------------------------
IInv == TypeOK /\ PendingBounded /\ FInv

THEOREM Invariance == Spec => []IInv
<1>1. Init => IInv
  BY InitTypes, InitBound, InitFInv DEF IInv
<1>2. IInv /\ [Next]_vars => IInv'
  BY TypeStep, BoundStep, FInvStep DEF IInv
<1> QED BY <1>1, <1>2, PTL DEF Spec

(* The mutex has one holder, which is the one that saves or puts back.      *)
THEOREM TypeCorrect == Spec => []TypeOK
<1>1. IInv => TypeOK
  BY DEF IInv
<1> QED BY <1>1, Invariance, PTL

(* pending is bounded whatever fails, for any number of goroutines.         *)
THEOREM BufferIsBounded == Spec => []PendingBounded
<1>1. IInv => PendingBounded
  BY DEF IInv
<1> QED BY <1>1, Invariance, PTL

(* The last flush overlooks nothing.                                        *)
THEOREM NothingOverlooked == Spec => []LastFlushCovers
<1>1. IInv => LastFlushCovers
  <2> SUFFICES ASSUME IInv, stage[Loop] = "off" PROVE Excused(ToSet(Unsaved))
    BY DEF LastFlushCovers, Excused
  <2>1. Excused(ToSet(pending)) /\ Excused(ToSet(batch))
    BY DEF IInv, FInv, LastFlushed
  <2>2. ToSet(Unsaved) = ToSet(batch) \cup ToSet(pending)
    BY ToSetConcat DEF IInv, TypeOK, Unsaved
  <2> QED BY <2>1, <2>2 DEF Excused
<1> QED BY <1>1, Invariance, PTL
-------------------------------------------------------------------------------
(* The recorder implements the buffer.                                     *)

(* The batch and what waits behind it, taken apart again.                   *)
LEMMA FrontAndRest ==
  ASSUME NEW S, NEW s \in Seq(S), NEW t \in Seq(S)
  PROVE  /\ SubSeq(s \o t, 1, Len(s)) = s
         /\ SubSeq(s \o t, Len(s) + 1, Len(s \o t)) = t
<1>1. /\ s \o t \in Seq(S) /\ Len(s) \in Nat /\ Len(t) \in Nat
      /\ Len(s \o t) = Len(s) + Len(t)
      /\ \A i \in 1 .. Len(s) + Len(t) :
           (s \o t)[i] = IF i <= Len(s) THEN s[i] ELSE t[i - Len(s)]
      /\ \A i \in 1 .. Len(s) + Len(t) : (s \o t)[i] \in S
  BY ConcatProperties, ElementOfSeq
<1>2. SubSeq(s \o t, 1, Len(s)) = s
  <2>1. /\ SubSeq(s \o t, 1, Len(s)) \in Seq(S)
        /\ Len(SubSeq(s \o t, 1, Len(s))) = Len(s)
        /\ \A i \in 1 .. Len(s) : SubSeq(s \o t, 1, Len(s))[i] = (s \o t)[i]
    <3>1. \A i \in 1 .. Len(s) : (s \o t)[i] \in S
      BY <1>1
    <3> QED BY <1>1, <3>1, SubSeqProperties
  <2>2. \A i \in 1 .. Len(s) : (s \o t)[i] = s[i]
    BY <1>1
  <2> QED BY <2>1, <2>2, SeqEqual
<1>3. SubSeq(s \o t, Len(s) + 1, Len(s \o t)) = t
  <2> DEFINE rest == SubSeq(s \o t, Len(s) + 1, Len(s) + Len(t))
  <2>1. /\ rest \in Seq(S) /\ Len(rest) = Len(t)
        /\ \A i \in 1 .. Len(t) : rest[i] = (s \o t)[Len(s) + i]
    <3>1. \A i \in Len(s) + 1 .. Len(s) + Len(t) : (s \o t)[i] \in S
      BY <1>1
    <3>2. /\ rest \in Seq(S) /\ Len(rest) = IF Len(s) + 1 <= Len(s) + Len(t) THEN Len(s) + Len(t) - (Len(s) + 1) + 1 ELSE 0
          /\ \A i \in 1 .. Len(s) + Len(t) - (Len(s) + 1) + 1 : rest[i] = (s \o t)[Len(s) + 1 + i - 1]
      BY <1>1, <3>1, SubSeqProperties
    <3>3. Len(s) + Len(t) - (Len(s) + 1) + 1 = Len(t) /\ \A i \in 1 .. Len(t) : Len(s) + 1 + i - 1 = Len(s) + i
      BY <1>1
    <3>4. Len(rest) = Len(t)
      BY <1>1, <3>2
    <3> QED BY <3>2, <3>3, <3>4
  <2>2. \A i \in 1 .. Len(t) : (s \o t)[Len(s) + i] = t[i]
    <3>1. \A i \in 1 .. Len(t) : Len(s) + i \in 1 .. Len(s) + Len(t) /\ ~(Len(s) + i <= Len(s)) /\ Len(s) + i - Len(s) = i
      BY <1>1
    <3> QED BY <1>1, <3>1
  <2>3. rest = t
    BY <2>1, <2>2, SeqEqual
  <2> QED BY <1>1, <2>3
<1> QED BY <1>2, <1>3

LEMMA BufferStep == TypeOK /\ [Next]_vars => [Buffer!Next]_(Buffer!vars)
<1> SUFFICES ASSUME TypeOK, [Next]_vars PROVE [Buffer!Next]_(Buffer!vars)
  OBVIOUS
<1>who. Loop \in Flushers /\ Nobody \notin Flushers /\ Recorders \subseteq Flushers
  BY RecorderAssumption DEF Flushers
<1>limit. Limit \in Nat
  BY RecorderAssumption DEF Limit
<1>seq. pending \in Seq(Sample) /\ batch \in Seq(Sample) /\ Unsaved \in Seq(Sample)
        /\ Len(batch) \in Nat /\ Len(pending) \in Nat /\ Len(Unsaved) = Len(batch) + Len(pending)
  BY ConcatProperties, LenProperties DEF TypeOK, Unsaved
(* The batch is what is oldest.                                             *)
<1>front. /\ Buffer!Oldest(Len(batch)) = batch
          /\ Buffer!AllBut(Len(batch)) = pending
          /\ batch # <<>> => Len(batch) \in 1 .. Len(Unsaved)
  BY <1>seq, FrontAndRest, EmptySeq DEF Buffer!Oldest, Buffer!AllBut, Unsaved
<1>stay. ASSUME UNCHANGED <<made, stored>>, Unsaved' = Unsaved PROVE [Buffer!Next]_(Buffer!vars)
  BY <1>stay DEF Buffer!vars
<1>1. ASSUME NEW g \in Recorders, Record(g) PROVE [Buffer!Next]_(Buffer!vars)
  <2>1. /\ made' = made + 1 /\ made' \in Sample
        /\ pending' = Append(pending, made') /\ UNCHANGED <<batch, stored>>
    BY <1>1, RecorderAssumption DEF Record, TypeOK, Sample
  <2>2. Unsaved' = Append(Unsaved, made')
    <3>1. pending' = pending \o <<made'>> /\ <<made'>> \in Seq(Sample)
      BY <1>seq, <2>1, AppendIsConcat
    <3>2. batch \o (pending \o <<made'>>) = (batch \o pending) \o <<made'>>
      BY <1>seq, <3>1, ConcatAssociative
    <3>3. Append(Unsaved, made') = Unsaved \o <<made'>>
      BY <1>seq, <2>1, AppendIsConcat
    <3> QED BY <2>1, <3>1, <3>2, <3>3 DEF Unsaved
  <2> QED BY <2>1, <2>2 DEF Buffer!Next, Buffer!RecordOne
<1>2. ASSUME NEW p \in Flushers, FlushTake(p) PROVE [Buffer!Next]_(Buffer!vars)
  <2>1. Unsaved' = Unsaved
    <3>1. CASE UNCHANGED <<pending, batch>>
      BY <3>1 DEF Unsaved
    <3>2. CASE batch' = pending /\ pending' = <<>>
      <4>1. batch = <<>>
        BY <1>2 DEF FlushTake, TypeOK
      <4> QED BY <1>seq, <3>2, <4>1, ConcatEmptySeq DEF Unsaved
    <3> QED BY <1>2, <3>1, <3>2 DEF FlushTake
  <2> QED BY <1>2, <1>stay, <2>1 DEF FlushTake
<1>3. ASSUME NEW p \in Flushers, Save(p) PROVE [Buffer!Next]_(Buffer!vars)
  <2>1. PICK result \in SaveOutcomes :
          /\ stored' = IF result = "failed" THEN stored ELSE stored \cup ToSet(batch)
          /\ IF result = "ok" THEN batch' = <<>> ELSE batch' = batch
    BY <1>3 DEF Save
  <2>2. UNCHANGED <<made, pending>>
    BY <1>3 DEF Save
  <2>3. CASE batch = <<>>
    <3>1. ToSet(batch) = {}
      BY <2>3 DEF ToSet
    <3>2. Unsaved' = Unsaved /\ stored' = stored
      BY <2>1, <2>2, <2>3, <3>1 DEF Unsaved
    <3> QED BY <1>stay, <2>2, <3>2
  <2>4. CASE batch # <<>>
    <3>1. Buffer!Range(Buffer!Oldest(Len(batch))) = ToSet(batch) /\ Len(batch) \in 1 .. Len(Unsaved)
      BY <1>front, <2>4 DEF ToSet, Buffer!Range
    <3>2. CASE result = "failed"
      BY <1>stay, <2>1, <2>2, <3>2 DEF Unsaved
    <3>3. CASE result = "ok"
      <4>1. Unsaved' = pending
        BY <1>seq, <2>1, <2>2, <3>3, ConcatEmptySeq DEF Unsaved
      <4>2. /\ stored' = stored \cup Buffer!Range(Buffer!Oldest(Len(batch)))
            /\ Unsaved' = Buffer!AllBut(Len(batch)) /\ made' = made
        BY <1>front, <2>1, <2>2, <3>1, <3>3, <4>1
      <4>3. Buffer!SaveOldest
        BY <3>1, <4>2 DEF Buffer!SaveOldest
      <4> QED BY <4>3 DEF Buffer!Next
    <3>4. CASE result \notin {"failed", "ok"}
      <4>1. Unsaved' = Unsaved
        BY <2>1, <2>2, <3>4 DEF Unsaved
      <4>2. stored' = stored \cup Buffer!Range(Buffer!Oldest(Len(batch))) /\ made' = made
        BY <2>1, <2>2, <3>1, <3>4
      <4>3. Buffer!SaveUnsure
        BY <3>1, <4>1, <4>2 DEF Buffer!SaveUnsure
      <4> QED BY <4>3 DEF Buffer!Next
    <3> QED BY <3>2, <3>3, <3>4
  <2> QED BY <2>3, <2>4
<1>4. ASSUME NEW p \in Flushers, PutBack(p) PROVE [Buffer!Next]_(Buffer!vars)
  <2>1. /\ pending' = Newest(Unsaved, Limit) /\ batch' = <<>> /\ UNCHANGED <<made, stored>>
    BY <1>4 DEF PutBack
  <2>2. Unsaved' = Newest(Unsaved, Limit)
    BY <1>seq, <1>limit, <2>1, NewestProperties, ConcatEmptySeq DEF Unsaved
  <2>3. CASE Len(Unsaved) > Limit
    BY <2>1, <2>2, <2>3 DEF Newest, Buffer!Next, Buffer!GiveUpOldest, Buffer!AllBut
  <2>4. CASE ~(Len(Unsaved) > Limit)
    BY <1>stay, <2>1, <2>2, <2>4 DEF Newest
  <2> QED BY <2>3, <2>4
<1>5. CASE LoopTick \/ LoopEnds \/ StopCloses \/ CtxEnds \/ UNCHANGED vars
  BY <1>5, <1>stay DEF LoopTick, LoopEnds, StopCloses, CtxEnds, vars, Unsaved
<1> QED BY <1>1, <1>2, <1>3, <1>4, <1>5 DEF Next

(* For any number of goroutines, any maxPending and any failures of Save:   *)
(* samples keep the order in which they were recorded, are saved from the   *)
(* oldest on, and are given up only when more than twice maxPending wait.   *)
THEOREM RecorderKeepsBuffer == Spec => ImplementsBuffer
<1>1. Init => Buffer!Init
  <2>1. <<>> \o <<>> = <<>>
    BY EmptySeq, ConcatEmptySeq
  <2> QED BY <2>1 DEF Init, Buffer!Init, Unsaved
<1>2. TypeOK /\ [Next]_vars => [Buffer!Next]_(Buffer!vars)
  BY BufferStep
<1> QED BY <1>1, <1>2, TypeCorrect, PTL DEF Spec, ImplementsBuffer, Buffer!Spec


-------------------------------------------------------------------------------
(* The chart of the statistics page                                        *)

LEMMA DisjointSum ==
  ASSUME NEW S, NEW T, IsFiniteSet(S), IsFiniteSet(T), S \cap T = {}
  PROVE  Cardinality(S \cup T) = Cardinality(S) + Cardinality(T)
<1>1. Cardinality(S) \in Nat /\ Cardinality(T) \in Nat
  BY FS_CardinalityType
<1>2. Cardinality(S \cup T) = Cardinality(S) + Cardinality(T) - Cardinality({})
  BY FS_Union
<1> QED BY <1>1, <1>2, FS_EmptySet

CallsOn(m, d)        == {i \in 1 .. Len(m.calls) : m.calls[i].day = d}
CallsWithin(m, a, b) == {i \in 1 .. Len(m.calls) : m.calls[i].day \in a .. b}

(* Calls that were made in the past.                                        *)
PastCalls(m) ==
  /\ m.day \in Int /\ m.calls \in Seq([day : Int, user : Users])
  /\ \A i \in 1 .. Len(m.calls) : m.calls[i].day <= m.day

LEMMA DaysArePast ==
  ASSUME NEW m, PastCalls(m)
  PROVE  /\ m.day \in Int /\ Days \in Nat \ {0} /\ Len(m.calls) \in Nat
         /\ \A i \in 1 .. Len(m.calls) : m.calls[i].day \in Int /\ m.calls[i].day <= m.day
<1> DEFINE calls == m.calls
<1>1. calls \in Seq([day : Int, user : Users])
  BY DEF PastCalls
<1>2. \A i \in 1 .. Len(calls) : calls[i].day <= m.day
  BY DEF PastCalls
<1> HIDE DEF calls
<1>3. Len(calls) \in Nat /\ \A i \in 1 .. Len(calls) : calls[i] \in [day : Int, user : Users]
  BY <1>1, LenProperties
<1>4. \A i \in 1 .. Len(calls) : calls[i].day \in Int
  BY <1>3
<1>5. m.day \in Int
  BY DEF PastCalls
<1> QED BY <1>2, <1>3, <1>4, <1>5, DaysAssumption DEF calls

LEMMA CallsAreFinite ==
  ASSUME NEW m, PastCalls(m), NEW S \in SUBSET (1 .. Len(m.calls))
  PROVE  IsFiniteSet(S) /\ Cardinality(S) \in Nat
<1>1. Len(m.calls) \in Nat
  BY LenProperties DEF PastCalls
<1>2. IsFiniteSet(1 .. Len(m.calls))
  BY <1>1, FS_Interval
<1>3. IsFiniteSet(S)
  BY <1>2, FS_Subset
<1> QED BY <1>3, FS_CardinalityType

(* A bar of the chart is the number of calls on its day, though the rows    *)
(* leave out the days without calls.                                        *)
LEMMA BarOfChart ==
  ASSUME NEW m, PastCalls(m), NEW k \in 1 .. Days
  PROVE  FillMissingDates(DailyStats(m), m.day)[k] = Cardinality(CallsOn(m, m.day - Days + k))
<1> DEFINE d     == m.day - Days + k
           stats == DailyStats(m)
<1>1. /\ m.day \in Int /\ Days \in Nat \ {0}
      /\ \A i \in 1 .. Len(m.calls) : m.calls[i].day \in Int
  BY DaysArePast
<1>2. d >= m.day - Days
  BY <1>1
<1>3. {i \in Recent(m) : m.calls[i].day = d} = CallsOn(m, d)
  BY <1>2 DEF Recent, CallsOn
<1>4. FillMissingDates(stats, m.day)[k] = IF d \in DOMAIN stats THEN stats[d] ELSE 0
  BY DEF FillMissingDates
<1>5. DOMAIN stats = {m.calls[i].day : i \in Recent(m)}
  BY DEF DailyStats
<1>6. CASE d \in DOMAIN stats
  <2>1. stats[d] = Cardinality({i \in Recent(m) : m.calls[i].day = d})
    BY <1>5, <1>6 DEF DailyStats
  <2> QED BY <1>3, <1>4, <1>6, <2>1
<1>7. CASE d \notin DOMAIN stats
  <2>1. {i \in Recent(m) : m.calls[i].day = d} = {}
    BY <1>5, <1>7
  <2> QED BY <1>3, <1>4, <1>7, <2>1, FS_EmptySet
<1> QED BY <1>6, <1>7

(* The bars up to one add up to the calls of their days.                    *)
LEMMA BarsAddUp ==
  ASSUME NEW m, PastCalls(m)
  PROVE  Total(FillMissingDates(DailyStats(m), m.day))
           = Cardinality(CallsWithin(m, m.day - Days + 1, m.day))
<1> DEFINE first    == m.day - Days
           chart    == FillMissingDates(DailyStats(m), m.day)
           Until(k) == CallsWithin(m, first + 1, first + k)
           T        == {k \in Nat : k <= Days => SumsOf(chart)[k] = Cardinality(Until(k))}
<1>1. /\ m.day \in Int /\ Days \in Nat \ {0} /\ first \in Int
      /\ \A i \in 1 .. Len(m.calls) : m.calls[i].day \in Int
  BY DaysArePast
<1>2. \A d \in Int : IsFiniteSet(CallsOn(m, d)) /\ Cardinality(CallsOn(m, d)) \in Nat
  BY CallsAreFinite DEF CallsOn
<1>3. \A k \in 1 .. Days : chart[k] = Cardinality(CallsOn(m, first + k)) /\ chart[k] \in Int
  <2> SUFFICES ASSUME NEW k \in 1 .. Days
               PROVE  chart[k] = Cardinality(CallsOn(m, first + k)) /\ chart[k] \in Int
    OBVIOUS
  <2>1. chart[k] = Cardinality(CallsOn(m, first + k))
    BY BarOfChart
  <2>2. first + k \in Int
    BY <1>1
  <2> QED BY <1>2, <2>1, <2>2
<1>4. chart \in Seq(Int) /\ Len(chart) = Days
  <2>1. chart = [k \in 1 .. Days |-> chart[k]]
    BY DEF FillMissingDates
  <2> HIDE DEF chart
  <2> QED BY <1>1, <1>3, <2>1
<1> HIDE DEF chart, first
<1>5. SumsOf(chart)[0] = 0 /\ \A k \in 1 .. Days : SumsOf(chart)[k] = SumsOf(chart)[k - 1] + chart[k]
  BY <1>4, SumsOfSteps
<1>6. 0 \in T
  <2>1. Until(0) = {}
    BY <1>1 DEF CallsWithin
  <2> QED BY <1>5, <2>1, FS_EmptySet
<1>7. ASSUME NEW k \in Nat, k \in T PROVE k + 1 \in T
  <2> SUFFICES ASSUME k + 1 <= Days PROVE SumsOf(chart)[k + 1] = Cardinality(Until(k + 1))
    OBVIOUS
  <2>1. k + 1 \in 1 .. Days /\ k <= Days /\ (k + 1) - 1 = k /\ first + (k + 1) \in Int
    BY <1>1
  <2>2. SumsOf(chart)[k + 1] = SumsOf(chart)[k] + chart[k + 1] /\ SumsOf(chart)[k] = Cardinality(Until(k))
    BY <1>5, <1>7, <2>1
  <2>3. chart[k + 1] = Cardinality(CallsOn(m, first + (k + 1)))
    BY <1>3, <2>1
  <2>4. IsFiniteSet(Until(k)) /\ IsFiniteSet(CallsOn(m, first + (k + 1)))
    BY <1>2, <2>1, CallsAreFinite DEF CallsWithin
  <2>5. /\ Until(k + 1) = Until(k) \cup CallsOn(m, first + (k + 1))
        /\ Until(k) \cap CallsOn(m, first + (k + 1)) = {}
    BY <1>1, <2>1 DEF CallsWithin, CallsOn
  <2> HIDE DEF Until
  <2> QED BY <2>2, <2>3, <2>4, <2>5, DisjointSum
<1>8. Days \in T
  <2> HIDE DEF T
  <2> QED BY <1>1, <1>6, <1>7, NatSetInduction
<1>9. first + Days = m.day
  BY <1>1 DEF first
<1> QED BY <1>1, <1>4, <1>8, <1>9 DEF Total, chart, first

(* The number of calls counts one day more.                                 *)
LEMMA ChartOf ==
  ASSUME NEW m, PastCalls(m)
  PROVE  TotalCalls(m) = Total(FillMissingDates(DailyStats(m), m.day))
                           + Cardinality(CallsOn(m, m.day - Days))
<1> DEFINE shown == CallsWithin(m, m.day - Days + 1, m.day)
           more  == CallsOn(m, m.day - Days)
<1>1. /\ m.day \in Int /\ Days \in Nat \ {0}
      /\ \A i \in 1 .. Len(m.calls) : m.calls[i].day \in Int /\ m.calls[i].day <= m.day
  BY DaysArePast
<1>2. Recent(m) = shown \cup more /\ shown \cap more = {}
  <2>1. \A i \in 1 .. Len(m.calls) :
           m.calls[i].day >= m.day - Days
             <=> m.calls[i].day \in m.day - Days + 1 .. m.day \/ m.calls[i].day = m.day - Days
    BY <1>1
  <2>2. m.day - Days \notin m.day - Days + 1 .. m.day
    BY <1>1
  <2>3. Recent(m) = shown \cup more
    BY <2>1 DEF Recent, CallsWithin, CallsOn
  <2>4. shown \cap more = {}
    BY <2>2 DEF CallsWithin, CallsOn
  <2> QED BY <2>3, <2>4
<1>3. IsFiniteSet(shown) /\ IsFiniteSet(more)
  BY CallsAreFinite DEF CallsWithin, CallsOn
<1> HIDE DEF shown, more
<1>4. TotalCalls(m) = Cardinality(shown) + Cardinality(more)
  BY <1>2, <1>3, DisjointSum DEF TotalCalls
<1> QED BY <1>4, BarsAddUp DEF shown, more


(* The moments of the page, as they follow from each other.                 *)
LEMMA MomentsUntilDef ==
  ASSUME NEW begin, NEW moves, Len(moves) \in Nat, NEW r
  PROVE  MomentsUntil(begin, moves, r) =
           [i \in 0 .. Len(moves) |->
              IF i = 0 THEN begin
              ELSE IF moves[i].before <= r THEN Moved(MomentsUntil(begin, moves, r)[i - 1], moves[i])
              ELSE MomentsUntil(begin, moves, r)[i - 1]]
<1> DEFINE Then(m, i)   == IF moves[i].before <= r THEN Moved(m, moves[i]) ELSE m
           Solves(n, f) == f = [i \in 0 .. n |-> IF i = 0 THEN begin ELSE Then(f[i - 1], i)]
           S == {n \in Nat : \E f : Solves(n, f)}
<1> HIDE DEF Then
<1>1. 0 \in S
  <2>1. Solves(0, [i \in 0 .. 0 |-> begin])
    OBVIOUS
  <2> QED BY <2>1
<1>2. ASSUME NEW n \in Nat, n \in S PROVE n + 1 \in S
  <2>1. PICK f : Solves(n, f)
    BY <1>2
  <2> DEFINE g == [i \in 0 .. n + 1 |-> IF i <= n THEN f[i] ELSE Then(f[i - 1], i)]
  <2>2. \A i \in 0 .. n + 1 : i # 0 => i - 1 \in 0 .. n /\ g[i - 1] = f[i - 1]
    OBVIOUS
  <2>3. \A i \in 0 .. n : f[i] = IF i = 0 THEN begin ELSE Then(f[i - 1], i)
    BY <2>1
  <2>4. \A i \in 0 .. n + 1 : g[i] = IF i = 0 THEN begin ELSE Then(g[i - 1], i)
    BY <2>2, <2>3
  <2>5. g = [i \in 0 .. n + 1 |-> g[i]]
    OBVIOUS
  <2>6. Solves(n + 1, g)
    <3> HIDE DEF g
    <3>1. [i \in 0 .. n + 1 |-> g[i]]
            = [i \in 0 .. n + 1 |-> IF i = 0 THEN begin ELSE Then(g[i - 1], i)]
      BY <2>4
    <3> QED BY <2>5, <3>1
  <2>7. \E h : Solves(n + 1, h)
    <3> HIDE DEF g, Solves, S
    <3> QED BY <2>6, Zenon
  <2> HIDE DEF Solves
  <2> QED BY <2>7
<1>3. Len(moves) \in S
  <2> HIDE DEF S
  <2> QED BY <1>1, <1>2, NatSetInduction
<1>4. \E f : Solves(Len(moves), f)
  BY <1>3
<1> QED BY <1>4, Zenon DEF MomentsUntil, Then

AllMoments == [users : SUBSET Users, bound : SUBSET Users, day : Int,
               calls : Seq([day : Int, user : Users])]
AllMoves   == [kind : {"calls", "midnight"}, user : Users, before : Reads]

(* Whatever happens, no call is of a day to come.                           *)
LEMMA MovedKeeps ==
  ASSUME NEW m \in AllMoments, PastCalls(m), NEW move \in AllMoves
  PROVE  Moved(m, move) \in AllMoments /\ PastCalls(Moved(m, move))
<1> DEFINE calls == m.calls
           n     == Moved(m, move)
<1>1. /\ m.users \in SUBSET Users /\ m.bound \in SUBSET Users /\ m.day \in Int
      /\ calls \in Seq([day : Int, user : Users]) /\ move.user \in Users
      /\ move.kind \in {"calls", "midnight"}
  BY DEF AllMoments, AllMoves
<1>2. Len(calls) \in Nat /\ \A i \in 1 .. Len(calls) : calls[i].day \in Int /\ calls[i].day <= m.day
  BY DaysArePast
<1>3. CASE move.kind = "calls"
  <2> DEFINE more == Append(calls, [day |-> m.day, user |-> move.user])
  <2>1. n = [m EXCEPT !.users = @ \cup {move.user}, !.calls = more]
    BY <1>3 DEF Moved, Calls
  <2>2. [day |-> m.day, user |-> move.user] \in [day : Int, user : Users]
    BY <1>1
  <2>3. /\ more \in Seq([day : Int, user : Users]) /\ Len(more) = Len(calls) + 1
        /\ \A i \in 1 .. Len(calls) : more[i] = calls[i]
        /\ more[Len(calls) + 1] = [day |-> m.day, user |-> move.user]
    BY <1>1, <2>2, AppendProperties
  <2> HIDE DEF more, calls, n
  <2>4. n \in AllMoments /\ n.day = m.day /\ n.calls = more
    BY <1>1, <2>1, <2>3 DEF AllMoments
  <2>5. \A i \in 1 .. Len(more) : more[i].day <= m.day
    <3> SUFFICES ASSUME NEW i \in 1 .. Len(more) PROVE more[i].day <= m.day
      OBVIOUS
    <3>1. CASE i \in 1 .. Len(calls)
      BY <1>2, <2>3, <3>1
    <3>2. CASE i = Len(calls) + 1
      BY <1>1, <2>3, <3>2
    <3> QED BY <1>2, <2>3, <3>1, <3>2
  <2> QED BY <1>1, <2>3, <2>4, <2>5 DEF PastCalls, n
<1>4. CASE move.kind = "midnight"
  <2>1. n = [m EXCEPT !.day = @ + 1]
    BY <1>4 DEF Moved, Midnight
  <2> HIDE DEF n
  <2>2. n \in AllMoments /\ n.day = m.day + 1 /\ n.calls = calls
    <3>1. /\ m \in [users : SUBSET Users, bound : SUBSET Users, day : Int,
                      calls : Seq([day : Int, user : Users])]
          /\ m.day + 1 \in Int
      BY DEF AllMoments
    <3>2. n.day = m.day + 1 /\ n.calls = m.calls
      BY <2>1, <3>1
    <3>3. n \in [users : SUBSET Users, bound : SUBSET Users, day : Int,
                 calls : Seq([day : Int, user : Users])]
      BY <2>1, <3>1
    <3> QED BY <3>2, <3>3 DEF AllMoments
  <2> HIDE DEF calls
  <2>3. \A i \in 1 .. Len(calls) : calls[i].day <= m.day + 1
    BY <1>1, <1>2
  <2> QED BY <1>1, <2>2, <2>3 DEF PastCalls, n
<1> QED BY <1>1, <1>3, <1>4

LEMMA MomentsAre ==
  ASSUME NEW begin \in AllMoments, PastCalls(begin), NEW moves \in Seq(AllMoves), NEW r
  PROVE  MomentAt(begin, moves, r) \in AllMoments /\ PastCalls(MomentAt(begin, moves, r))
<1> DEFINE at == MomentsUntil(begin, moves, r)
           T  == {i \in Nat : i <= Len(moves) => at[i] \in AllMoments /\ PastCalls(at[i])}
<1>1. Len(moves) \in Nat /\ \A i \in 1 .. Len(moves) : moves[i] \in AllMoves
  BY LenProperties
<1>2. at = [i \in 0 .. Len(moves) |->
              IF i = 0 THEN begin
              ELSE IF moves[i].before <= r THEN Moved(at[i - 1], moves[i]) ELSE at[i - 1]]
  <2> HIDE DEF at
  <2> QED BY <1>1, MomentsUntilDef DEF at
<1> HIDE DEF at
<1>3. 0 \in T
  BY <1>1, <1>2
<1>4. ASSUME NEW i \in Nat, i \in T PROVE i + 1 \in T
  <2> SUFFICES ASSUME i + 1 <= Len(moves) PROVE at[i + 1] \in AllMoments /\ PastCalls(at[i + 1])
    OBVIOUS
  <2>1. i + 1 \in 0 .. Len(moves) /\ i + 1 \in 1 .. Len(moves) /\ i + 1 # 0 /\ (i + 1) - 1 = i
        /\ i <= Len(moves)
    BY <1>1
  <2>2. at[i + 1] = IF moves[i + 1].before <= r THEN Moved(at[i], moves[i + 1]) ELSE at[i]
    BY <1>2, <2>1
  <2>3. at[i] \in AllMoments /\ PastCalls(at[i]) /\ moves[i + 1] \in AllMoves
    BY <1>1, <1>4, <2>1
  <2>4. Moved(at[i], moves[i + 1]) \in AllMoments /\ PastCalls(Moved(at[i], moves[i + 1]))
    BY <2>3, MovedKeeps
  <2> QED BY <2>2, <2>3, <2>4, Zenon
<1>5. Len(moves) \in T
  <2> HIDE DEF T
  <2> QED BY <1>1, <1>3, <1>4, NatSetInduction
<1> QED BY <1>1, <1>5 DEF MomentAt, at

(* Two reads with nothing between them see the same.                        *)
LEMMA MomentsAgree ==
  ASSUME NEW begin, NEW moves, Len(moves) \in Nat, NEW r, NEW q,
         \A i \in 1 .. Len(moves) : moves[i].before <= r <=> moves[i].before <= q
  PROVE  MomentAt(begin, moves, r) = MomentAt(begin, moves, q)
<1> DEFINE at == MomentsUntil(begin, moves, r)
           to == MomentsUntil(begin, moves, q)
           T  == {i \in Nat : i <= Len(moves) => at[i] = to[i]}
<1>1. at = [i \in 0 .. Len(moves) |->
              IF i = 0 THEN begin
              ELSE IF moves[i].before <= r THEN Moved(at[i - 1], moves[i]) ELSE at[i - 1]]
  <2> HIDE DEF at
  <2> QED BY MomentsUntilDef DEF at
<1>2. to = [i \in 0 .. Len(moves) |->
              IF i = 0 THEN begin
              ELSE IF moves[i].before <= q THEN Moved(to[i - 1], moves[i]) ELSE to[i - 1]]
  <2> HIDE DEF to
  <2> QED BY MomentsUntilDef DEF to
<1> HIDE DEF at, to
<1>3. 0 \in T
  BY <1>1, <1>2
<1>4. ASSUME NEW i \in Nat, i \in T PROVE i + 1 \in T
  <2> SUFFICES ASSUME i + 1 <= Len(moves) PROVE at[i + 1] = to[i + 1]
    OBVIOUS
  <2>1. i + 1 \in 0 .. Len(moves) /\ i + 1 \in 1 .. Len(moves) /\ i + 1 # 0 /\ (i + 1) - 1 = i
        /\ i <= Len(moves)
    OBVIOUS
  <2>2. at[i + 1] = IF moves[i + 1].before <= r THEN Moved(at[i], moves[i + 1]) ELSE at[i]
    BY <1>1, <2>1
  <2>3. to[i + 1] = IF moves[i + 1].before <= q THEN Moved(to[i], moves[i + 1]) ELSE to[i]
    BY <1>2, <2>1
  <2>4. at[i] = to[i] /\ (moves[i + 1].before <= r <=> moves[i + 1].before <= q)
    BY <1>4, <2>1
  <2> QED BY <2>2, <2>3, <2>4, Zenon
<1>5. Len(moves) \in T
  <2> HIDE DEF T
  <2> QED BY <1>3, <1>4, NatSetInduction
<1> QED BY <1>5 DEF MomentAt, at, to


-------------------------------------------------------------------------------
(* The calls                                                               *)

LEMMA BoundedSequences ==
  ASSUME NEW S, NEW n \in Nat
  PROVE  SeqsUpTo(S, n) \subseteq Seq(S)
<1>1. \A k \in Nat : [1 .. k -> S] \subseteq Seq(S)
  OBVIOUS
<1> QED BY <1>1 DEF SeqsUpTo

LEMMA WiderSequences ==
  ASSUME NEW S, NEW T, S \subseteq T, NEW s \in Seq(S)
  PROVE  s \in Seq(T)
OBVIOUS

AllSamples == [name : Names, d : Durations, t : Nat]

(* What the model of the calls gives to the functions of the metrics.       *)
MetricsInputs ==
  /\ call.fn = "stats" =>
       /\ call.start \in AllMoments /\ PastCalls(call.start)
       /\ call.moves \in Seq(AllMoves)
  /\ call.fn = "window" =>
       /\ call.samples \in Seq(AllSamples)
       /\ \A i, j \in 1 .. Len(call.samples) : i <= j => call.samples[i].t <= call.samples[j].t

LEMMA PastsAre ==
  ASSUME NEW p \in Pasts
  PROVE  p \in Seq(Int) /\ Today \in Int /\ \A i \in 1 .. Len(p) : p[i] <= Today
<1>1. Today \in Int /\ Days \in Nat \ {0} /\ MaxPast \in Nat
  BY InputAssumption, DaysAssumption
<1>2. CASE p \in SeqsUpTo(Today - Days - 1 .. Today, MaxPast)
  <2> DEFINE S == Today - Days - 1 .. Today
  <2>1. p \in Seq(S)
    BY <1>1, <1>2, BoundedSequences
  <2>2. \A i \in 1 .. Len(p) : p[i] \in S
    <3> HIDE DEF S
    <3> QED BY <2>1, LenProperties
  <2>3. S \subseteq Int
    BY <1>1
  <2>4. p \in Seq(Int)
    <3> HIDE DEF S
    <3> QED BY <2>1, <2>3, WiderSequences
  <2> QED BY <1>1, <2>2, <2>4
<1>3. CASE p = [i \in 1 .. Days + 2 |-> Today - Days - 2 + i]
  <2>1. Len(p) = Days + 2 /\ p \in Seq(Int)
    BY <1>1, <1>3
  <2>2. \A i \in 1 .. Days + 2 : p[i] <= Today
    BY <1>1, <1>3
  <2> QED BY <1>1, <2>1, <2>2
<1> QED BY <1>2, <1>3 DEF Pasts

LEMMA StatsCalled == CallStats => MetricsInputs'
<1> SUFFICES ASSUME CallStats PROVE MetricsInputs'
  OBVIOUS
<1>1. PICK users \in SUBSET Users, past \in Pasts, moves \in SeqsUpTo(AllMoves, MaxMoves) :
        \E bound \in SUBSET users, u \in users :
          call' = [fn |-> "stats", moves |-> moves,
                   start |-> [users |-> users, bound |-> bound, day |-> Today,
                              calls |-> [i \in 1 .. Len(past) |-> [day |-> past[i], user |-> u]]]]
  BY Zenon DEF CallStats, AllMoves
<1>2. PICK bound \in SUBSET users, u \in users :
        call' = [fn |-> "stats", moves |-> moves,
                 start |-> [users |-> users, bound |-> bound, day |-> Today,
                            calls |-> [i \in 1 .. Len(past) |-> [day |-> past[i], user |-> u]]]]
  BY <1>1
<1> DEFINE calls == [i \in 1 .. Len(past) |-> [day |-> past[i], user |-> u]]
           begin == [users |-> users, bound |-> bound, day |-> Today, calls |-> calls]
<1>3. past \in Seq(Int) /\ Today \in Int /\ \A i \in 1 .. Len(past) : past[i] <= Today
  BY PastsAre
<1>4. Len(past) \in Nat /\ \A i \in 1 .. Len(past) : past[i] \in Int
  BY <1>3, LenProperties
<1>5. calls \in Seq([day : Int, user : Users]) /\ Len(calls) = Len(past)
  BY <1>4
<1>6. \A i \in 1 .. Len(calls) : calls[i].day <= Today
  BY <1>3, <1>5
<1> HIDE DEF calls
<1>7. begin \in AllMoments /\ begin.day = Today /\ begin.calls = calls
  BY <1>3, <1>5 DEF AllMoments
<1>8. PastCalls(begin)
  BY <1>3, <1>5, <1>6, <1>7 DEF PastCalls
<1>9. moves \in Seq(AllMoves)
  BY InputAssumption, BoundedSequences
<1>10. call'.fn = "stats" /\ call'.start = begin /\ call'.moves = moves
  BY <1>2 DEF calls
<1> HIDE DEF begin
<1> QED BY <1>7, <1>8, <1>9, <1>10 DEF MetricsInputs

LEMMA SecondsGrow ==
  ASSUME NEW a \in Nat, NEW b \in Nat, a <= b, NEW r \in Nat \ {0}
  PROVE  a \div r \in Nat /\ a \div r <= b \div r
<1> DEFINE p == a \div r
           q == b \div r
<1>1. p \in Nat /\ q \in Nat /\ r * p <= a /\ b < r * q + r
  OBVIOUS
<1> HIDE DEF p, q
<1>2. ASSUME p > q PROVE FALSE
  <2>1. r * p >= r * (q + 1)
    BY <1>1, <1>2
  <2>2. r * (q + 1) = r * q + r /\ r * q \in Nat /\ r * p \in Nat
    BY <1>1
  <2> QED BY <1>1, <2>1, <2>2
<1> QED BY <1>1, <1>2 DEF p, q

LEMMA WindowCalled == CallWindow => MetricsInputs'
<1> SUFFICES ASSUME CallWindow PROVE MetricsInputs'
  OBVIOUS
<1>1. PICK s \in SeqsUpTo([name : Names, d : Durations], MaxRows), rate \in Rates :
        call' = [fn |-> "window",
                 samples |-> [i \in 1 .. Len(s) |->
                               [name |-> s[i].name, d |-> s[i].d, t |-> (i - 1) \div rate]]]
  BY DEF CallWindow
<1> DEFINE samples == [i \in 1 .. Len(s) |->
                        [name |-> s[i].name, d |-> s[i].d, t |-> (i - 1) \div rate]]
           S == [name : Names, d : Durations]
<1>2. rate \in Nat \ {0} /\ MaxRows \in Nat
  BY InputAssumption
<1>3. s \in Seq(S)
  BY <1>2, BoundedSequences
<1>4. Len(s) \in Nat /\ \A i \in 1 .. Len(s) : s[i].name \in Names /\ s[i].d \in Durations
  <2>1. Len(s) \in Nat /\ \A i \in 1 .. Len(s) : s[i] \in S
    <3> HIDE DEF S
    <3> QED BY <1>3, LenProperties
  <2> QED BY <2>1
<1>5. \A i, j \in 1 .. Len(s) : i <= j =>
        (i - 1) \div rate \in Nat /\ (i - 1) \div rate <= (j - 1) \div rate
  <2> SUFFICES ASSUME NEW i \in 1 .. Len(s), NEW j \in 1 .. Len(s), i <= j
               PROVE  (i - 1) \div rate \in Nat /\ (i - 1) \div rate <= (j - 1) \div rate
    OBVIOUS
  <2>1. i - 1 \in Nat /\ j - 1 \in Nat /\ i - 1 <= j - 1
    BY <1>4
  <2> QED BY <1>2, <2>1, SecondsGrow
<1>6. \A i \in 1 .. Len(s) : samples[i] \in AllSamples /\ samples[i].t = (i - 1) \div rate
  BY <1>4, <1>5 DEF AllSamples
<1>7. samples \in Seq(AllSamples) /\ Len(samples) = Len(s)
  BY <1>4, <1>6
<1> HIDE DEF samples
<1>8. \A i, j \in 1 .. Len(samples) : i <= j => samples[i].t <= samples[j].t
  BY <1>5, <1>6, <1>7
<1>9. call'.fn = "window" /\ call'.samples = samples
  BY <1>1 DEF samples
<1> QED BY <1>7, <1>8, <1>9 DEF MetricsInputs

LEMMA MetricsInputsStep == MetricsInputs /\ [CallNext]_call => MetricsInputs'
<1> SUFFICES ASSUME MetricsInputs, [CallNext]_call PROVE MetricsInputs'
  OBVIOUS
<1>1. CASE CallFit \/ CallEval \/ CallEvalLong \/ CallRandom \/ CallRoute
  <2>1. CallFit => call'.fn = "fit"
    BY DEF CallFit
  <2>2. CallEval => call'.fn = "eval"
    BY DEF CallEval
  <2>3. CallEvalLong => call'.fn = "eval"
    <3>1. CallEvalLong => \E s : call' = [fn |-> "eval", s |-> s]
      BY Zenon DEF CallEvalLong
    <3> QED BY <3>1
  <2>4. CallRandom => call'.fn = "random"
    BY DEF CallRandom
  <2>5. ASSUME CallRoute PROVE call'.fn = "route"
    <3>1. PICK ws \in SetsUpTo(Words, MaxGroups), fs \in SetsUpTo(Finds, MaxGroups),
               length \in Lengths, o \in Openings,
               status \in {"unbound", "waiting_email_code", "bound"} :
            call' = [fn |-> "route", status |-> status,
                     m |-> [length |-> length, opening |-> o, finds |-> fs,
                            words |-> ws
                              \cup (IF o \in {"save:", "save ", "saveOther"} THEN {"note"} ELSE {})
                              \cup (IF o \in {"bind", "bindLatin"} THEN {o} ELSE {})]]
      BY <2>5, Zenon DEF CallRoute
    <3>2. \E x, m : call' = [fn |-> "route", status |-> x, m |-> m]
      BY <3>1, Zenon
    <3> QED BY <3>2
  <2> QED BY <1>1, <2>1, <2>2, <2>3, <2>4, <2>5 DEF MetricsInputs
<1>2. CASE UNCHANGED call
  BY <1>2 DEF MetricsInputs
<1> QED BY <1>1, <1>2, StatsCalled, WindowCalled DEF CallNext

LEMMA MetricsInputsInvariant == CallSpec => []MetricsInputs
<1>1. CallInit => MetricsInputs
  BY DEF CallInit, MetricsInputs
<1> QED BY <1>1, MetricsInputsStep, PTL DEF CallSpec

(* The number above the chart exceeds the sum of its bars by the calls of   *)
(* the day before the window, whatever the table holds and whatever happened *)
(* before the page read it.                                                 *)
THEOREM ChartLacksOneDay == CallSpec => []ChartIsTotalButOneDay
<1>1. MetricsInputs => ChartIsTotalButOneDay
  <2> SUFFICES ASSUME MetricsInputs, call.fn = "stats",
                      \A i \in 1 .. Len(call.moves) : call.moves[i].before \notin 4 .. 6
               PROVE  ChartIsTotalButOneDay
    BY DEF ChartIsTotalButOneDay
  <2> DEFINE m == Moment(3)
  <2>1. /\ call.start \in AllMoments /\ PastCalls(call.start)
        /\ call.moves \in Seq(AllMoves)
    BY DEF MetricsInputs
  <2>2. Len(call.moves) \in Nat /\ \A i \in 1 .. Len(call.moves) : call.moves[i].before \in 1 .. 6
    <3>1. Len(call.moves) \in Nat /\ \A i \in 1 .. Len(call.moves) : call.moves[i] \in AllMoves
      BY <2>1, LenProperties
    <3> QED BY <3>1 DEF AllMoves, Reads
  <2>3. \A i \in 1 .. Len(call.moves) :
          call.moves[i].before <= 3 /\ call.moves[i].before <= 5 /\ call.moves[i].before <= 6
    BY <2>2
  <2>4. Moment(5) = m
    BY <2>2, <2>3, MomentsAgree DEF Moment
  <2>5. Moment(6) = m
    BY <2>2, <2>3, MomentsAgree DEF Moment
  <2>6. PastCalls(m)
    BY <2>1, MomentsAre DEF Moment
  <2> DEFINE at == [r \in Reads |-> Moment(r)]
  <2>7. at[3] = m /\ at[5] = Moment(5) /\ at[6] = Moment(6)
    BY DEF Reads
  <2> HIDE DEF at, m
  <2>8. GetStats(at).calls = TotalCalls(m) /\ GetStats(at).daily = FillMissingDates(DailyStats(m), m.day)
    BY <2>4, <2>5, <2>7 DEF GetStats
  <2>9. Page = GetStats(at)
    BY DEF Page, at
  <2>10. TotalCalls(m) = Total(FillMissingDates(DailyStats(m), m.day))
                           + Cardinality(CallsOn(m, m.day - Days))
    BY <2>6, ChartOf
  <2>11. Page.calls = ChartSum(Page) + Cardinality(CallsOn(m, m.day - Days))
    BY <2>8, <2>9, <2>10 DEF ChartSum
  <2> QED BY <2>11 DEF ChartIsTotalButOneDay, CallsOn, m
<1> QED BY <1>1, MetricsInputsInvariant, PTL


-------------------------------------------------------------------------------
(* The window of a metric                                                  *)

(* s is the end of t.                                                       *)
Ends(s, t) == Len(s) <= Len(t) /\ \A i \in 1 .. Len(s) : s[i] = t[Len(t) - Len(s) + i]

LEMMA EndsIsSuffix ==
  ASSUME NEW S, NEW s \in Seq(S), NEW t \in Seq(S), Ends(s, t)
  PROVE  IsSuffix(s, t)
<1> DEFINE r == Reverse(s)
           q == Reverse(t)
           n == Len(s)
<1>1. /\ r \in Seq(S) /\ Len(r) = n /\ \A i \in 1 .. n : r[i] = s[n - i + 1]
      /\ q \in Seq(S) /\ Len(q) = Len(t) /\ \A i \in 1 .. Len(t) : q[i] = t[Len(t) - i + 1]
  BY ReverseProperties
<1>2. n \in Nat /\ Len(t) \in Nat /\ n <= Len(t) /\ \A i \in 1 .. n : s[i] = t[Len(t) - n + i]
  BY LenProperties DEF Ends
<1> HIDE DEF r, q, n
<1>3. \A i \in 1 .. n : r[i] = q[i]
  <2> SUFFICES ASSUME NEW i \in 1 .. n PROVE r[i] = q[i]
    OBVIOUS
  <2>1. n - i + 1 \in 1 .. n /\ i \in 1 .. Len(t) /\ Len(t) - n + (n - i + 1) = Len(t) - i + 1
    BY <1>2
  <2>2. s[n - i + 1] = t[Len(t) - n + (n - i + 1)]
    BY <1>2, <2>1
  <2>3. r[i] = s[n - i + 1] /\ q[i] = t[Len(t) - i + 1]
    BY <1>1, <2>1
  <2> QED BY <2>1, <2>2, <2>3
<1>4. SubSeq(r, 1, n) = SubSeq(q, 1, n)
  <2>1. /\ \A i \in 1 .. n : r[i] \in S /\ q[i] \in S
        /\ n - 1 + 1 = n /\ 1 \in Int /\ n \in Int /\ \A i \in 1 .. n : 1 + i - 1 = i
    BY <1>1, <1>2, LenProperties
  <2>2. /\ SubSeq(r, 1, n) \in Seq(S) /\ Len(SubSeq(r, 1, n)) = IF 1 <= n THEN n - 1 + 1 ELSE 0
        /\ \A i \in 1 .. n - 1 + 1 : SubSeq(r, 1, n)[i] = r[1 + i - 1]
    BY <2>1, SubSeqProperties
  <2>3. /\ SubSeq(q, 1, n) \in Seq(S) /\ Len(SubSeq(q, 1, n)) = IF 1 <= n THEN n - 1 + 1 ELSE 0
        /\ \A i \in 1 .. n - 1 + 1 : SubSeq(q, 1, n)[i] = q[1 + i - 1]
    BY <2>1, SubSeqProperties
  <2>4. Len(SubSeq(r, 1, n)) = n /\ Len(SubSeq(q, 1, n)) = n
    BY <1>2, <2>2, <2>3
  <2>5. \A i \in 1 .. n : SubSeq(r, 1, n)[i] = r[i] /\ SubSeq(q, 1, n)[i] = q[i]
    BY <2>1, <2>2, <2>3
  <2> QED BY <1>3, <2>2, <2>3, <2>4, <2>5, SeqEqual
<1> QED BY <1>1, <1>2, <1>4 DEF IsSuffix, IsPrefix, r, q, n

(* One more duration.                                                       *)
LEMMA RecordDurationIs ==
  ASSUME NEW S, NEW w \in Seq(S), NEW d \in S,
         NEW r, r = RecordDuration(w, d)
  PROVE  /\ r \in Seq(S) /\ Len(r) = IF Len(w) >= MaxSamples THEN Len(w) ELSE Len(w) + 1
         /\ r[Len(r)] = d
         /\ \A i \in 1 .. Len(r) - 1 : r[i] = w[Len(w) + 1 - Len(r) + i]
<1>1. Len(w) \in Nat /\ MaxSamples \in Nat \ {0}
  BY LenProperties, WindowAssumption
<1>2. CASE Len(w) >= MaxSamples
  <2> DEFINE v == Tail(w)
  <2>1. w # <<>>
    BY <1>1, <1>2, EmptySeq
  <2>2. v \in Seq(S) /\ Len(v) = Len(w) - 1 /\ \A i \in 1 .. Len(v) : v[i] = w[i + 1]
    BY <2>1, HeadTailProperties
  <2>3. r = Append(v, d)
    BY <1>2 DEF RecordDuration
  <2> HIDE DEF v
  <2>4. /\ r \in Seq(S) /\ Len(r) = Len(v) + 1 /\ r[Len(v) + 1] = d
        /\ \A i \in 1 .. Len(v) : r[i] = v[i]
    BY <2>2, <2>3, AppendProperties
  <2>5. Len(r) = Len(w) /\ Len(v) + 1 = Len(r) /\ Len(v) = Len(r) - 1
        /\ \A i \in 1 .. Len(v) : i + 1 = Len(w) + 1 - Len(r) + i
    BY <1>1, <2>2, <2>4
  <2>6. r[Len(r)] = d
    BY <2>4, <2>5
  <2>7. \A i \in 1 .. Len(r) - 1 : r[i] = w[Len(w) + 1 - Len(r) + i]
    BY <2>2, <2>4, <2>5
  <2> QED BY <1>2, <2>4, <2>5, <2>6, <2>7
<1>3. CASE ~(Len(w) >= MaxSamples)
  <2>1. r = Append(w, d)
    BY <1>3 DEF RecordDuration
  <2>2. /\ r \in Seq(S) /\ Len(r) = Len(w) + 1 /\ r[Len(w) + 1] = d
        /\ \A i \in 1 .. Len(w) : r[i] = w[i]
    BY <2>1, AppendProperties
  <2>3. Len(w) = Len(r) - 1 /\ \A i \in 1 .. Len(w) : i = Len(w) + 1 - Len(r) + i
    BY <1>1, <2>2
  <2>4. \A i \in 1 .. Len(r) - 1 : r[i] = w[Len(w) + 1 - Len(r) + i]
    BY <2>2, <2>3
  <2> QED BY <1>3, <2>2, <2>4
<1> QED BY <1>2, <1>3

(* A window that is the end of another stays it.                            *)
LEMMA RecordKeepsEnd ==
  ASSUME NEW S, NEW s \in Seq(S), NEW t \in Seq(S), NEW d \in S,
         Ends(s, t), Len(t) <= MaxSamples
  PROVE  Ends(RecordDuration(s, d), RecordDuration(t, d))
<1> DEFINE r == RecordDuration(s, d)
           q == RecordDuration(t, d)
<1>1. /\ Len(s) \in Nat /\ Len(t) \in Nat /\ MaxSamples \in Nat \ {0} /\ Len(s) <= Len(t)
      /\ \A i \in 1 .. Len(s) : s[i] = t[Len(t) - Len(s) + i]
  BY LenProperties, WindowAssumption DEF Ends
<1>2. /\ Len(r) = (IF Len(s) >= MaxSamples THEN Len(s) ELSE Len(s) + 1) /\ r[Len(r)] = d
      /\ \A i \in 1 .. Len(r) - 1 : r[i] = s[Len(s) + 1 - Len(r) + i]
  BY RecordDurationIs
<1>3. /\ Len(q) = (IF Len(t) >= MaxSamples THEN Len(t) ELSE Len(t) + 1) /\ q[Len(q)] = d
      /\ \A i \in 1 .. Len(q) - 1 : q[i] = t[Len(t) + 1 - Len(q) + i]
  BY RecordDurationIs
<1> HIDE DEF r, q
<1>4. /\ Len(r) \in Nat \ {0} /\ Len(q) \in Nat \ {0} /\ Len(r) <= Len(q)
      /\ Len(s) + 1 - Len(r) >= 0 /\ Len(t) + 1 - Len(q) >= 0
  BY <1>1, <1>2, <1>3
<1>5. ASSUME NEW i \in 1 .. Len(r) PROVE r[i] = q[Len(q) - Len(r) + i]
  <2>1. CASE i = Len(r)
    <3>1. Len(q) - Len(r) + i = Len(q)
      BY <1>4, <2>1
    <3> QED BY <1>2, <1>3, <2>1, <3>1
  <2>2. CASE i # Len(r)
    <3> DEFINE j == Len(s) + 1 - Len(r) + i
               k == Len(q) - Len(r) + i
    <3>1. /\ i \in 1 .. Len(r) - 1 /\ j \in 1 .. Len(s) /\ k \in 1 .. Len(q) - 1
          /\ Len(t) - Len(s) + j = Len(t) + 1 - Len(q) + k
      BY <1>1, <1>4, <2>2
    <3> HIDE DEF j, k
    <3>2. r[i] = s[j]
      BY <1>2, <3>1 DEF j
    <3>3. s[j] = t[Len(t) - Len(s) + j]
      BY <1>1, <3>1
    <3>4. q[k] = t[Len(t) + 1 - Len(q) + k]
      BY <1>3, <3>1
    <3> QED BY <3>1, <3>2, <3>3, <3>4 DEF k
  <2> QED BY <2>1, <2>2
<1> QED BY <1>4, <1>5 DEF Ends, r, q


LEMMA WindowsOfDef ==
  ASSUME NEW samples, NEW name, Len(samples) \in Nat
  PROVE  WindowsOf(samples, name) =
           [i \in 0 .. Len(samples) |->
              IF i = 0 THEN <<>>
              ELSE IF samples[i].name = name
                THEN RecordDuration(WindowsOf(samples, name)[i - 1], samples[i].d)
              ELSE WindowsOf(samples, name)[i - 1]]
<1> DEFINE Then(w, i)   == IF samples[i].name = name THEN RecordDuration(w, samples[i].d) ELSE w
           Solves(n, f) == f = [i \in 0 .. n |-> IF i = 0 THEN <<>> ELSE Then(f[i - 1], i)]
           S == {n \in Nat : \E f : Solves(n, f)}
<1> HIDE DEF Then
<1>1. 0 \in S
  <2>1. Solves(0, [i \in 0 .. 0 |-> <<>>])
    OBVIOUS
  <2> QED BY <2>1
<1>2. ASSUME NEW n \in Nat, n \in S PROVE n + 1 \in S
  <2>1. PICK f : Solves(n, f)
    BY <1>2
  <2> DEFINE g == [i \in 0 .. n + 1 |-> IF i <= n THEN f[i] ELSE Then(f[i - 1], i)]
  <2>2. \A i \in 0 .. n + 1 : i # 0 => i - 1 \in 0 .. n /\ g[i - 1] = f[i - 1]
    OBVIOUS
  <2>3. \A i \in 0 .. n : f[i] = IF i = 0 THEN <<>> ELSE Then(f[i - 1], i)
    BY <2>1
  <2>4. \A i \in 0 .. n + 1 : g[i] = IF i = 0 THEN <<>> ELSE Then(g[i - 1], i)
    BY <2>2, <2>3
  <2>5. g = [i \in 0 .. n + 1 |-> g[i]]
    OBVIOUS
  <2>6. Solves(n + 1, g)
    <3> HIDE DEF g
    <3>1. [i \in 0 .. n + 1 |-> g[i]]
            = [i \in 0 .. n + 1 |-> IF i = 0 THEN <<>> ELSE Then(g[i - 1], i)]
      BY <2>4
    <3> QED BY <2>5, <3>1
  <2>7. \E h : Solves(n + 1, h)
    <3> HIDE DEF g, Solves, S
    <3> QED BY <2>6, Zenon
  <2> HIDE DEF Solves
  <2> QED BY <2>7
<1>3. Len(samples) \in S
  <2> HIDE DEF S
  <2> QED BY <1>1, <1>2, NatSetInduction
<1>4. \E f : Solves(Len(samples), f)
  BY <1>3
<1> QED BY <1>4, Zenon DEF WindowsOf, Then

Named(samples, name, n) == {i \in 1 .. n : samples[i].name = name}

(* The window holds every duration of the metric until it is full.          *)
LEMMA WindowsAre ==
  ASSUME NEW samples \in Seq(AllSamples), NEW name, NEW n \in 0 .. Len(samples)
  PROVE  LET w == WindowsOf(samples, name)[n]
             k == Cardinality(Named(samples, name, n))
         IN  w \in Seq(Durations) /\ k \in Nat /\ Len(w) = IF k <= MaxSamples THEN k ELSE MaxSamples
<1> DEFINE at    == WindowsOf(samples, name)
           in(i) == Cardinality(Named(samples, name, i))
           Good(i) == /\ at[i] \in Seq(Durations) /\ in(i) \in Nat /\ IsFiniteSet(Named(samples, name, i))
                      /\ Len(at[i]) = IF in(i) <= MaxSamples THEN in(i) ELSE MaxSamples
           T == {i \in Nat : i <= Len(samples) => Good(i)}
<1>1. /\ Len(samples) \in Nat /\ MaxSamples \in Nat \ {0}
      /\ \A i \in 1 .. Len(samples) : samples[i] \in AllSamples
  BY LenProperties, WindowAssumption
<1>2. at = [i \in 0 .. Len(samples) |->
              IF i = 0 THEN <<>>
              ELSE IF samples[i].name = name THEN RecordDuration(at[i - 1], samples[i].d)
              ELSE at[i - 1]]
  <2> HIDE DEF at
  <2> QED BY <1>1, WindowsOfDef DEF at
<1> HIDE DEF at
<1>3. 0 \in T
  <2>1. at[0] = <<>>
    BY <1>1, <1>2
  <2>2. Named(samples, name, 0) = {}
    BY DEF Named
  <2>3. at[0] \in Seq(Durations) /\ Len(at[0]) = 0
    BY <2>1
  <2>4. in(0) = 0 /\ IsFiniteSet(Named(samples, name, 0))
    BY <2>2, FS_EmptySet
  <2> QED BY <1>1, <2>3, <2>4
<1>4. ASSUME NEW i \in Nat, i \in T PROVE i + 1 \in T
  <2> SUFFICES ASSUME i + 1 <= Len(samples) PROVE Good(i + 1)
    OBVIOUS
  <2>1. i + 1 \in 0 .. Len(samples) /\ i + 1 \in 1 .. Len(samples) /\ i + 1 # 0 /\ (i + 1) - 1 = i
        /\ i <= Len(samples)
    BY <1>1
  <2>2. Good(i) /\ samples[i + 1].d \in Durations
    BY <1>1, <1>4, <2>1 DEF AllSamples
  <2>3. at[i + 1] = IF samples[i + 1].name = name THEN RecordDuration(at[i], samples[i + 1].d) ELSE at[i]
    BY <1>2, <2>1
  <2>4. CASE samples[i + 1].name = name
    <3>1. Named(samples, name, i + 1) = Named(samples, name, i) \cup {i + 1}
          /\ i + 1 \notin Named(samples, name, i)
      BY <2>4 DEF Named
    <3>2. in(i + 1) = in(i) + 1 /\ IsFiniteSet(Named(samples, name, i + 1))
      <4> HIDE DEF T
      <4> QED BY <2>2, <3>1, FS_AddElement
    <3>3. /\ at[i + 1] \in Seq(Durations)
          /\ Len(at[i + 1]) = IF Len(at[i]) >= MaxSamples THEN Len(at[i]) ELSE Len(at[i]) + 1
      <4> DEFINE w == at[i]
                 d == samples[i + 1].d
                 r == at[i + 1]
      <4>1. w \in Seq(Durations) /\ d \in Durations /\ r = RecordDuration(w, d)
        BY <2>2, <2>3, <2>4
      <4> HIDE DEF w, d, r
      <4>2. r \in Seq(Durations) /\ Len(r) = IF Len(w) >= MaxSamples THEN Len(w) ELSE Len(w) + 1
        BY <4>1, RecordDurationIs
      <4> QED BY <4>2 DEF w, r
    <3> QED BY <1>1, <2>2, <3>2, <3>3
  <2>5. CASE samples[i + 1].name # name
    <3>1. Named(samples, name, i + 1) = Named(samples, name, i)
      BY <2>1, <2>5 DEF Named
    <3> QED BY <2>2, <2>3, <2>5, <3>1
  <2> QED BY <2>4, <2>5
<1>5. n \in T
  <2>1. n \in Nat
    BY <1>1
  <2> HIDE DEF T
  <2> QED BY <1>3, <1>4, <2>1, NatSetInduction
<1>6. Good(n)
  BY <1>1, <1>5
<1> QED BY <1>6 DEF at


(* The rows that a restart reads: places in the table, each once.           *)
RowsRead(samples, n, p) ==
  /\ p \in [1 .. n -> 1 .. Len(samples)]
  /\ \A j, k \in 1 .. n : j < k => p[j] # p[k] /\ samples[p[j]].t >= samples[p[k]].t
  /\ \A i \in 1 .. Len(samples) :
       (\A k \in 1 .. n : p[k] # i) => \A k \in 1 .. n : samples[i].t <= samples[p[k]].t

LEMMA RecentRows ==
  ASSUME NEW samples \in Seq(AllSamples), NEW q \in LoadRecent(samples)
  PROVE  \E n, p :
           /\ n \in Nat /\ n <= Len(samples) /\ n <= MaxSamples /\ RowsRead(samples, n, p)
           /\ q \in Seq(AllSamples) /\ Len(q) = n /\ \A k \in 1 .. n : q[k] = samples[p[k]]
<1> DEFINE n == IF Len(samples) < MaxSamples THEN Len(samples) ELSE MaxSamples
<1>1. /\ Len(samples) \in Nat /\ MaxSamples \in Nat \ {0}
      /\ \A i \in 1 .. Len(samples) : samples[i] \in AllSamples
  BY LenProperties, WindowAssumption
<1>2. n \in Nat /\ n <= Len(samples) /\ n <= MaxSamples
  BY <1>1
<1>3. PICK p \in [1 .. n -> 1 .. Len(samples)] :
        RowsRead(samples, n, p) /\ q = [k \in 1 .. n |-> samples[p[k]]]
  BY Zenon DEF LoadRecent, RowsRead
<1> HIDE DEF n
<1>4. \A k \in 1 .. n : samples[p[k]] \in AllSamples
  BY <1>1, <1>3
<1>5. q \in Seq(AllSamples) /\ Len(q) = n /\ \A k \in 1 .. n : q[k] = samples[p[k]]
  BY <1>2, <1>3, <1>4
<1> QED BY <1>2, <1>3, <1>5

(* Reading back never finds more of a metric than its window held.          *)
LEMMA RestoredIsNotLonger ==
  ASSUME NEW samples \in Seq(AllSamples), NEW q \in LoadRecent(samples), NEW name
  PROVE  Len(WindowAfter(Reverse(q), name)) <= Len(WindowAfter(samples, name))
<1>1. PICK n, p :
        /\ n \in Nat /\ n <= Len(samples) /\ n <= MaxSamples /\ RowsRead(samples, n, p)
        /\ q \in Seq(AllSamples) /\ Len(q) = n /\ \A k \in 1 .. n : q[k] = samples[p[k]]
  BY RecentRows
<1>n. n \in Nat
  BY <1>1
<1> DEFINE r    == Reverse(q)
           size == Len(samples)
           S    == Named(r, name, n)
           R    == Named(samples, name, size)
           f    == [i \in S |-> p[n - i + 1]]
<1>2. r \in Seq(AllSamples) /\ Len(r) = n /\ \A i \in 1 .. n : r[i] = q[n - i + 1]
  BY <1>1, ReverseProperties
<1>3. size \in Nat /\ p \in [1 .. n -> 1 .. size] /\ \A j, k \in 1 .. n : j < k => p[j] # p[k]
  BY <1>1, LenProperties DEF RowsRead
<1> HIDE DEF r, size
<1>4. \A i \in S : n - i + 1 \in 1 .. n /\ p[n - i + 1] \in R
  <2> SUFFICES ASSUME NEW i \in S PROVE n - i + 1 \in 1 .. n /\ p[n - i + 1] \in R
    OBVIOUS
  <2>1. i \in 1 .. n /\ r[i].name = name
    BY DEF Named
  <2>2. n - i + 1 \in 1 .. n
    BY <1>n, <2>1
  <2>3. r[i] = samples[p[n - i + 1]] /\ p[n - i + 1] \in 1 .. size
    BY <1>1, <1>2, <1>3, <2>1, <2>2
  <2> QED BY <2>1, <2>2, <2>3 DEF Named
<1>5. \A i, j \in S : p[n - i + 1] = p[n - j + 1] => i = j
  <2> SUFFICES ASSUME NEW i \in S, NEW j \in S, p[n - i + 1] = p[n - j + 1], i # j PROVE FALSE
    OBVIOUS
  <2>1. i \in 1 .. n /\ j \in 1 .. n /\ n - i + 1 \in 1 .. n /\ n - j + 1 \in 1 .. n
    BY <1>4 DEF Named
  <2>2. n - i + 1 < n - j + 1 \/ n - j + 1 < n - i + 1
    BY <1>n, <2>1
  <2> QED BY <1>3, <2>1, <2>2
<1>6. f \in Injection(S, R)
  <2>1. f \in [S -> R]
    BY <1>4
  <2>2. IsInjective(f)
    BY <1>5 DEF IsInjective
  <2> QED BY <2>1, <2>2 DEF Injection
<1> HIDE DEF f
<1>7. IsFiniteSet(R)
  <2>1. R \in SUBSET (1 .. size)
    BY DEF Named
  <2>2. IsFiniteSet(1 .. size)
    BY <1>3, FS_Interval
  <2> QED BY <2>1, <2>2, FS_Subset
<1>8. Cardinality(S) <= Cardinality(R)
  <2> HIDE DEF S, R
  <2> QED BY <1>6, <1>7, FS_Injection
<1>9. /\ Cardinality(S) \in Nat
      /\ Len(WindowsOf(r, name)[n]) = IF Cardinality(S) <= MaxSamples THEN Cardinality(S) ELSE MaxSamples
  BY <1>2, WindowsAre
<1>10. /\ Cardinality(R) \in Nat
       /\ Len(WindowsOf(samples, name)[size])
            = IF Cardinality(R) <= MaxSamples THEN Cardinality(R) ELSE MaxSamples
  BY <1>3, WindowsAre DEF size
<1> HIDE DEF S, R
<1>11. Len(WindowsOf(r, name)[n]) <= Len(WindowsOf(samples, name)[size])
  BY <1>8, <1>9, <1>10, WindowAssumption
<1> QED BY <1>2, <1>11 DEF WindowAfter, r, size

(* When no two samples are of the same second, the rows are the newest ones, *)
(* from the last on.                                                        *)
LEMMA RowsAreLast ==
  ASSUME NEW samples \in Seq(AllSamples), NEW n \in Nat, n <= Len(samples),
         NEW p, RowsRead(samples, n, p),
         \A i, j \in 1 .. Len(samples) : i < j => samples[i].t < samples[j].t
  PROVE  \A k \in 1 .. n : p[k] = Len(samples) - k + 1
<1> DEFINE size == Len(samples)
           time == [i \in 1 .. size |-> samples[i].t]
           T == {k \in Nat : \A j \in 1 .. n : j <= k => p[j] = size - j + 1}
<1>1. size \in Nat /\ \A i \in 1 .. size : time[i] \in Nat
  <2>1. size \in Nat /\ \A i \in 1 .. size : samples[i] \in AllSamples
    BY LenProperties
  <2> QED BY <2>1 DEF AllSamples
<1>2. /\ \A k \in 1 .. n : p[k] \in 1 .. size
      /\ \A j, k \in 1 .. n : j < k => p[j] # p[k] /\ time[p[j]] >= time[p[k]]
      /\ \A i \in 1 .. size : (\A k \in 1 .. n : p[k] # i) => \A k \in 1 .. n : time[i] <= time[p[k]]
  BY DEF RowsRead
<1>3. \A i, j \in 1 .. size : i < j => time[i] < time[j]
  OBVIOUS
<1> HIDE DEF time, size
<1>4. \A j, k \in 1 .. n : j < k => p[k] < p[j]
  <2> SUFFICES ASSUME NEW j \in 1 .. n, NEW k \in 1 .. n, j < k PROVE p[k] < p[j]
    OBVIOUS
  <2>1. p[j] \in 1 .. size /\ p[k] \in 1 .. size /\ p[j] # p[k] /\ time[p[j]] >= time[p[k]]
    BY <1>2
  <2>2. ~(p[j] < p[k])
    BY <1>1, <1>3, <2>1
  <2> QED BY <2>1, <2>2
<1>5. \A i \in 1 .. size : (\A k \in 1 .. n : p[k] # i) => \A k \in 1 .. n : i < p[k]
  <2> SUFFICES ASSUME NEW i \in 1 .. size, \A k \in 1 .. n : p[k] # i, NEW k \in 1 .. n PROVE i < p[k]
    OBVIOUS
  <2>1. p[k] \in 1 .. size /\ p[k] # i /\ time[i] <= time[p[k]]
    BY <1>2
  <2>2. ~(p[k] < i)
    BY <1>1, <1>3, <2>1
  <2> QED BY <2>1, <2>2
<1>6. 0 \in T
  OBVIOUS
<1>7. ASSUME NEW k \in Nat, k \in T PROVE k + 1 \in T
  <2>1. \A j \in 1 .. n : j <= k => p[j] = size - j + 1
    BY <1>7
  <2>2. ASSUME k + 1 \in 1 .. n PROVE p[k + 1] = size - (k + 1) + 1
    <3> DEFINE i == size - k
               m == k + 1
    <3>1. i \in 1 .. size /\ m \in 1 .. n /\ p[m] \in 1 .. size
      BY <1>1, <1>2, <2>2 DEF size
    <3>2. p[m] <= i
      <4>1. CASE k = 0
        <5>1. i = size
          BY <1>1, <4>1
        <5> HIDE DEF i, m
        <5> QED BY <1>1, <3>1, <5>1
      <4>2. CASE k # 0
        <5>1. k \in 1 .. n /\ k < m
          BY <2>2, <4>2
        <5>2. p[k] = size - k + 1 /\ p[m] < p[k]
          BY <1>4, <2>1, <3>1, <5>1
        <5> HIDE DEF m
        <5> QED BY <1>1, <3>1, <5>2
      <4> QED BY <4>1, <4>2
    <3>3. ASSUME p[m] # i PROVE FALSE
      <4>1. p[m] < i
        BY <3>1, <3>2, <3>3
      <4>2. ASSUME NEW j \in 1 .. n PROVE p[j] # i
        <5>1. CASE j <= k
          <6>1. p[j] = size - j + 1
            BY <2>1, <5>1
          <6> QED BY <1>1, <5>1, <6>1
        <5>2. CASE j = m
          BY <3>3, <5>2
        <5>3. CASE j > m
          <6>1. p[j] < p[m] /\ p[j] \in 1 .. size
            BY <1>2, <1>4, <3>1, <5>3
          <6> HIDE DEF i, m
          <6> QED BY <3>1, <4>1, <6>1
        <5> QED BY <5>1, <5>2, <5>3
      <4>3. i < p[m]
        BY <1>5, <3>1, <4>2
      <4> HIDE DEF i, m
      <4> QED BY <3>1, <4>1, <4>3
    <3>4. p[k + 1] = size - k
      BY <3>3
    <3>5. size - k = size - (k + 1) + 1
      BY <1>1
    <3> QED BY <3>4, <3>5
  <2>3. \A j \in 1 .. n : j <= k + 1 => j <= k \/ j = k + 1
    OBVIOUS
  <2> QED BY <2>1, <2>2, <2>3
<1>8. n \in T
  <2> HIDE DEF T
  <2> QED BY <1>6, <1>7, NatSetInduction
<1> QED BY <1>8 DEF size


LEMMA RestoredIsEnd ==
  ASSUME NEW samples \in Seq(AllSamples), NEW q \in LoadRecent(samples), NEW name,
         \A i, j \in 1 .. Len(samples) : i < j => samples[i].t < samples[j].t
  PROVE  IsSuffix(WindowAfter(Reverse(q), name), WindowAfter(samples, name))
<1>1. PICK n, p :
        /\ n \in Nat /\ n <= Len(samples) /\ n <= MaxSamples /\ RowsRead(samples, n, p)
        /\ q \in Seq(AllSamples) /\ Len(q) = n /\ \A k \in 1 .. n : q[k] = samples[p[k]]
  BY RecentRows
<1>last. \A k \in 1 .. n : p[k] = Len(samples) - k + 1
  <2>1. n \in Nat /\ n <= Len(samples) /\ RowsRead(samples, n, p)
    BY <1>1
  <2>2. \A i, j \in 1 .. Len(samples) : i < j => samples[i].t < samples[j].t
    OBVIOUS
  <2> QED BY <2>1, <2>2, RowsAreLast, Zenon
<1> DEFINE r    == Reverse(q)
           size == Len(samples)
           from == size - n
           new  == WindowsOf(r, name)
           old  == WindowsOf(samples, name)
           T    == {i \in Nat : i <= n => Ends(new[i], old[from + i])}
<1>2. r \in Seq(AllSamples) /\ Len(r) = n /\ \A i \in 1 .. n : r[i] = q[n - i + 1]
  BY <1>1, ReverseProperties
<1>3. size \in Nat /\ n \in Nat /\ n <= size /\ from \in Nat /\ from + n = size
  BY <1>1, LenProperties
<1>4. \A k \in 1 .. n : p[k] = size - k + 1
  BY <1>last
<1>5. \A i \in 1 .. n : r[i] = samples[from + i]
  <2> SUFFICES ASSUME NEW i \in 1 .. n PROVE r[i] = samples[from + i]
    OBVIOUS
  <2>1. n - i + 1 \in 1 .. n /\ size - (n - i + 1) + 1 = from + i
    BY <1>3
  <2>2. r[i] = samples[p[n - i + 1]]
    BY <1>1, <1>2, <2>1
  <2> QED BY <1>4, <2>1, <2>2
<1>6. new = [i \in 0 .. n |->
               IF i = 0 THEN <<>>
               ELSE IF r[i].name = name THEN RecordDuration(new[i - 1], r[i].d) ELSE new[i - 1]]
  <2>1. Len(r) \in Nat
    BY <1>2, <1>3
  <2> HIDE DEF new, r
  <2> QED BY <1>2, <2>1, WindowsOfDef DEF new
<1>7. old = [i \in 0 .. size |->
               IF i = 0 THEN <<>>
               ELSE IF samples[i].name = name THEN RecordDuration(old[i - 1], samples[i].d)
               ELSE old[i - 1]]
  <2> HIDE DEF old
  <2> QED BY <1>3, WindowsOfDef DEF old
<1>8. \A i \in 0 .. n : new[i] \in Seq(Durations)
  BY <1>2, WindowsAre
<1>9. \A i \in 0 .. size : old[i] \in Seq(Durations) /\ Len(old[i]) <= MaxSamples
  <2> SUFFICES ASSUME NEW i \in 0 .. size PROVE old[i] \in Seq(Durations) /\ Len(old[i]) <= MaxSamples
    OBVIOUS
  <2> DEFINE k == Cardinality(Named(samples, name, i))
  <2>1. old[i] \in Seq(Durations) /\ k \in Nat /\ Len(old[i]) = IF k <= MaxSamples THEN k ELSE MaxSamples
    BY WindowsAre
  <2> HIDE DEF k, old
  <2> QED BY <2>1, WindowAssumption
<1> HIDE DEF r, size, from, new, old
<1>10. 0 \in T
  <2>1. new[0] = <<>> /\ Len(new[0]) = 0
    BY <1>3, <1>6
  <2>2. from + 0 \in 0 .. size
    BY <1>3
  <2>3. Len(old[from + 0]) \in Nat
    BY <1>9, <2>2, LenProperties
  <2>4. Ends(new[0], old[from + 0])
    BY <2>1, <2>3 DEF Ends
  <2> QED BY <2>4
<1>11. ASSUME NEW i \in Nat, i \in T PROVE i + 1 \in T
  <2> SUFFICES ASSUME i + 1 <= n PROVE Ends(new[i + 1], old[from + (i + 1)])
    OBVIOUS
  <2>1. /\ i + 1 \in 0 .. n /\ i + 1 \in 1 .. n /\ i + 1 # 0 /\ (i + 1) - 1 = i /\ i \in 0 .. n
        /\ i <= n /\ from + (i + 1) \in 0 .. size /\ from + (i + 1) \in 1 .. size
        /\ from + (i + 1) # 0 /\ (from + (i + 1)) - 1 = from + i /\ from + i \in 0 .. size
    BY <1>3
  <2> DEFINE x == samples[from + (i + 1)]
             s == new[i]
             t == old[from + i]
  <2>2. r[i + 1] = x
    BY <1>5, <2>1
  <2>3. new[i + 1] = IF x.name = name THEN RecordDuration(s, x.d) ELSE s
    BY <1>6, <2>1, <2>2
  <2>4. old[from + (i + 1)] = IF x.name = name THEN RecordDuration(t, x.d) ELSE t
    BY <1>7, <2>1
  <2>5. Ends(s, t)
    BY <1>11, <2>1
  <2>6. x.d \in Durations
    <3>1. x \in AllSamples
      BY <2>1, LenProperties DEF size
    <3> QED BY <3>1 DEF AllSamples
  <2>7. s \in Seq(Durations) /\ t \in Seq(Durations) /\ Len(t) <= MaxSamples
    BY <1>8, <1>9, <2>1
  <2> HIDE DEF x, s, t
  <2>8. Ends(RecordDuration(s, x.d), RecordDuration(t, x.d))
    BY <2>5, <2>6, <2>7, RecordKeepsEnd
  <2> QED BY <2>3, <2>4, <2>5, <2>8
<1>12. n \in T
  <2> HIDE DEF T
  <2> QED BY <1>3, <1>10, <1>11, NatSetInduction
<1>13. Ends(new[n], old[size])
  BY <1>3, <1>12
<1>14. new[n] \in Seq(Durations) /\ old[size] \in Seq(Durations)
  BY <1>3, <1>8, <1>9
<1>15. IsSuffix(new[n], old[size])
  BY <1>13, <1>14, EndsIsSuffix
<1> QED BY <1>2, <1>15 DEF WindowAfter, new, old, r, size

(* Whatever the table of samples holds, a restart reads back no more than   *)
(* the window held, and, when no two samples are of the same second, its    *)
(* newest part.                                                             *)
THEOREM RestartKeepsNewest == CallSpec => []RestoredIsNewest
<1>1. MetricsInputs => RestoredIsNewest
  <2> SUFFICES ASSUME MetricsInputs, call.fn = "window",
                      NEW name \in Names, NEW w \in RestoredWindows(call.samples, name)
               PROVE  /\ Len(w) <= Len(WindowAfter(call.samples, name))
                      /\ (\A i, j \in 1 .. Len(call.samples) :
                            i # j => call.samples[i].t # call.samples[j].t)
                           => IsSuffix(w, WindowAfter(call.samples, name))
    BY DEF RestoredIsNewest
  <2> DEFINE samples == call.samples
  <2>1. /\ samples \in Seq(AllSamples)
        /\ \A i, j \in 1 .. Len(samples) : i <= j => samples[i].t <= samples[j].t
    BY DEF MetricsInputs
  <2>2. PICK q \in LoadRecent(samples) : w = WindowAfter(Reverse(q), name)
    BY DEF RestoredWindows
  <2>3. Len(w) <= Len(WindowAfter(samples, name))
    BY <2>1, <2>2, RestoredIsNotLonger
  <2>4. ASSUME \A i, j \in 1 .. Len(samples) : i # j => samples[i].t # samples[j].t
        PROVE  IsSuffix(w, WindowAfter(samples, name))
    <3>1. Len(samples) \in Nat /\ \A i \in 1 .. Len(samples) : samples[i].t \in Nat
      <4>1. Len(samples) \in Nat /\ \A i \in 1 .. Len(samples) : samples[i] \in AllSamples
        BY <2>1, LenProperties
      <4> QED BY <4>1 DEF AllSamples
    <3> HIDE DEF samples
    <3>2. \A i, j \in 1 .. Len(samples) : i < j => samples[i].t < samples[j].t
      <4> SUFFICES ASSUME NEW i \in 1 .. Len(samples), NEW j \in 1 .. Len(samples), i < j
                   PROVE  samples[i].t < samples[j].t
        OBVIOUS
      <4>1. i <= j /\ i # j
        BY <3>1
      <4>2. samples[i].t <= samples[j].t /\ samples[i].t # samples[j].t
        BY <2>1, <2>4, <4>1
      <4>3. samples[i].t \in Nat /\ samples[j].t \in Nat
        BY <3>1
      <4> QED BY <4>2, <4>3
    <3> QED BY <2>1, <2>2, <3>2, RestoredIsEnd
  <2> QED BY <2>3, <2>4
<1> QED BY <1>1, MetricsInputsInvariant, PTL
================================================================================
