----------------------------- MODULE AgentProofs -----------------------------
(***************************************************************************)
(* What the agent does with a message.  Proofs about ProcessedMessages for  *)
(* any number of deliveries, any timeout and any bound on the clock, with   *)
(* and without failing statements; and about the functions of the agent in  *)
(* Algorithms: what is sent to the model, for every history and budget, the *)
(* random numbers of every width, and the calculator on every expression.   *)
(***************************************************************************)
EXTENDS ProcessedMessages, Algorithms, SequenceLemmas, SequenceTheorems, FiniteSetTheorems, TLAPS

-------------------------------------------------------------------------------
(* Deliveries of a message                                                 *)

LEMMA InitIInv == Init => IInv
<1> SUFFICES ASSUME Init PROVE IInv
  OBVIOUS
<1>1. TypeOK
  <2>1. 0 \in 0 .. MaxTime
    BY ConstantsAssumption
  <2>2. start \in [Deliveries -> 0 .. MaxTime]
    BY <2>1 DEF Init
  <2>3. row \in [status : {"absent", "processing", "done", "failed"},
                reply : Deliveries \cup {None}, at : 0 .. MaxTime]
    BY <2>1 DEF Init
  <2> QED BY <2>1, <2>2, <2>3 DEF Init, TypeOK
<1>2. Bookkeeping
  BY ConstantsAssumption DEF Init, Bookkeeping, StageTells, RowTells
<1>3. RepliesAreReal /\ WaitHasWorker
  BY ConstantsAssumption DEF Init, RepliesAreReal, WaitHasWorker
<1> QED BY <1>1, <1>2, <1>3 DEF IInv

(* Every step keeps the types.                                             *)
LEMMA TypeStep == TypeOK /\ [Next]_vars => TypeOK'
<1> SUFFICES ASSUME TypeOK, [Next]_vars PROVE TypeOK'
  OBVIOUS
<1> USE ConstantsAssumption
<1> USE DEF TypeOK, InFlight, Ended, Goto, handler, history
<1>1. ASSUME NEW d \in Deliveries, Arrive(d) PROVE TypeOK'
  BY <1>1 DEF Arrive
<1>run. ASSUME NEW d \in Deliveries, ProcessGuarded(d) \/ ProcessUnguarded(d),
               row' = row \/ Claimed(d), mishaps' = mishaps \/ Fault
        PROVE  TypeOK'
  <2>1. row' \in [status : {"absent", "processing", "done", "failed"},
                  reply : Deliveries \cup {None}, at : 0 .. MaxTime]
    BY <1>run DEF Claimed
  <2>2. mishaps' \subseteq {"fault", "panic", "crash"}
    BY <1>run DEF Fault, Happens
  <2> QED BY <1>run, <2>1, <2>2 DEF ProcessGuarded, ProcessUnguarded
<1>2. ASSUME NEW d \in Deliveries, Insert(d) PROVE TypeOK'
  <2>1. CASE ProcessGuarded(d) \/ ProcessUnguarded(d)
    BY <1>2, <1>run, <2>1 DEF Insert, ProcessGuarded, ProcessUnguarded
  <2>2. CASE Goto(d, "select") /\ UNCHANGED <<row, now, start, guarded, answer, runs, finished>>
    <3>1. mishaps' \subseteq {"fault", "panic", "crash"}
      BY <1>2 DEF Insert, Fault, Happens
    <3> QED BY <2>2, <3>1
  <2> QED BY <1>2, <2>1, <2>2 DEF Insert
<1>3. ASSUME NEW d \in Deliveries, SelectRow(d) PROVE TypeOK'
  <2>1. CASE ProcessUnguarded(d)
    BY <1>3, <1>run, <2>1 DEF SelectRow, ProcessUnguarded
  <2>2. CASE row.status = "done" /\ Answer(d, row.reply) /\ UNCHANGED <<now, start, guarded, history>>
    BY <1>3, <2>2 DEF SelectRow, Answer
  <2>3. CASE Answer(d, "wait") /\ UNCHANGED <<now, start, guarded, history>>
    BY <1>3, <2>3 DEF SelectRow, Answer
  <2>4. CASE Goto(d, "claim") /\ UNCHANGED <<now, start, guarded, answer, history>>
    BY <1>3, <2>4 DEF SelectRow
  <2> QED BY <1>3, <2>1, <2>2, <2>3, <2>4 DEF SelectRow
<1>4. ASSUME NEW d \in Deliveries, Claim(d) PROVE TypeOK'
  BY <1>4, <1>run DEF Claim
<1>5. ASSUME NEW d \in Deliveries, Finish(d) PROVE TypeOK'
  BY <1>5 DEF Finish, Answer
<1>6. ASSUME NEW d \in Deliveries, Panic(d) PROVE TypeOK'
  BY <1>6 DEF Panic, Happens
<1>7. ASSUME NEW d \in Deliveries, MarkDone(d) PROVE TypeOK'
  <2>1. row' = row \/ row' = [status |-> "done", reply |-> d, at |-> now]
    BY <1>7 DEF MarkDone, Mark
  <2>2. mishaps' \subseteq {"fault", "panic", "crash"}
    BY <1>7 DEF MarkDone, Mark, Fault, Happens
  <2> QED BY <1>7, <2>1, <2>2 DEF MarkDone, Answer
<1>8. ASSUME NEW d \in Deliveries, MarkFailed(d) PROVE TypeOK'
  <2>1. row' = row \/ row' = [row EXCEPT !.status = "failed", !.at = now]
    BY <1>8 DEF MarkFailed, Mark
  <2>2. mishaps' \subseteq {"fault", "panic", "crash"}
    BY <1>8 DEF MarkFailed, Mark, Fault, Happens
  <2> QED BY <1>8, <2>1, <2>2 DEF MarkFailed
<1>9. CASE Crash
  BY <1>9 DEF Crash, Happens
<1>10. CASE Tick \/ UNCHANGED vars
  <2>1. now' \in 0 .. MaxTime
    <3>1. now < MaxTime => now + 1 \in 0 .. MaxTime
      OBVIOUS
    <3> QED BY <1>10, <3>1 DEF Tick, vars
  <2> QED BY <1>10, <2>1 DEF Tick, vars
<1> QED
  BY <1>1, <1>2, <1>3, <1>4, <1>5, <1>6, <1>7, <1>8, <1>9, <1>10 DEF Next, Step

-------------------------------------------------------------------------------
Facts == Bookkeeping /\ RepliesAreReal /\ WaitHasWorker

LEMMA ClaimedRow ==
  ASSUME TypeOK, NEW d \in Deliveries, Claimed(d)
  PROVE  row'.status = "processing" /\ row'.at = start[d] /\ row'.reply = row.reply
  BY DEF TypeOK, Claimed

LEMMA FailedRow ==
  ASSUME TypeOK, row' = [row EXCEPT !.status = "failed", !.at = now]
  PROVE  row'.status = "failed"
<1>1. row = [status |-> row.status, reply |-> row.reply, at |-> row.at]
  BY DEF TypeOK
<1>2. row' = [status |-> "failed", reply |-> row.reply, at |-> now]
  BY <1>1
<1> QED BY <1>2

(* A delivery that was not processed starts to be.                          *)
LEMMA RunStep ==
  ASSUME IInv, TypeOK', NEW d \in Deliveries, pc[d] \in {"insert", "select", "claim"},
         ProcessGuarded(d) \/ ProcessUnguarded(d),
         \/ row' = row /\ row.status # "absent"
         \/ row' = row /\ mishaps' # {}
         \/ Claimed(d),
         mishaps \subseteq mishaps',
         mishaps' = {} => /\ Claimed(d)
                          /\ row.status = "absent" \/ \E e \in runs : start[d] > start[e] + Timeout
  PROVE  Facts'
<1> USE ConstantsAssumption DEF IInv, TypeOK
<1>1. /\ runs' = runs \cup {d} /\ d \notin runs
      /\ pc' = [pc EXCEPT ![d] = "working"]
      /\ UNCHANGED <<start, answer, finished>>
  BY DEF ProcessGuarded, ProcessUnguarded, Goto, Bookkeeping, StageTells, RowTells
<1>row. row' = row \/ /\ row'.status = "processing" /\ row'.at = start[d]
                      /\ row'.reply = row.reply
  BY ClaimedRow
<1>2. row'.status # "absent" \/ mishaps' # {}
  BY ClaimedRow
<1>3. row'.status = "done" => row.status = "done" /\ row'.reply = row.reply
  BY <1>row
<1>4. RepliesAreReal' /\ WaitHasWorker'
  BY <1>1, <1>3 DEF RepliesAreReal, WaitHasWorker
<1>5. ASSUME mishaps' = {}, row'.status # "absent"
      PROVE  FarApart' \/ \E e \in Deliveries : runs' = {e}
  <2>1. mishaps = {}
    BY <1>5
  <2>2. CASE row.status = "absent"
    BY <1>1, <2>1, <2>2 DEF Bookkeeping, RowTells
  <2>3. CASE \E e \in runs : start[d] > start[e] + Timeout
    BY <1>1, <2>3 DEF FarApart
  <2> QED BY <1>5, <2>2, <2>3
<1>6. row'.status = "processing" => \E e \in runs' : row'.at = start'[e]
  BY <1>1, <1>row DEF Bookkeeping, RowTells
<1>7. row'.status = "failed" => mishaps' # {}
  BY <1>row DEF Bookkeeping, RowTells
<1>8. ASSUME NEW e \in Deliveries PROVE StageTells(e)'
  <2>1. StageTells(e) /\ (mishaps' = {} => mishaps = {})
    BY DEF Bookkeeping, StageTells, RowTells
  <2>2. CASE e = d
    BY <1>1, <1>2, <2>1, <2>2 DEF StageTells
  <2>3. CASE e # d
    <3>1. /\ pc'[e] = pc[e] /\ answer'[e] = answer[e] /\ start' = start
          /\ e \in runs' <=> e \in runs
          /\ runs \subseteq runs' /\ finished' = finished
      BY <1>1, <2>3
    <3>2. pc[e] = "claim" => mishaps' # {} \/ \E f \in runs' : start'[e] > start'[f] + Timeout
      BY <2>1, <3>1 DEF StageTells
    <3> QED BY <1>2, <2>1, <3>1, <3>2 DEF StageTells
  <2> QED BY <2>2, <2>3
<1>9. finished' \subseteq runs'
  BY <1>1 DEF Bookkeeping, StageTells, RowTells
<1> QED BY <1>1, <1>2, <1>4, <1>5, <1>6, <1>7, <1>8, <1>9 DEF Facts, Bookkeeping, RowTells

LEMMA FactsStep == IInv /\ TypeOK' /\ [Next]_vars => Facts'
<1> SUFFICES ASSUME IInv, TypeOK', [Next]_vars PROVE Facts'
  OBVIOUS
<1> USE ConstantsAssumption
<1> USE DEF IInv, TypeOK, Goto, handler, history
<1>facts. Bookkeeping /\ RepliesAreReal /\ WaitHasWorker
  OBVIOUS
<1>1. ASSUME NEW d \in Deliveries, Arrive(d) PROVE Facts'
  <2>1. d \notin runs /\ \A e \in runs : start'[e] = start[e]
    BY <1>1 DEF Arrive, Bookkeeping, StageTells, RowTells
  <2>2. FarApart' = FarApart
    BY <1>1, <2>1 DEF Arrive, FarApart
  <2>3. WaitHasWorker'
    <3>1. \A e \in Deliveries : answer[e] = "wait" => e # d
      BY <1>1 DEF Arrive, Bookkeeping, StageTells, RowTells
    <3> QED BY <1>1, <2>1, <3>1 DEF Arrive, WaitHasWorker
  <2> QED BY <1>1, <2>1, <2>2, <2>3 DEF Arrive, Facts, Bookkeeping, StageTells, RowTells, RepliesAreReal
<1>2. ASSUME NEW d \in Deliveries, Insert(d) PROVE Facts'
  <2>1. CASE ProcessGuarded(d) \/ ProcessUnguarded(d)
    BY <1>2, <2>1, RunStep DEF Insert, Fault, Happens, ProcessGuarded, ProcessUnguarded
  <2>2. CASE Goto(d, "select") /\ UNCHANGED <<row, now, start, guarded, answer, runs, finished>>
    <3>1. mishaps \subseteq mishaps' /\ (row.status = "absent" => mishaps' # {})
      BY <1>2, <2>2 DEF Insert, Fault, Happens, Claimed, ProcessGuarded, ProcessUnguarded
    <3>2. FarApart' = FarApart
      BY <2>2 DEF FarApart
    <3>3. pc[d] = "insert"
      BY <1>2 DEF Insert
    <3>4. pc' = [pc EXCEPT ![d] = "select"] /\ d \notin runs
      BY <2>2, <3>3 DEF Bookkeeping, StageTells, RowTells
    <3>5. RepliesAreReal' /\ WaitHasWorker'
      BY <2>2 DEF RepliesAreReal, WaitHasWorker
    <3>6. ASSUME NEW e \in Deliveries PROVE StageTells(e)'
      <4>1. StageTells(e) /\ (mishaps # {} => mishaps' # {})
        BY <3>1 DEF Bookkeeping
      <4>2. CASE e = d
        BY <2>2, <3>1, <3>3, <3>4, <4>1, <4>2 DEF StageTells
      <4>3. CASE e # d
        BY <2>2, <3>1, <3>4, <4>1, <4>3 DEF StageTells
      <4> QED BY <4>2, <4>3
    <3>7. mishaps' = {} => mishaps = {}
      BY <3>1
    <3>8. mishaps' = {} => IF row'.status = "absent" THEN runs' = {}
                           ELSE FarApart' \/ \E e \in Deliveries : runs' = {e}
      BY <2>2, <3>2, <3>7 DEF Bookkeeping, StageTells, RowTells
    <3>9. row'.status = "failed" => mishaps' # {}
      <4>1. row' = row /\ (row.status = "failed" => mishaps # {})
        BY <2>2 DEF Bookkeeping, RowTells
      <4> QED BY <3>7, <4>1
    <3> QED BY <2>2, <3>5, <3>6, <3>8, <3>9 DEF Facts, Bookkeeping, StageTells, RowTells
  <2> QED BY <1>2, <2>1, <2>2 DEF Insert
<1>3. ASSUME NEW d \in Deliveries, SelectRow(d) PROVE Facts'
  <2>1. CASE ProcessUnguarded(d)
    BY <1>3, <2>1, RunStep DEF SelectRow, Fault, Happens, ProcessUnguarded, Bookkeeping, StageTells, RowTells
  <2>2. CASE row.status = "done" /\ Answer(d, row.reply) /\ UNCHANGED <<now, start, guarded, history>>
    BY <1>3, <2>2 DEF SelectRow, Answer, Facts, Bookkeeping, StageTells, RowTells, RepliesAreReal, WaitHasWorker, FarApart
  <2>3. CASE /\ row.status = "processing" /\ ~Lapsed(d) /\ Answer(d, "wait")
             /\ UNCHANGED <<now, start, guarded, history>>
    BY <1>3, <2>3 DEF SelectRow, Answer, Lapsed, Facts, Bookkeeping, StageTells, RowTells, RepliesAreReal, WaitHasWorker, FarApart
  <2>4. CASE /\ row.status = "failed" \/ Lapsed(d)
             /\ Goto(d, "claim") /\ UNCHANGED <<now, start, guarded, answer, history>>
    BY <1>3, <2>4 DEF SelectRow, Lapsed, Facts, Bookkeeping, StageTells, RowTells, RepliesAreReal, WaitHasWorker, FarApart
  <2> QED BY <1>3, <2>1, <2>2, <2>3, <2>4 DEF SelectRow
<1>4. ASSUME NEW d \in Deliveries, Claim(d) PROVE Facts'
  BY <1>4, RunStep DEF Claim, Fault, Happens, Bookkeeping, StageTells, RowTells
<1>5. ASSUME NEW d \in Deliveries, Finish(d) PROVE Facts'
  BY <1>5 DEF Finish, Answer, Facts, Bookkeeping, StageTells, RowTells, RepliesAreReal, WaitHasWorker, FarApart
<1>6. ASSUME NEW d \in Deliveries, Panic(d) PROVE Facts'
  BY <1>6 DEF Panic, Happens, Facts, Bookkeeping, StageTells, RowTells, RepliesAreReal, WaitHasWorker, FarApart
<1>7. ASSUME NEW d \in Deliveries, MarkDone(d) PROVE Facts'
  BY <1>7 DEF MarkDone, Mark, Answer, Fault, Happens, Facts, Bookkeeping, StageTells, RowTells, RepliesAreReal,
              WaitHasWorker, FarApart
<1>8. ASSUME NEW d \in Deliveries, MarkFailed(d) PROVE Facts'
  <2>1. mishaps \subseteq mishaps' /\ mishaps # {}
    BY <1>8 DEF MarkFailed, Mark, Fault, Happens, Bookkeeping, StageTells, RowTells
  <2>2. row' = row \/ row' = [row EXCEPT !.status = "failed", !.at = now]
    BY <1>8 DEF MarkFailed, Mark
  <2>3. row' = row \/ row'.status = "failed"
    BY <2>2, FailedRow
  <2> QED BY <1>8, <2>1, <2>3 DEF MarkFailed, Facts, Bookkeeping, StageTells, RowTells, RepliesAreReal, WaitHasWorker
<1>9. CASE Crash
  BY <1>9 DEF Crash, Happens, InFlight, Facts, Bookkeeping, StageTells, RowTells, RepliesAreReal, WaitHasWorker
<1>10. CASE Tick \/ UNCHANGED vars
  BY <1>10 DEF Tick, vars, Facts, Bookkeeping, StageTells, RowTells, RepliesAreReal, WaitHasWorker, FarApart
<1> QED
  BY <1>1, <1>2, <1>3, <1>4, <1>5, <1>6, <1>7, <1>8, <1>9, <1>10 DEF Next, Step

(* The bookkeeping is an invariant.                                        *)
THEOREM Invariance == Spec => []IInv
<1>1. IInv /\ [Next]_vars => IInv'
  BY TypeStep, FactsStep DEF IInv, Facts
<1> QED BY <1>1, InitIInv, PTL DEF Spec

(* TypeOK: the handler, the row and the history keep their types.          *)
THEOREM TypeCorrect == Spec => []TypeOK
<1>1. IInv => TypeOK
  BY DEF IInv
<1> QED BY <1>1, Invariance, PTL

(* DuplicateHasCause: without a fault, a panic or a crash, and with all     *)
(* processed deliveries within one timeout of each other, StartProcessing   *)
(* lets at most one of any number of redeliveries through.                 *)
THEOREM NoIdleDuplicate == Spec => []DuplicateHasCause
<1>1. ASSUME IInv PROVE DuplicateHasCause
  <2>1. SUFFICES ASSUME mishaps = {}, ~FarApart PROVE ~(Cardinality(runs) > 1)
    BY DEF DuplicateHasCause
  <2>2. runs = {} \/ \E e \in Deliveries : runs = {e}
    BY <1>1, <2>1 DEF IInv, Bookkeeping, RowTells
  <2>3. Cardinality(runs) \in {0, 1}
    BY <2>2, FS_EmptySet, FS_Singleton
  <2> QED BY <2>3
<1> QED BY <1>1, Invariance, PTL

(* SomebodyProcesses: the deliveries never all step back in favour of each  *)
(* other; the message is processed unless the process dies.                *)
THEOREM NotAllStepBack == Spec => []SomebodyProcesses
<1>1. ASSUME IInv PROVE SomebodyProcesses
  <2>1. SUFFICES ASSUME \A d \in Deliveries : pc[d] \in Ended, "crash" \notin mishaps
                 PROVE  runs # {}
    BY DEF SomebodyProcesses
  <2>2. PICK d \in Deliveries : pc[d] \in Ended
    BY <2>1, ConstantsAssumption
  <2>3. StageTells(d)
    BY <1>1 DEF IInv, Bookkeeping
  <2>4. CASE pc[d] = "aborted"
    BY <2>3, <2>4 DEF StageTells
  <2>5. CASE pc[d] = "answered"
    <3>1. answer[d] \in Deliveries \/ answer[d] = "wait"
      BY <1>1, <2>3, <2>5 DEF IInv, TypeOK, StageTells
    <3> QED BY <1>1, <3>1 DEF IInv, Bookkeeping, RepliesAreReal, WaitHasWorker
  <2> QED BY <2>1, <2>2, <2>3, <2>4, <2>5 DEF Ended, StageTells
<1> QED BY <1>1, Invariance, PTL

(* RepliesAreReal: whatever is saved, replayed or answered is a reply that  *)
(* ProcessMessage returned, never one of a panic or a crash.               *)
THEOREM ReplaysAreReplies == Spec => []RepliesAreReal
<1>1. IInv => RepliesAreReal
  BY DEF IInv
<1> QED BY <1>1, Invariance, PTL

(* WaitHasWorker: "please wait" is only answered while a processing that    *)
(* began within the timeout stands behind it.                              *)
THEOREM WaitIsFounded == Spec => []WaitHasWorker
<1>1. IInv => WaitHasWorker
  BY DEF IInv
<1> QED BY <1>1, Invariance, PTL

-------------------------------------------------------------------------------
(* Tokens                                                                  *)

Roles      == {"system", "user", "assistant", "tool"}
AnyMessage == [role : Roles, calls : BOOLEAN, text : Nat]

(* A message costs something even without its text.                        *)
LEMMA MessageCosts ==
  ASSUME NEW m \in AnyMessage
  PROVE  Bare(m) \in Nat \ {0} /\ MessageTokens(m) \in Nat \ {0} /\ MessageTokens(m) = Bare(m) + m.text
<1>1. MessageCost \in Nat \ {0} /\ CallsCost \in Nat /\ m.text \in Nat
  BY BudgetAssumption DEF AnyMessage
<1>2. Bare(m) \in Nat \ {0}
  BY <1>1 DEF Bare
<1> QED BY <1>1, <1>2 DEF MessageTokens

LEMMA NumbersAreIntegers == \A ns \in Seq(Nat) : ns \in Seq(Int)
OBVIOUS

LEMMA CostsAreNumbers ==
  ASSUME NEW ms \in Seq(AnyMessage)
  PROVE  /\ [i \in DOMAIN ms |-> MessageTokens(ms[i])] \in Seq(Nat)
         /\ Len([i \in DOMAIN ms |-> MessageTokens(ms[i])]) = Len(ms)
         /\ [i \in DOMAIN ms |-> Bare(ms[i]) + Drift] \in Seq(Nat)
         /\ Len([i \in DOMAIN ms |-> Bare(ms[i]) + Drift]) = Len(ms)
<1>1. Len(ms) \in Nat /\ DOMAIN ms = 1 .. Len(ms) /\ \A i \in 1 .. Len(ms) : ms[i] \in AnyMessage
  BY LenProperties
<1>2. \A i \in 1 .. Len(ms) : MessageTokens(ms[i]) \in Nat /\ Bare(ms[i]) + Drift \in Nat
  <2>1. Drift \in Nat
    BY BudgetAssumption
  <2>2. \A m \in AnyMessage : MessageTokens(m) \in Nat /\ Bare(m) \in Nat
    BY MessageCosts
  <2>3. \A m \in AnyMessage : MessageTokens(m) \in Nat /\ Bare(m) + Drift \in Nat
    BY <2>1, <2>2
  <2> QED BY <1>1, <2>3
<1> QED BY <1>1, <1>2

LEMMA TokensOfFew ==
  /\ MessagesTokens(<<>>) = 0 /\ Overrun(<<>>) = 0
  /\ \A m \in AnyMessage : MessagesTokens(<<m>>) = MessageTokens(m) /\ Overrun(<<m>>) = Bare(m) + Drift
<1>1. MessagesTokens(<<>>) = 0 /\ Overrun(<<>>) = 0
  <2>1. [i \in DOMAIN <<>> |-> MessageTokens(<<>>[i])] = <<>> /\ [i \in DOMAIN <<>> |-> Bare(<<>>[i]) + Drift] = <<>>
    OBVIOUS
  <2> QED BY <2>1, TotalOfFew DEF MessagesTokens, Overrun
<1>2. ASSUME NEW m \in AnyMessage
      PROVE  MessagesTokens(<<m>>) = MessageTokens(m) /\ Overrun(<<m>>) = Bare(m) + Drift
  <2>1. /\ [i \in DOMAIN <<m>> |-> MessageTokens(<<m>>[i])] = <<MessageTokens(m)>>
        /\ [i \in DOMAIN <<m>> |-> Bare(<<m>>[i]) + Drift] = <<Bare(m) + Drift>>
    OBVIOUS
  <2>2. MessageTokens(m) \in Int /\ Bare(m) + Drift \in Int
    BY MessageCosts, BudgetAssumption
  <2> QED BY <2>1, <2>2, TotalOfFew DEF MessagesTokens, Overrun
<1> QED BY <1>1, <1>2

LEMMA TokensAdd ==
  ASSUME NEW s \in Seq(AnyMessage), NEW t \in Seq(AnyMessage)
  PROVE  /\ MessagesTokens(s \o t) = MessagesTokens(s) + MessagesTokens(t)
         /\ Overrun(s \o t) = Overrun(s) + Overrun(t)
         /\ MessagesTokens(s) \in Nat /\ Overrun(s) \in Nat
<1>1. /\ s \o t \in Seq(AnyMessage) /\ Len(s) \in Nat /\ Len(t) \in Nat /\ Len(s \o t) = Len(s) + Len(t)
      /\ \A i \in 1 .. Len(s) + Len(t) : (s \o t)[i] = IF i <= Len(s) THEN s[i] ELSE t[i - Len(s)]
      /\ DOMAIN s = 1 .. Len(s) /\ DOMAIN t = 1 .. Len(t) /\ DOMAIN (s \o t) = 1 .. Len(s) + Len(t)
  BY LenProperties, ConcatProperties
<1> DEFINE costs(ms) == [i \in DOMAIN ms |-> MessageTokens(ms[i])]
           bares(ms) == [i \in DOMAIN ms |-> Bare(ms[i]) + Drift]
<1>2. costs(s) \in Seq(Nat) /\ costs(t) \in Seq(Nat) /\ Len(costs(s)) = Len(s) /\ Len(costs(t)) = Len(t)
  BY CostsAreNumbers
<1>3. bares(s) \in Seq(Nat) /\ bares(t) \in Seq(Nat) /\ Len(bares(s)) = Len(s) /\ Len(bares(t)) = Len(t)
  BY CostsAreNumbers
<1>4. costs(s \o t) = costs(s) \o costs(t)
  BY <1>1, <1>2
<1>5. bares(s \o t) = bares(s) \o bares(t)
  BY <1>1, <1>3
<1>6. Total(costs(s \o t)) = Total(costs(s)) + Total(costs(t)) /\ Total(costs(s)) \in Nat
  <2>1. costs(s) \in Seq(Int) /\ costs(t) \in Seq(Int)
    BY <1>2, NumbersAreIntegers
  <2> HIDE DEF costs
  <2> QED BY <1>2, <1>4, <2>1, TotalConcat, TotalInNat
<1>7. Total(bares(s \o t)) = Total(bares(s)) + Total(bares(t)) /\ Total(bares(s)) \in Nat
  <2>1. bares(s) \in Seq(Int) /\ bares(t) \in Seq(Int)
    BY <1>3, NumbersAreIntegers
  <2> HIDE DEF bares
  <2> QED BY <1>3, <1>5, <2>1, TotalConcat, TotalInNat
<1> QED BY <1>6, <1>7 DEF MessagesTokens, Overrun

(* One message more.                                                       *)
LEMMA TokensAppend ==
  ASSUME NEW s \in Seq(AnyMessage), NEW m \in AnyMessage
  PROVE  /\ MessagesTokens(Append(s, m)) = MessagesTokens(s) + MessageTokens(m)
         /\ Overrun(Append(s, m)) = Overrun(s) + Bare(m) + Drift
<1>1. <<m>> \in Seq(AnyMessage) /\ Append(s, m) = s \o <<m>>
  OBVIOUS
<1>2. /\ MessagesTokens(Append(s, m)) = MessagesTokens(s) + MessagesTokens(<<m>>)
      /\ Overrun(Append(s, m)) = Overrun(s) + Overrun(<<m>>)
      /\ MessagesTokens(s) \in Nat /\ Overrun(s) \in Nat
  BY <1>1, TokensAdd
<1>3. Bare(m) \in Nat /\ Drift \in Nat
  BY MessageCosts, BudgetAssumption
<1> QED BY <1>2, <1>3, TokensOfFew

(* What cutting one message leaves of it.                                   *)
LEMMA CutMessage ==
  ASSUME NEW m \in AnyMessage, NEW budget \in Int
  PROVE  LET cut == TruncateMessage(m, budget)
         IN  /\ cut \in AnyMessage /\ SameUpToText(cut, m) /\ cut.text <= m.text + Drift
             /\ Bare(cut) = Bare(m)
             /\ m.text = 0 => cut = m
             /\ budget > 0 => MessageTokens(cut) <= budget + Bare(cut) + Drift
<1> DEFINE cut == TruncateMessage(m, budget)
           room == budget - Bare(m)
<1>1. /\ Bare(m) \in Nat \ {0} /\ MessageTokens(m) = Bare(m) + m.text /\ m.text \in Nat
      /\ Drift \in Nat /\ SuffixTokens \in Nat
  BY MessageCosts, BudgetAssumption DEF AnyMessage
<1>2. CASE budget <= 0 \/ m.text = 0 \/ MessageTokens(m) <= budget
  <2>1. cut = m
    BY <1>2 DEF TruncateMessage
  <2>2. budget > 0 => MessageTokens(m) <= budget + Bare(m) + Drift
    BY <1>1, <1>2
  <2>3. m.text <= m.text + Drift
    BY <1>1
  <2> QED BY <2>1, <2>2, <2>3 DEF SameUpToText
<1>3. CASE ~(budget <= 0 \/ m.text = 0 \/ MessageTokens(m) <= budget)
  <2> DEFINE left == TruncateText(m.text, room)
  <2>1. cut = [m EXCEPT !.text = left]
    BY <1>3 DEF TruncateMessage
  <2>2. left \in Nat /\ left <= m.text + Drift /\ (left = 0 \/ left <= room + Drift)
    <3>1. room \in Int /\ room < m.text
      BY <1>1, <1>3
    <3> HIDE DEF room
    <3> QED BY <1>1, <3>1 DEF TruncateText
  <2> HIDE DEF left
  <2>3. cut \in AnyMessage /\ cut.role = m.role /\ cut.calls = m.calls /\ cut.text = left
    BY <2>1, <2>2 DEF AnyMessage
  <2> HIDE DEF cut
  <2>4. Bare(cut) = Bare(m)
    BY <2>3 DEF Bare
  <2>5. MessageTokens(cut) = Bare(m) + left
    BY <2>3, <2>4 DEF MessageTokens
  <2>6. budget > 0 => MessageTokens(cut) <= budget + Bare(cut) + Drift
    BY <1>1, <2>2, <2>4, <2>5
  <2>7. m.text # 0
    BY <1>3
  <2> QED BY <2>2, <2>3, <2>4, <2>6, <2>7 DEF SameUpToText, cut
<1> QED BY <1>2, <1>3

(* What the model counts in a number of tokens of cl100k_base grows with it. *)
LEMMA DivisionGrows ==
  ASSUME NEW x \in Nat, NEW y \in Nat, x <= y, NEW c \in Nat \ {0}
  PROVE  x \div c \in Nat /\ y \div c \in Nat /\ x \div c <= y \div c
<1> DEFINE p == x \div c
           q == y \div c
<1>1. p \in Int /\ q \in Int
  OBVIOUS
<1>2. /\ x = c * p + (x % c) /\ x % c \in 0 .. c - 1
      /\ y = c * q + (y % c) /\ y % c \in 0 .. c - 1
  OBVIOUS
<1> HIDE DEF p, q
<1>3. \A n \in Int : n + 1 <= 0 => c * n + c <= 0
  OBVIOUS
<1>4. p >= 0
  BY <1>1, <1>2, <1>3
<1>5. q >= p
  <2>1. c * (q - p) = c * q - c * p
    BY <1>1
  <2>2. (q - p) + 1 <= 0 => c * (q - p) + c <= 0
    BY <1>1, <1>3
  <2> QED BY <1>1, <1>2, <2>1, <2>2
<1> QED BY <1>1, <1>4, <1>5 DEF p, q

LEMMA NegativeDivision ==
  ASSUME NEW n \in Int, n <= 0, NEW c \in Nat \ {0}
  PROVE  n \div c \in Int /\ n \div c <= 0
<1> DEFINE q == n \div c
<1>1. q \in Int
  OBVIOUS
<1>2. n = c * q + (n % c) /\ n % c \in 0 .. c - 1
  OBVIOUS
<1> HIDE DEF q
<1>3. q >= 1 => c * q >= c
  BY <1>1
<1> QED BY <1>1, <1>2, <1>3 DEF q

LEMMA ModelTokensGrow ==
  ASSUME NEW j \in Nat, NEW k \in Nat, j <= k
  PROVE  ModelTokens(j) \in Nat /\ ModelTokens(k) \in Nat /\ ModelTokens(j) <= ModelTokens(k)
<1>1. ModelShare \in Nat /\ CommonShare \in Nat \ {0}
  BY BudgetAssumption
<1>2. j * ModelShare \in Nat /\ k * ModelShare \in Nat /\ j * ModelShare <= k * ModelShare
  BY <1>1
<1> QED BY <1>1, <1>2, DivisionGrows DEF ModelTokens

(* What is left of the system message, cut with cl100k_base.                *)
LEMMA CutByCommon ==
  ASSUME NEW m \in AnyMessage, NEW budget \in Nat \ {0}
  PROVE  LET cut == TruncateByCommon(m, budget)
         IN  /\ cut \in AnyMessage /\ SameUpToText(cut, m)
             /\ MessageTokens(cut) <= Bare(m) + ModelTokens(budget) + SuffixTokens + Drift
<1> DEFINE room  == budget - Bare(m)
           limit == room - CommonSuffix
           most  == ModelTokens(budget)
           left  == IF limit <= 0 THEN 0
                    ELSE IF m.text <= ModelTokens(limit) THEN m.text
                    ELSE ModelTokens(limit) + SuffixTokens + Drift
           cut   == TruncateByCommon(m, budget)
<1>1. /\ Bare(m) \in Nat \ {0} /\ MessageTokens(m) = Bare(m) + m.text /\ m.text \in Nat
      /\ Drift \in Nat /\ SuffixTokens \in Nat /\ CommonSuffix \in Nat
  BY MessageCosts, BudgetAssumption DEF AnyMessage
<1>2. /\ room \in Int /\ limit \in Int /\ room <= budget /\ limit <= budget
  BY <1>1
<1>3. most \in Nat /\ \A k \in Nat : k <= budget => ModelTokens(k) \in Nat /\ ModelTokens(k) <= most
  BY ModelTokensGrow
<1> HIDE DEF most
<1>4. CASE m.text = 0 \/ m.text <= ModelTokens(room)
  <2>1. cut = m
    BY <1>4 DEF TruncateByCommon
  <2>2. m.text <= most
    <3>1. CASE room >= 0
      BY <1>1, <1>2, <1>3, <1>4, <3>1
    <3>2. CASE room < 0
      <4>1. ModelShare \in Nat /\ CommonShare \in Nat \ {0}
        BY BudgetAssumption
      <4>2. room * ModelShare <= 0 /\ room * ModelShare \in Int
        BY <1>2, <3>2, <4>1
      <4>3. ModelTokens(room) \in Int /\ ModelTokens(room) <= 0
        <5> HIDE DEF room
        <5> DEFINE n == room * ModelShare
        <5>1. n \in Int /\ n <= 0
          BY <4>2
        <5> HIDE DEF n
        <5>2. n \div CommonShare \in Int /\ n \div CommonShare <= 0
          BY <4>1, <5>1, NegativeDivision
        <5> QED BY <5>2 DEF ModelTokens, n
      <4> HIDE DEF room
      <4> QED BY <1>1, <1>3, <1>4, <4>3
    <3> HIDE DEF room
    <3> QED BY <1>2, <3>1, <3>2
  <2>3. MessageTokens(m) <= Bare(m) + most + SuffixTokens + Drift
    BY <1>1, <1>3, <2>2
  <2> QED BY <2>1, <2>3 DEF SameUpToText, most
<1>5. CASE ~(m.text = 0 \/ m.text <= ModelTokens(room))
  <2>1. cut = [m EXCEPT !.text = left]
    BY <1>5 DEF TruncateByCommon
  <2>2. left \in Nat /\ left <= most + SuffixTokens + Drift
    <3>1. CASE limit <= 0
      BY <1>1, <1>3, <3>1
    <3>2. CASE limit > 0
      <4>1. ModelTokens(limit) \in Nat /\ ModelTokens(limit) <= most
        BY <1>2, <1>3, <3>2
      <4> HIDE DEF limit
      <4> QED BY <1>1, <1>3, <3>2, <4>1
    <3> HIDE DEF limit
    <3> QED BY <1>2, <3>1, <3>2
  <2> HIDE DEF left
  <2>3. cut \in AnyMessage /\ cut.role = m.role /\ cut.calls = m.calls /\ cut.text = left
    BY <2>1, <2>2 DEF AnyMessage
  <2> HIDE DEF cut
  <2>4. MessageTokens(cut) = Bare(m) + left
    BY <2>3 DEF Bare, MessageTokens
  <2>5. MessageTokens(cut) <= Bare(m) + most + SuffixTokens + Drift
    BY <1>1, <1>3, <2>2, <2>4
  <2> QED BY <2>3, <2>5 DEF SameUpToText, cut, most
<1> QED BY <1>4, <1>5

(* The recursive definition of TruncatedAfter has a solution.               *)
LEMMA TruncatedAfterDef ==
  ASSUME NEW block, Len(block) \in Nat, NEW budget
  PROVE  TruncatedAfter(block, budget) =
           [i \in 0 .. Len(block) |->
              IF i = 0 THEN [out |-> <<>>, left |-> budget, done |-> FALSE]
              ELSE TruncateNext(TruncatedAfter(block, budget)[i - 1], block[i])]
<1> DEFINE first == [out |-> <<>>, left |-> budget, done |-> FALSE]
           Solves(n, f) == f = [i \in 0 .. n |-> IF i = 0 THEN first ELSE TruncateNext(f[i - 1], block[i])]
           S == {n \in Nat : \E f : Solves(n, f)}
<1> HIDE DEF first
<1>1. 0 \in S
  <2>1. Solves(0, [i \in 0 .. 0 |-> first])
    OBVIOUS
  <2> QED BY <2>1
<1>2. ASSUME NEW n \in Nat, n \in S PROVE n + 1 \in S
  <2>1. PICK f : Solves(n, f)
    BY <1>2
  <2> DEFINE g == [i \in 0 .. n + 1 |-> IF i <= n THEN f[i] ELSE TruncateNext(f[i - 1], block[i])]
  <2>2. \A i \in 0 .. n + 1 : i # 0 => i - 1 \in 0 .. n /\ g[i - 1] = f[i - 1]
    OBVIOUS
  <2>3. \A i \in 0 .. n : f[i] = IF i = 0 THEN first ELSE TruncateNext(f[i - 1], block[i])
    BY <2>1
  <2>4. \A i \in 0 .. n + 1 : g[i] = IF i = 0 THEN first ELSE TruncateNext(g[i - 1], block[i])
    BY <2>2, <2>3
  <2>5. g = [i \in 0 .. n + 1 |-> g[i]]
    OBVIOUS
  <2>6. Solves(n + 1, g)
    <3> HIDE DEF g
    <3>1. [i \in 0 .. n + 1 |-> g[i]]
            = [i \in 0 .. n + 1 |-> IF i = 0 THEN first ELSE TruncateNext(g[i - 1], block[i])]
      BY <2>4
    <3> QED BY <2>5, <3>1
  <2>7. \E h : Solves(n + 1, h)
    <3> HIDE DEF g, Solves, S
    <3> QED BY <2>6, Zenon
  <2> HIDE DEF Solves
  <2> QED BY <2>7
<1>3. Len(block) \in S
  <2> HIDE DEF S
  <2> QED BY <1>1, <1>2, NatSetInduction
<1>4. \E f : Solves(Len(block), f)
  BY <1>3
<1> QED BY <1>4, Zenon DEF TruncatedAfter, first

(* r is a first part of block, with texts perhaps cut.                     *)
CutFrom(r, block) ==
  /\ r \in Seq(AnyMessage) /\ Len(r) <= Len(block)
  /\ \A i \in 1 .. Len(r) : SameUpToText(r[i], block[i]) /\ r[i].text <= block[i].text + Drift

(* One more message costs no more than what is left of the budget, or no    *)
(* more than itself.                                                       *)
LEMMA BudgetStep ==
  ASSUME NEW budget \in Int, NEW spent \in Nat, NEW over \in Nat, NEW left \in Int,
         NEW cost \in Nat, NEW bare \in Nat, NEW drift \in Nat,
         spent + left = budget, spent <= budget + over,
         left > 0 => cost <= left + bare + drift, left <= 0 => cost = bare
  PROVE  spent + cost <= budget + (over + bare + drift)
<1>1. CASE left > 0
  BY <1>1
<1>2. CASE left <= 0
  BY <1>2
<1> QED BY <1>1, <1>2

(* A step of the loop cuts the next message to what is left of the budget.  *)
LEMMA TruncateNextKeeps ==
  ASSUME NEW block \in Seq(AnyMessage), NEW budget \in Int,
         NEW acc \in [out : Seq(AnyMessage), left : Int, done : BOOLEAN],
         NEW n \in Nat, n + 1 <= Len(block),
         CutFrom(acc.out, block), Len(acc.out) <= n, ~acc.done => Len(acc.out) = n,
         acc.left = budget - MessagesTokens(acc.out),
         MessagesTokens(acc.out) <= budget + Overrun(acc.out)
  PROVE  LET new == TruncateNext(acc, block[n + 1])
         IN  /\ new \in [out : Seq(AnyMessage), left : Int, done : BOOLEAN]
             /\ CutFrom(new.out, block) /\ Len(new.out) <= n + 1 /\ (~new.done => Len(new.out) = n + 1)
             /\ new.left = budget - MessagesTokens(new.out)
             /\ MessagesTokens(new.out) <= budget + Overrun(new.out)
<1> DEFINE m   == block[n + 1]
           new == TruncateNext(acc, m)
           cut == TruncateMessage(m, acc.left)
<1>1. /\ Len(block) \in Nat /\ n + 1 \in 1 .. Len(block) /\ m \in AnyMessage
      /\ acc.out \in Seq(AnyMessage) /\ Len(acc.out) \in Nat /\ acc.left \in Int
      /\ MessagesTokens(acc.out) \in Nat /\ Overrun(acc.out) \in Nat
  BY LenProperties, TokensAdd
<1> HIDE DEF m
<1>2. CASE acc.done
  <2>1. new = acc
    BY <1>2 DEF TruncateNext
  <2> QED BY <1>2, <2>1 DEF m
<1>3. CASE ~acc.done /\ m.text # 0 /\ acc.left <= 0
  <2>1. new = [acc EXCEPT !.done = TRUE]
    BY <1>3 DEF TruncateNext
  <2>2. /\ new \in [out : Seq(AnyMessage), left : Int, done : BOOLEAN]
        /\ new.done /\ new.out = acc.out /\ new.left = acc.left
    BY <2>1
  <2> QED BY <2>2 DEF m
<1>4. CASE ~acc.done /\ ~(m.text # 0 /\ acc.left <= 0)
  <2>1. new = [out |-> Append(acc.out, cut), left |-> acc.left - MessageTokens(cut), done |-> FALSE]
    BY <1>4 DEF TruncateNext
  <2>2. /\ cut \in AnyMessage /\ SameUpToText(cut, m) /\ cut.text <= m.text + Drift
        /\ Bare(cut) = Bare(m) /\ (m.text = 0 => cut = m)
        /\ (acc.left > 0 => MessageTokens(cut) <= acc.left + Bare(cut) + Drift)
    BY <1>1, CutMessage
  <2> HIDE DEF cut
  <2>3. /\ Bare(cut) \in Nat /\ MessageTokens(cut) \in Nat /\ MessageTokens(cut) = Bare(cut) + cut.text
        /\ Drift \in Nat
    BY <2>2, MessageCosts, BudgetAssumption
  <2>4. /\ new.out = Append(acc.out, cut) /\ new.left = acc.left - MessageTokens(cut) /\ new.done = FALSE
        /\ new.out \in Seq(AnyMessage) /\ Len(new.out) = n + 1
        /\ \A i \in 1 .. n : new.out[i] = acc.out[i]
        /\ new.out[n + 1] = cut
    BY <1>1, <1>4, <2>1, <2>2
  <2>5. new \in [out : Seq(AnyMessage), left : Int, done : BOOLEAN]
    BY <1>1, <2>1, <2>2, <2>3
  <2>6. /\ MessagesTokens(new.out) = MessagesTokens(acc.out) + MessageTokens(cut)
        /\ Overrun(new.out) = Overrun(acc.out) + Bare(cut) + Drift
    BY <1>1, <2>2, <2>4, TokensAppend
  <2> HIDE DEF new
  <2>7. CutFrom(new.out, block)
    <3>1. \A i \in 1 .. n : SameUpToText(acc.out[i], block[i]) /\ acc.out[i].text <= block[i].text + Drift
      BY <1>4 DEF CutFrom
    <3>2. \A i \in 1 .. n + 1 : i \in 1 .. n \/ i = n + 1
      OBVIOUS
    <3>3. \A i \in 1 .. n + 1 : SameUpToText(new.out[i], block[i]) /\ new.out[i].text <= block[i].text + Drift
      BY <2>2, <2>4, <3>1, <3>2 DEF m
    <3> QED BY <2>4, <3>3 DEF CutFrom
  <2>8. new.left = budget - MessagesTokens(new.out)
    BY <1>1, <2>3, <2>4, <2>6
  <2>num. /\ MessagesTokens(acc.out) \in Nat /\ Overrun(acc.out) \in Nat /\ acc.left \in Int
          /\ MessagesTokens(acc.out) + acc.left = budget
    BY <1>1
  <2>9. MessagesTokens(new.out) <= budget + Overrun(new.out)
    <3>1. acc.left > 0 => MessageTokens(cut) <= acc.left + Bare(cut) + Drift
      BY <2>2
    <3>2. acc.left <= 0 => MessageTokens(cut) = Bare(cut)
      <4>1. acc.left <= 0 => m.text = 0 /\ cut = m
        BY <1>1, <1>4, <2>2
      <4>2. cut.text = 0 => MessageTokens(cut) = Bare(cut)
        BY <2>3
      <4> QED BY <4>1, <4>2
    <3>3. MessagesTokens(acc.out) + MessageTokens(cut) <= budget + (Overrun(acc.out) + Bare(cut) + Drift)
      BY <2>3, <2>num, <3>1, <3>2, BudgetStep
    <3> QED BY <2>6, <3>3, Zenon
  <2> QED BY <2>4, <2>5, <2>7, <2>8, <2>9 DEF new, m
<1> QED BY <1>2, <1>3, <1>4

(* What is left of a block that does not fit: a first part of it, which     *)
(* exceeds the budget by no more than what its messages cost without text.  *)
LEMMA CutBlock ==
  ASSUME NEW block \in Seq(AnyMessage), block # <<>>, NEW budget \in Nat \ {0}
  PROVE  /\ CutFrom(TruncateBlock(block, budget), block)
         /\ MessagesTokens(TruncateBlock(block, budget))
              <= budget + Overrun(TruncateBlock(block, budget))
<1>len. Len(block) \in Nat \ {0} /\ \A i \in 1 .. Len(block) : block[i] \in AnyMessage
  BY LenProperties, EmptySeq
<1>1. CASE Len(block) = 1
  <2> DEFINE m   == block[1]
             cut == TruncateMessage(m, budget)
  <2>1. TruncateBlock(block, budget) = <<cut>>
    BY <1>1 DEF TruncateBlock
  <2>2. m \in AnyMessage
    BY <1>len, <1>1
  <2>3. /\ cut \in AnyMessage /\ SameUpToText(cut, m) /\ cut.text <= m.text + Drift
        /\ MessageTokens(cut) <= budget + Bare(cut) + Drift
    BY <2>2, CutMessage
  <2>4. Bare(cut) \in Nat /\ Drift \in Nat
    BY <2>3, MessageCosts, BudgetAssumption
  <2> HIDE DEF cut
  <2>5. MessagesTokens(<<cut>>) = MessageTokens(cut) /\ Overrun(<<cut>>) = Bare(cut) + Drift
    BY <2>3, TokensOfFew
  <2>6. MessageTokens(cut) <= budget + (Bare(cut) + Drift)
    BY <2>3, <2>4
  <2>7. CutFrom(<<cut>>, block)
    <3>1. <<cut>> \in Seq(AnyMessage) /\ Len(<<cut>>) = 1 /\ <<cut>>[1] = cut
      BY <2>3
    <3> QED BY <1>1, <2>3, <3>1 DEF CutFrom
  <2> QED BY <2>1, <2>5, <2>6, <2>7
<1>2. CASE Len(block) # 1
  <2> DEFINE acc == TruncatedAfter(block, budget)
             Good(a, n) ==
               /\ a \in [out : Seq(AnyMessage), left : Int, done : BOOLEAN]
               /\ CutFrom(a.out, block) /\ Len(a.out) <= n /\ (~a.done => Len(a.out) = n)
               /\ a.left = budget - MessagesTokens(a.out)
               /\ MessagesTokens(a.out) <= budget + Overrun(a.out)
             T == {n \in Nat : n <= Len(block) => Good(acc[n], n)}
  <2>def. \A i \in 0 .. Len(block) :
            acc[i] = IF i = 0 THEN [out |-> <<>>, left |-> budget, done |-> FALSE]
                     ELSE TruncateNext(acc[i - 1], block[i])
    <3> HIDE DEF acc
    <3>1. acc = [i \in 0 .. Len(block) |->
                   IF i = 0 THEN [out |-> <<>>, left |-> budget, done |-> FALSE]
                   ELSE TruncateNext(acc[i - 1], block[i])]
      BY <1>len, TruncatedAfterDef DEF acc
    <3> QED BY <3>1
  <2> HIDE DEF acc
  <2>1. 0 \in T
    <3>1. acc[0] = [out |-> <<>>, left |-> budget, done |-> FALSE]
      <4>1. 0 \in 0 .. Len(block)
        BY <1>len
      <4> QED BY <2>def, <4>1, Zenon
    <3>2. <<>> \in Seq(AnyMessage) /\ Len(<<>>) = 0 /\ CutFrom(<<>>, block)
      BY <1>len DEF CutFrom
    <3>3. acc[0].out = <<>> /\ acc[0].left = budget /\ ~acc[0].done
      BY <3>1
    <3>4. acc[0] \in [out : Seq(AnyMessage), left : Int, done : BOOLEAN]
      BY <3>1, <3>2
    <3>5. MessagesTokens(<<>>) = 0 /\ Overrun(<<>>) = 0
      BY TokensOfFew
    <3>6. acc[0].left = budget - MessagesTokens(acc[0].out)
      BY <3>3, <3>5
    <3>7. MessagesTokens(acc[0].out) <= budget + Overrun(acc[0].out)
      BY <3>3, <3>5
    <3> QED BY <3>2, <3>3, <3>4, <3>6, <3>7
  <2>2. ASSUME NEW n \in Nat, n \in T PROVE n + 1 \in T
    <3> SUFFICES ASSUME n + 1 <= Len(block) PROVE Good(acc[n + 1], n + 1)
      <4> HIDE DEF Good
      <4> QED OBVIOUS
    <3>1. Good(acc[n], n)
      BY <1>len, <2>2
    <3>2. acc[n + 1] = TruncateNext(acc[n], block[n + 1])
      <4>1. n + 1 \in 0 .. Len(block) /\ n + 1 # 0 /\ (n + 1) - 1 = n
        BY <1>len
      <4> QED BY <2>def, <4>1
    <3> DEFINE a == acc[n]
    <3>3. Good(TruncateNext(a, block[n + 1]), n + 1)
      <4> HIDE DEF a
      <4>1. Good(a, n)
        BY <3>1 DEF a
      <4> QED BY <4>1, TruncateNextKeeps
    <3> HIDE DEF Good
    <3> QED BY <3>2, <3>3
  <2>3. Len(block) \in T
    <3> HIDE DEF T
    <3> QED BY <1>len, <2>1, <2>2, NatSetInduction
  <2>4. Good(acc[Len(block)], Len(block))
    BY <1>len, <2>3
  <2>5. TruncateBlock(block, budget) = acc[Len(block)].out
    BY <1>2 DEF TruncateBlock, acc
  <2> QED BY <2>4, <2>5
<1> QED BY <1>1, <1>2

-------------------------------------------------------------------------------
(* Blocks                                                                  *)

(* A set of positions has a first and a last one.                           *)
LEMMA FirstAndLast ==
  ASSUME NEW n \in Nat, NEW S \in SUBSET (1 .. n), S # {}
  PROVE  /\ \E i \in S : \A j \in S : i <= j
         /\ \E i \in S : \A j \in S : j <= i
<1> DEFINE T == {k \in Nat : k <= n => \A R \in SUBSET (1 .. k) : R # {} =>
                               /\ \E i \in R : \A j \in R : i <= j
                               /\ \E i \in R : \A j \in R : j <= i}
<1>1. 0 \in T
  <2>1. 1 .. 0 = {}
    OBVIOUS
  <2> QED BY <2>1
<1>2. ASSUME NEW k \in Nat, k \in T PROVE k + 1 \in T
  <2> SUFFICES ASSUME k + 1 <= n, NEW R \in SUBSET (1 .. k + 1), R # {}
               PROVE  /\ \E i \in R : \A j \in R : i <= j
                      /\ \E i \in R : \A j \in R : j <= i
    OBVIOUS
  <2>1. \A Q \in SUBSET (1 .. k) : Q # {} => /\ \E i \in Q : \A j \in Q : i <= j
                                            /\ \E i \in Q : \A j \in Q : j <= i
    BY <1>2
  <2>2. CASE k + 1 \notin R
    <3>1. R \in SUBSET (1 .. k)
      BY <2>2
    <3> QED BY <2>1, <3>1
  <2>3. CASE R = {k + 1}
    BY <2>3
  <2>4. CASE k + 1 \in R /\ R # {k + 1}
    <3> DEFINE Q == R \ {k + 1}
    <3>1. Q \in SUBSET (1 .. k) /\ Q # {}
      BY <2>4
    <3>2. PICK i \in Q : \A j \in Q : i <= j
      BY <2>1, <3>1
    <3>3. i \in R /\ \A j \in R : i <= j
      BY <3>1, <3>2
    <3>4. \A j \in R : j <= k + 1
      OBVIOUS
    <3> QED BY <2>4, <3>3, <3>4
  <2> QED BY <2>2, <2>3, <2>4
<1>3. n \in T
  <2> HIDE DEF T
  <2> QED BY <1>1, <1>2, NatSetInduction
<1> QED BY <1>3

(* A message that is no tool result begins a block, and so does the first.  *)
LEMMA BlocksBegin ==
  ASSUME NEW ms \in Seq(AnyMessage), ms # <<>>
  PROVE  /\ BlockStarts(ms) \subseteq 1 .. Len(ms) /\ 1 \in BlockStarts(ms) /\ Len(ms) \in Nat \ {0}
         /\ ms[Len(ms)].role # "tool" => Len(ms) \in BlockStarts(ms)
<1>1. Len(ms) \in Nat \ {0}
  BY LenProperties, EmptySeq
<1>2. BeginsBlock(ms, 1)
  BY DEF BeginsBlock
<1>3. ASSUME ms[Len(ms)].role # "tool" PROVE BeginsBlock(ms, Len(ms))
  <2>1. ASSUME NEW j \in 1 .. Len(ms) - 1 PROVE Len(ms) \in j + 1 .. Len(ms)
    BY <1>1
  <2> QED BY <1>3, <2>1 DEF BeginsBlock
<1> QED BY <1>1, <1>2, <1>3 DEF BlockStarts

LEMMA NewestBlockIs ==
  ASSUME NEW ms \in Seq(AnyMessage), ms # <<>>
  PROVE  \E i \in BlockStarts(ms) :
           /\ \A j \in BlockStarts(ms) : j <= i
           /\ NewestBlock(ms) = SubSeq(ms, i, Len(ms))
<1>1. BlockStarts(ms) \subseteq 1 .. Len(ms) /\ BlockStarts(ms) # {} /\ Len(ms) \in Nat
  BY BlocksBegin
<1>2. \E i \in BlockStarts(ms) : \A j \in BlockStarts(ms) : j <= i
  BY <1>1, FirstAndLast
<1> QED BY <1>2 DEF NewestBlock

(* Where the kept blocks begin: at one, if any fits, and the newest messages *)
(* that fit from a block on are among them.                                 *)
LEMMA KeptFromIs ==
  ASSUME NEW ms \in Seq(AnyMessage), ms # <<>>, NEW remaining \in Int
  PROVE  \/ /\ KeptFrom(ms, remaining) \in BlockStarts(ms)
            /\ KeptFrom(ms, remaining) \in 1 .. Len(ms)
            /\ MessagesTokens(SubSeq(ms, KeptFrom(ms, remaining), Len(ms))) <= remaining
         \/ /\ KeptFrom(ms, remaining) = Len(ms) + 1
            /\ \A i \in BlockStarts(ms) : ~(MessagesTokens(SubSeq(ms, i, Len(ms))) <= remaining)
<1> DEFINE fits == {i \in BlockStarts(ms) : MessagesTokens(SubSeq(ms, i, Len(ms))) <= remaining}
<1>1. fits \subseteq 1 .. Len(ms) /\ Len(ms) \in Nat
  BY BlocksBegin
<1>2. CASE fits = {}
  BY <1>2 DEF KeptFrom
<1>3. CASE fits # {}
  <2>1. \E i \in fits : \A j \in fits : i <= j
    <3> HIDE DEF fits
    <3> QED BY <1>1, <1>3, FirstAndLast
  <2>2. KeptFrom(ms, remaining) \in fits
    BY <1>3, <2>1 DEF KeptFrom
  <2> QED BY <1>1, <2>2
<1> QED BY <1>2, <1>3

-------------------------------------------------------------------------------
(* The choice of the messages                                              *)

(* The budget FitMessages works with.                                       *)
BudgetOf(tools, modelMax, maxOutput) ==
  InputBudget(tools, GivenOr(modelMax, DefaultModelMax), GivenOr(maxOutput, DefaultMaxOutput))

(* The limits an agent settles on are positive, but for an output limit of  *)
(* zero, where both ways to compute the budget find none.                   *)
LEMMA LimitsOfAgent ==
  ASSUME NEW tools \in Nat, NEW max \in Int, NEW out \in Int
  PROVE  LET limits == AgentLimits(max, out)
         IN  /\ limits.modelMax \in Nat \ {0} /\ limits.maxOutput \in Nat
             /\ BudgetOf(tools, limits.modelMax, limits.maxOutput)
                  = InputBudget(tools, limits.modelMax, limits.maxOutput)
             /\ InputBudget(tools, limits.modelMax, limits.maxOutput) \in Nat
<1> DEFINE limits == AgentLimits(max, out)
           m == GivenOr(max, DefaultModelMax)
           o == GivenOr(out, DefaultMaxOutput)
<1>1. /\ DefaultModelMax \in Nat \ {0} /\ DefaultMaxOutput \in Nat \ {0}
      /\ SafetyMargin \in Nat /\ SafetyMargin >= 4
  BY BudgetAssumption
<1>2. m \in Nat \ {0} /\ o \in Nat \ {0}
  BY <1>1 DEF GivenOr
<1>3. /\ limits.modelMax = m
      /\ limits.maxOutput = IF o < m THEN o ELSE IF DefaultMaxOutput < m THEN DefaultMaxOutput ELSE m \div 4
  BY DEF AgentLimits
<1> HIDE DEF m, o, limits
<1>4. limits.maxOutput \in Nat /\ (limits.maxOutput = 0 => m < 4)
  BY <1>1, <1>2, <1>3
<1>5. GivenOr(limits.modelMax, DefaultModelMax) = m
  BY <1>2, <1>3 DEF GivenOr
<1>6. CASE limits.maxOutput # 0
  <2>1. GivenOr(limits.maxOutput, DefaultMaxOutput) = limits.maxOutput
    BY <1>4, <1>6 DEF GivenOr
  <2>2. InputBudget(tools, m, limits.maxOutput) \in Nat
    BY <1>1, <1>2, <1>4 DEF InputBudget
  <2> QED BY <1>2, <1>3, <1>4, <1>5, <2>1, <2>2 DEF BudgetOf, limits
<1>7. CASE limits.maxOutput = 0
  <2>1. GivenOr(limits.maxOutput, DefaultMaxOutput) = DefaultMaxOutput
    BY <1>7 DEF GivenOr
  <2>2. InputBudget(tools, m, DefaultMaxOutput) = m \div 2 /\ InputBudget(tools, m, 0) = m \div 2
    BY <1>1, <1>2, <1>4, <1>7 DEF InputBudget
  <2>3. m \div 2 \in Nat
    BY <1>2
  <2> QED BY <1>2, <1>3, <1>4, <1>5, <1>7, <2>1, <2>2, <2>3 DEF BudgetOf, limits
<1> QED BY <1>6, <1>7

(* The ways in which FitMessages ends.                                      *)
Fallback(r, ms, budget) == budget <= 0 /\ r = <<TruncateByCommon(ms[1], SafetyMargin)>>
Whole(r, ms, budget) == budget > 0 /\ MessagesTokens(ms) <= budget /\ r = ms
SystemOnly(r, ms, budget) ==
  /\ budget > 0 /\ ~(MessagesTokens(ms) <= budget) /\ budget - MessageTokens(ms[1]) <= 0
  /\ r = <<TruncateByCommon(ms[1], budget)>>
WholeBlocks(r, ms, budget) ==
  \E i \in BlockStarts(Tail(ms)) :
    /\ r = <<ms[1]>> \o SubSeq(Tail(ms), i, Len(Tail(ms)))
    /\ MessagesTokens(SubSeq(Tail(ms), i, Len(Tail(ms)))) <= budget - MessageTokens(ms[1])
    /\ Tail(ms) # <<>>
OneCutBlock(r, ms, budget) ==
  LET remaining == budget - MessageTokens(ms[1])
  IN  /\ remaining > 0 /\ Tail(ms) # <<>>
      /\ \A i \in BlockStarts(Tail(ms)) :
           ~(MessagesTokens(SubSeq(Tail(ms), i, Len(Tail(ms)))) <= remaining)
      /\ r = <<ms[1]>> \o TruncateBlock(NewestBlock(Tail(ms)), remaining)

(* A history is its first message and the others.                           *)
LEMMA SystemAndTail ==
  ASSUME NEW ms \in Seq(AnyMessage), ms # <<>>
  PROVE  /\ ms[1] \in AnyMessage /\ Tail(ms) \in Seq(AnyMessage) /\ ms = <<ms[1]>> \o Tail(ms)
         /\ Len(ms) \in Nat \ {0} /\ Len(Tail(ms)) = Len(ms) - 1
         /\ \A i \in 1 .. Len(Tail(ms)) : Tail(ms)[i] = ms[i + 1]
         /\ MessagesTokens(ms) = MessageTokens(ms[1]) + MessagesTokens(Tail(ms))
<1>1. /\ Len(ms) \in Nat \ {0} /\ ms[1] \in AnyMessage /\ Tail(ms) \in Seq(AnyMessage)
      /\ Len(Tail(ms)) = Len(ms) - 1 /\ \A i \in 1 .. Len(Tail(ms)) : Tail(ms)[i] = ms[i + 1]
  BY LenProperties, EmptySeq, HeadTailProperties
<1>2. ms = <<ms[1]>> \o Tail(ms)
  BY <1>1, HeadTailProperties
<1>3. <<ms[1]>> \in Seq(AnyMessage) /\ MessagesTokens(<<ms[1]>>) = MessageTokens(ms[1])
  BY <1>1, TokensOfFew
<1>4. MessagesTokens(<<ms[1]>> \o Tail(ms)) = MessagesTokens(<<ms[1]>>) + MessagesTokens(Tail(ms))
  BY <1>1, <1>3, TokensAdd
<1> QED BY <1>1, <1>2, <1>3, <1>4

LEMMA FitEnds ==
  ASSUME NEW ms \in Seq(AnyMessage), ms # <<>>, NEW tools \in Nat, NEW max \in Int, NEW out \in Int,
         NEW budget \in Int, budget = BudgetOf(tools, max, out),
         NEW r, r = FitMessages(ms, tools, max, out)
  PROVE  \/ Fallback(r, ms, budget) \/ Whole(r, ms, budget) \/ SystemOnly(r, ms, budget)
         \/ WholeBlocks(r, ms, budget) \/ OneCutBlock(r, ms, budget)
<1> DEFINE remaining == budget - MessageTokens(ms[1])
           tail == Tail(ms)
<1>1. /\ ms[1] \in AnyMessage /\ tail \in Seq(AnyMessage)
      /\ MessagesTokens(ms) = MessageTokens(ms[1]) + MessagesTokens(tail)
  BY SystemAndTail
<1>2. MessageTokens(ms[1]) \in Nat /\ remaining \in Int /\ MessagesTokens(tail) \in Nat
  <2>1. MessageTokens(ms[1]) \in Nat /\ MessagesTokens(tail) \in Nat
    <3> HIDE DEF tail
    <3> QED BY <1>1, MessageCosts, TokensAdd
  <2> QED BY <2>1
<1>3. r = IF budget <= 0 THEN <<TruncateByCommon(ms[1], SafetyMargin)>>
          ELSE IF MessagesTokens(ms) <= budget THEN ms
          ELSE IF remaining <= 0 THEN <<TruncateByCommon(ms[1], budget)>>
          ELSE <<ms[1]>> \o KeptTail(tail, remaining)
  BY DEF FitMessages, BudgetOf
<1>4. CASE budget <= 0
  BY <1>3, <1>4 DEF Fallback
<1>5. CASE budget > 0 /\ MessagesTokens(ms) <= budget
  BY <1>3, <1>5 DEF Whole
<1>6. CASE budget > 0 /\ ~(MessagesTokens(ms) <= budget) /\ remaining <= 0
  BY <1>3, <1>6 DEF SystemOnly
<1>7. CASE budget > 0 /\ ~(MessagesTokens(ms) <= budget) /\ remaining > 0
  <2>1. r = <<ms[1]>> \o KeptTail(tail, remaining)
    BY <1>2, <1>3, <1>7
  <2>2. tail # <<>>
    <3>1. MessagesTokens(tail) # 0
      BY <1>1, <1>2, <1>7
    <3> QED BY <3>1, TokensOfFew
  <2>3. Len(tail) \in Nat
    BY <1>1, LenProperties
  <2> DEFINE from == KeptFrom(tail, remaining)
  <2>4. CASE /\ from \in BlockStarts(tail) /\ from \in 1 .. Len(tail)
             /\ MessagesTokens(SubSeq(tail, from, Len(tail))) <= remaining
    <3>1. KeptTail(tail, remaining) = SubSeq(tail, from, Len(tail))
      <4>1. ~(from > Len(tail))
        BY <2>3, <2>4
      <4> HIDE DEF tail, remaining
      <4> QED BY <2>2, <4>1 DEF KeptTail
    <3> QED BY <2>1, <2>2, <2>4, <3>1 DEF WholeBlocks
  <2>5. CASE /\ from = Len(tail) + 1
             /\ \A i \in BlockStarts(tail) : ~(MessagesTokens(SubSeq(tail, i, Len(tail))) <= remaining)
    <3>1. KeptTail(tail, remaining) = TruncateBlock(NewestBlock(tail), remaining)
      BY <2>2, <2>3, <2>5 DEF KeptTail
    <3> QED BY <1>7, <2>1, <2>2, <2>5, <3>1 DEF OneCutBlock
  <2> QED BY <1>1, <1>2, <2>2, <2>4, <2>5, KeptFromIs
<1> QED BY <1>2, <1>4, <1>5, <1>6, <1>7

LEMMA NewestBlockProperties ==
  ASSUME NEW ms \in Seq(AnyMessage), ms # <<>>
  PROVE  NewestBlock(ms) \in Seq(AnyMessage) /\ NewestBlock(ms) # <<>>
<1>1. PICK i \in BlockStarts(ms) : NewestBlock(ms) = SubSeq(ms, i, Len(ms))
  BY NewestBlockIs
<1>2. i \in 1 .. Len(ms) /\ Len(ms) \in Nat
  BY <1>1, BlocksBegin
<1>3. SubSeq(ms, i, Len(ms)) \in Seq(AnyMessage) /\ Len(SubSeq(ms, i, Len(ms))) = Len(ms) - i + 1
  BY <1>2, SubSeqProperties
<1>4. Len(SubSeq(ms, i, Len(ms))) # 0
  BY <1>2, <1>3
<1> QED BY <1>1, <1>3, <1>4, EmptySeq

(* Whatever the way, what is sent is chosen from the newest end.            *)
LEMMA FitSelects ==
  ASSUME NEW ms \in Seq(AnyMessage), ms # <<>>, NEW tools \in Nat, NEW max \in Int, NEW out \in Int,
         BudgetOf(tools, max, out) \in Int
  PROVE  SelectsFromEnd(FitMessages(ms, tools, max, out), ms)
<1> DEFINE r      == FitMessages(ms, tools, max, out)
           budget == BudgetOf(tools, max, out)
           tail   == Tail(ms)
<1>1. \/ Fallback(r, ms, budget) \/ Whole(r, ms, budget) \/ SystemOnly(r, ms, budget)
      \/ WholeBlocks(r, ms, budget) \/ OneCutBlock(r, ms, budget)
  BY FitEnds
<1>2. /\ ms[1] \in AnyMessage /\ tail \in Seq(AnyMessage) /\ ms = <<ms[1]>> \o tail
      /\ Len(ms) \in Nat \ {0} /\ Len(tail) = Len(ms) - 1
  BY SystemAndTail
<1> SUFFICES SelectsFromEnd(r, ms)
  OBVIOUS
<1> HIDE DEF r, budget, tail
<1>one. ASSUME NEW b \in Nat \ {0}, r = <<TruncateByCommon(ms[1], b)>> PROVE SelectsFromEnd(r, ms)
  <2>1. SameUpToText(TruncateByCommon(ms[1], b), ms[1])
    BY <1>2, CutByCommon
  <2>2. Len(r) = 1 /\ r[1] = TruncateByCommon(ms[1], b)
    BY <1>one
  <2> QED BY <2>1, <2>2 DEF SelectsFromEnd
<1>blocks. ASSUME NEW i \in BlockStarts(tail) \cup {Len(ms)}, r = <<ms[1]>> \o SubSeq(tail, i, Len(ms) - 1)
           PROVE  SelectsFromEnd(r, ms)
  BY <1>blocks DEF SelectsFromEnd, tail
<1>3. CASE Fallback(r, ms, budget)
  <2>1. SafetyMargin \in Nat \ {0}
    BY BudgetAssumption
  <2>2. r = <<TruncateByCommon(ms[1], SafetyMargin)>>
    BY <1>3 DEF Fallback
  <2> QED BY <1>one, <2>1, <2>2, Zenon
<1>4. CASE SystemOnly(r, ms, budget)
  <2>1. budget \in Nat \ {0}
    <3>1. budget \in Int
      BY DEF budget
    <3> QED BY <1>4, <3>1 DEF SystemOnly
  <2>2. r = <<TruncateByCommon(ms[1], budget)>>
    BY <1>4 DEF SystemOnly
  <2> QED BY <1>one, <2>1, <2>2, Zenon
<1>5. CASE Whole(r, ms, budget)
  <2>1. r = <<ms[1]>> \o tail
    BY <1>2, <1>5 DEF Whole
  <2>2. CASE tail = <<>>
    <3>1. Len(ms) = 1
      BY <1>2, <2>2
    <3>2. SubSeq(tail, Len(ms), Len(ms) - 1) = <<>>
      BY <2>2, <3>1
    <3>3. r = <<ms[1]>> \o SubSeq(tail, Len(ms), Len(ms) - 1)
      BY <2>1, <2>2, <3>2
    <3>4. Len(ms) \in BlockStarts(tail) \cup {Len(ms)}
      OBVIOUS
    <3> QED BY <1>blocks, <3>3, <3>4, Zenon
  <2>3. CASE tail # <<>>
    <3>1. 1 \in BlockStarts(tail)
      BY <1>2, <2>3, BlocksBegin
    <3>2. SubSeq(tail, 1, Len(tail)) = tail
      BY <1>2
    <3>3. Len(ms) - 1 = Len(tail)
      BY <1>2
    <3>4. r = <<ms[1]>> \o SubSeq(tail, 1, Len(ms) - 1)
      BY <2>1, <3>2, <3>3
    <3>5. 1 \in BlockStarts(tail) \cup {Len(ms)}
      BY <3>1
    <3> QED BY <1>blocks, <3>4, <3>5, Zenon
  <2> QED BY <2>2, <2>3
<1>6. CASE WholeBlocks(r, ms, budget)
  <2>1. PICK i \in BlockStarts(tail) : r = <<ms[1]>> \o SubSeq(tail, i, Len(tail))
    BY <1>6 DEF WholeBlocks, tail
  <2>2. Len(ms) - 1 = Len(tail)
    BY <1>2
  <2>3. r = <<ms[1]>> \o SubSeq(tail, i, Len(ms) - 1)
    BY <2>1, <2>2
  <2>4. i \in BlockStarts(tail) \cup {Len(ms)}
    OBVIOUS
  <2> QED BY <1>blocks, <2>3, <2>4, Zenon
<1>7. CASE OneCutBlock(r, ms, budget)
  <2> DEFINE remaining == budget - MessageTokens(ms[1])
             newest == NewestBlock(tail)
             cut    == TruncateBlock(newest, remaining)
  <2>1. remaining > 0 /\ tail # <<>> /\ r = <<ms[1]>> \o cut
    BY <1>7 DEF OneCutBlock, tail
  <2>2. remaining \in Nat \ {0}
    <3>1. MessageTokens(ms[1]) \in Nat /\ budget \in Int
      BY <1>2, MessageCosts DEF budget
    <3> QED BY <2>1, <3>1
  <2> HIDE DEF remaining
  <2>3. newest \in Seq(AnyMessage) /\ newest # <<>>
    BY <1>2, <2>1, NewestBlockProperties
  <2> HIDE DEF newest
  <2>4. CutFrom(cut, newest)
    BY <2>2, <2>3, CutBlock
  <2> HIDE DEF cut
  <2>5. /\ cut \in Seq(AnyMessage) /\ Len(cut) \in Nat /\ Len(cut) <= Len(newest)
        /\ \A i \in 1 .. Len(cut) : SameUpToText(cut[i], newest[i]) /\ cut[i].text <= newest[i].text + Drift
    BY <2>4, LenProperties DEF CutFrom
  <2>6. Len(r) = Len(cut) + 1 /\ r[1] = ms[1] /\ \A i \in 2 .. Len(cut) + 1 : r[i] = cut[i - 1]
    BY <1>2, <2>1, <2>5
  <2>7. r # <<>> /\ Len(r) - 1 <= Len(newest)
    <3>1. Len(r) # 0 /\ Len(r) - 1 = Len(cut)
      BY <2>5, <2>6
    <3> QED BY <2>5, <3>1
  <2>8. ASSUME NEW i \in 2 .. Len(r)
        PROVE  SameUpToText(r[i], newest[i - 1]) /\ r[i].text <= newest[i - 1].text + Drift
    <3>1. i \in 2 .. Len(cut) + 1 /\ i - 1 \in 1 .. Len(cut)
      BY <2>5, <2>6
    <3> QED BY <2>5, <2>6, <3>1
  <2>9. /\ r # <<>> /\ r[1] = ms[1]
        /\ Len(r) - 1 <= Len(newest)
        /\ \A i \in 2 .. Len(r) :
             SameUpToText(r[i], newest[i - 1]) /\ r[i].text <= newest[i - 1].text + Drift
    BY <2>6, <2>7, <2>8
  <2> QED BY <2>9, Zenon DEF SelectsFromEnd, newest, tail
<1> QED BY <1>1, <1>3, <1>4, <1>5, <1>6, <1>7

(* What is sent fits, but for what the messages of a cut block cost without  *)
(* their texts; and it fits in full whenever the newest block does.         *)
LEMMA FitFits ==
  ASSUME NEW ms \in Seq(AnyMessage), ms # <<>>, NEW tools \in Nat, NEW max \in Int, NEW out \in Int,
         NEW budget \in Nat, budget = BudgetOf(tools, max, out)
  PROVE  LET r     == FitMessages(ms, tools, max, out)
             least == IF Len(ms) = 1 THEN <<>> ELSE NewestBlock(Tail(ms))
             most  == IF budget > 0 THEN budget ELSE SafetyMargin
         IN  /\ MessagesTokens(<<ms[1]>> \o least) <= budget => MessagesTokens(r) <= budget
             /\ MessageTokens(ms[1]) < budget => MessagesTokens(r) <= budget + Overrun(r)
             /\ \/ MessagesTokens(<<ms[1]>> \o least) <= budget
                \/ MessageTokens(ms[1]) < budget
                \/ MessagesTokens(r) <= Bare(ms[1]) + ModelTokens(most) + SuffixTokens + Drift
<1> DEFINE r     == FitMessages(ms, tools, max, out)
           tail  == Tail(ms)
           least == IF Len(ms) = 1 THEN <<>> ELSE NewestBlock(tail)
           most  == IF budget > 0 THEN budget ELSE SafetyMargin
           one   == MessageTokens(ms[1])
<1>1. \/ Fallback(r, ms, budget) \/ Whole(r, ms, budget) \/ SystemOnly(r, ms, budget)
      \/ WholeBlocks(r, ms, budget) \/ OneCutBlock(r, ms, budget)
  BY FitEnds
<1>2. /\ ms[1] \in AnyMessage /\ tail \in Seq(AnyMessage) /\ ms = <<ms[1]>> \o tail
      /\ Len(ms) \in Nat \ {0} /\ Len(tail) = Len(ms) - 1 /\ one \in Nat \ {0}
      /\ SafetyMargin \in Nat \ {0}
  <2>1. SafetyMargin \in Nat \ {0}
    BY BudgetAssumption
  <2>2. /\ ms[1] \in AnyMessage /\ tail \in Seq(AnyMessage) /\ ms = <<ms[1]>> \o tail
        /\ Len(ms) \in Nat \ {0} /\ Len(tail) = Len(ms) - 1
    BY SystemAndTail
  <2> QED BY <2>1, <2>2, MessageCosts
<1>3. tail = <<>> <=> Len(ms) = 1
  <2>1. Len(tail) = 0 <=> Len(ms) = 1
    BY <1>2
  <2>2. tail = <<>> <=> Len(tail) = 0
    <3> HIDE DEF tail
    <3> QED BY <1>2, EmptySeq
  <2> QED BY <2>1, <2>2
<1> HIDE DEF r, tail, one
<1>4. least \in Seq(AnyMessage)
  BY <1>2, <1>3, NewestBlockProperties
<1>5. \A s \in Seq(AnyMessage) :
        /\ MessagesTokens(<<ms[1]>> \o s) = one + MessagesTokens(s)
        /\ Overrun(<<ms[1]>> \o s) = (Bare(ms[1]) + Drift) + Overrun(s)
        /\ MessagesTokens(s) \in Nat /\ Overrun(s) \in Nat
  <2>1. <<ms[1]>> \in Seq(AnyMessage)
    BY <1>2
  <2> QED BY <1>2, <2>1, TokensOfFew, TokensAdd DEF one
<1>6. Bare(ms[1]) \in Nat /\ Drift \in Nat
  BY <1>2, MessageCosts, BudgetAssumption
<1> DEFINE bound == Bare(ms[1]) + ModelTokens(most) + SuffixTokens + Drift
<1>single. ASSUME NEW b \in Nat \ {0}, b = most, r = <<TruncateByCommon(ms[1], b)>>
           PROVE  MessagesTokens(r) <= bound
  <2> DEFINE cut == TruncateByCommon(ms[1], b)
  <2>1. /\ cut \in AnyMessage
        /\ MessageTokens(cut) <= Bare(ms[1]) + ModelTokens(b) + SuffixTokens + Drift
    BY <1>2, CutByCommon
  <2> HIDE DEF cut
  <2>2. MessagesTokens(<<cut>>) = MessageTokens(cut)
    BY <2>1, TokensOfFew
  <2>3. MessageTokens(cut) <= bound
    <3> HIDE DEF most
    <3> QED BY <1>single, <2>1
  <2>4. r = <<cut>>
    BY <1>single DEF cut
  <2> HIDE DEF bound
  <2> QED BY <2>2, <2>3, <2>4
<1>least. MessagesTokens(<<ms[1]>> \o least) = one + MessagesTokens(least) /\ MessagesTokens(least) \in Nat
  BY <1>4, <1>5
<1> HIDE DEF least
<1>7. CASE Fallback(r, ms, budget)
  <2>1. budget = 0 /\ r = <<TruncateByCommon(ms[1], SafetyMargin)>> /\ most = SafetyMargin
    BY <1>7 DEF Fallback
  <2>2. MessagesTokens(r) <= bound
    BY <1>2, <1>single, <2>1
  <2>3. ~(one + MessagesTokens(least) <= budget) /\ ~(one < budget)
    BY <1>2, <1>least, <2>1
  <2> QED BY <1>least, <2>2, <2>3 DEF r, least, tail, one
<1>8. CASE SystemOnly(r, ms, budget)
  <2>1. budget \in Nat \ {0} /\ r = <<TruncateByCommon(ms[1], budget)>> /\ most = budget /\ budget - one <= 0
    BY <1>8 DEF SystemOnly, one
  <2>2. MessagesTokens(r) <= bound
    BY <1>single, <2>1
  <2>3. ~(one < budget)
    BY <1>2, <2>1
  <2>4. ASSUME one + MessagesTokens(least) <= budget PROVE FALSE
    <3>1. one = budget /\ MessagesTokens(least) = 0
      BY <1>2, <1>least, <2>1, <2>4
    <3>2. least = <<>>
      <4> SUFFICES ASSUME least # <<>> PROVE FALSE
        OBVIOUS
      <4>1. /\ least[1] \in AnyMessage /\ Tail(least) \in Seq(AnyMessage)
            /\ MessagesTokens(least) = MessageTokens(least[1]) + MessagesTokens(Tail(least))
        BY <1>4, SystemAndTail
      <4>2. MessageTokens(least[1]) \in Nat \ {0} /\ MessagesTokens(Tail(least)) \in Nat
        BY <1>5, <4>1, MessageCosts
      <4> QED BY <3>1, <4>1, <4>2
    <3>3. tail = <<>>
      BY <1>2, <1>3, <3>2, NewestBlockProperties DEF least
    <3>4. MessagesTokens(ms) = one
      <4>1. MessagesTokens(ms) = one + MessagesTokens(tail)
        BY SystemAndTail DEF one, tail
      <4>2. MessagesTokens(tail) = 0
        BY <3>3, TokensOfFew
      <4> QED BY <1>2, <4>1, <4>2
    <3> QED BY <1>2, <1>8, <3>1, <3>4 DEF SystemOnly
  <2> QED BY <1>least, <2>2, <2>3, <2>4 DEF r, least, tail, one
<1>9. CASE Whole(r, ms, budget)
  <2>1. r = ms /\ MessagesTokens(r) <= budget /\ most = budget
    BY <1>9 DEF Whole
  <2>2. MessagesTokens(r) \in Nat /\ Overrun(r) \in Nat
    BY <1>5, <2>1
  <2>3. MessagesTokens(r) <= budget + Overrun(r)
    BY <2>1, <2>2
  <2>4. MessagesTokens(<<ms[1]>> \o least) <= budget \/ MessageTokens(ms[1]) < budget
    <3>1. CASE tail = <<>>
      BY <1>2, <1>3, <2>1, <3>1 DEF least
    <3>2. CASE tail # <<>>
      <4>1. /\ tail[1] \in AnyMessage /\ Tail(tail) \in Seq(AnyMessage)
            /\ MessagesTokens(tail) = MessageTokens(tail[1]) + MessagesTokens(Tail(tail))
        BY <1>2, <3>2, SystemAndTail
      <4>2. MessageTokens(tail[1]) \in Nat \ {0} /\ MessagesTokens(Tail(tail)) \in Nat
        BY <1>5, <4>1, MessageCosts
      <4>3. MessagesTokens(ms) = one + MessagesTokens(tail)
        BY <1>2, <1>5
      <4> QED BY <1>2, <2>1, <4>1, <4>2, <4>3 DEF one
    <3> QED BY <3>1, <3>2
  <2> QED BY <2>1, <2>3, <2>4 DEF r, least, tail
<1>10. CASE WholeBlocks(r, ms, budget)
  <2>1. PICK i \in BlockStarts(tail) :
          /\ r = <<ms[1]>> \o SubSeq(tail, i, Len(tail))
          /\ MessagesTokens(SubSeq(tail, i, Len(tail))) <= budget - one /\ tail # <<>>
    BY <1>10 DEF WholeBlocks, tail, one
  <2>2. i \in 1 .. Len(tail) /\ Len(tail) \in Nat
    BY <1>2, <2>1, BlocksBegin
  <2> DEFINE kept == SubSeq(tail, i, Len(tail))
  <2>3. kept \in Seq(AnyMessage)
    BY <1>2, <2>2, SubSeqProperties
  <2> HIDE DEF kept
  <2>4. /\ MessagesTokens(r) = one + MessagesTokens(kept) /\ MessagesTokens(kept) \in Nat
        /\ Overrun(r) = (Bare(ms[1]) + Drift) + Overrun(kept) /\ Overrun(kept) \in Nat
        /\ MessagesTokens(kept) <= budget - one
    BY <1>5, <2>1, <2>3 DEF kept
  <2>5. MessagesTokens(r) <= budget /\ one < budget /\ Overrun(r) \in Nat
    <3> HIDE DEF one
    <3>1. one + MessagesTokens(kept) <= budget
      BY <1>2, <2>4
    <3>2. one < budget
      <4>1. Len(kept) = Len(tail) - i + 1
        BY <1>2, <2>2, SubSeqProperties DEF kept
      <4>2. kept # <<>>
        BY <2>2, <4>1
      <4>3. /\ kept[1] \in AnyMessage /\ Tail(kept) \in Seq(AnyMessage)
            /\ MessagesTokens(kept) = MessageTokens(kept[1]) + MessagesTokens(Tail(kept))
        BY <2>3, <4>2, SystemAndTail
      <4>4. MessageTokens(kept[1]) \in Nat \ {0} /\ MessagesTokens(Tail(kept)) \in Nat
        BY <1>5, <4>3, MessageCosts
      <4>5. MessagesTokens(kept) \in Nat /\ MessagesTokens(kept) > 0
        BY <4>3, <4>4
      <4>6. one \in Int
        BY <1>2
      <4> QED BY <3>1, <4>5, <4>6
    <3>3. Overrun(r) \in Nat
      BY <1>6, <2>4
    <3> QED BY <2>4, <3>1, <3>2, <3>3
  <2>6. MessagesTokens(r) <= budget + Overrun(r)
    <3>1. MessagesTokens(r) \in Nat
      BY <1>2, <2>4
    <3> QED BY <2>5, <3>1
  <2> QED BY <2>5, <2>6 DEF r, one
<1>11. CASE OneCutBlock(r, ms, budget)
  <2> DEFINE remaining == budget - one
             newest == NewestBlock(tail)
             cut    == TruncateBlock(newest, remaining)
  <2>1. /\ remaining > 0 /\ tail # <<>> /\ r = <<ms[1]>> \o cut
        /\ \A i \in BlockStarts(tail) : ~(MessagesTokens(SubSeq(tail, i, Len(tail))) <= remaining)
    BY <1>11 DEF OneCutBlock, tail, one
  <2>2. remaining \in Nat \ {0}
    BY <1>2, <2>1
  <2>3. newest \in Seq(AnyMessage) /\ newest # <<>>
    BY <1>2, <2>1, NewestBlockProperties
  <2>4. least = newest /\ ~(MessagesTokens(newest) <= remaining)
    <3>1. PICK i \in BlockStarts(tail) : newest = SubSeq(tail, i, Len(tail))
      BY <1>2, <2>1, NewestBlockIs
    <3> QED BY <1>3, <2>1, <3>1 DEF least
  <2>5. ~(one + MessagesTokens(least) <= budget)
    BY <1>2, <1>least, <2>4
  <2> HIDE DEF newest
  <2>6. CutFrom(cut, newest) /\ MessagesTokens(cut) <= remaining + Overrun(cut)
    <3> HIDE DEF remaining
    <3> QED BY <2>2, <2>3, CutBlock
  <2> HIDE DEF cut
  <2>7. /\ MessagesTokens(r) = one + MessagesTokens(cut) /\ MessagesTokens(cut) \in Nat
        /\ Overrun(r) = (Bare(ms[1]) + Drift) + Overrun(cut) /\ Overrun(cut) \in Nat
    BY <1>5, <2>1, <2>6 DEF CutFrom
  <2>8. MessagesTokens(r) <= budget + Overrun(r) /\ one < budget
    <3>1. one < budget
      BY <1>2, <2>1
    <3>2. MessagesTokens(r) <= budget + Overrun(cut)
      BY <1>2, <2>6, <2>7
    <3>3. Overrun(cut) <= Overrun(r) /\ Overrun(r) \in Nat
      BY <1>6, <2>7
    <3>4. Overrun(cut) \in Nat /\ MessagesTokens(r) \in Nat
      BY <1>2, <2>7
    <3> QED BY <3>1, <3>2, <3>3, <3>4
  <2> QED BY <1>least, <2>5, <2>8 DEF r, least, tail, one
<1> QED BY <1>1, <1>7, <1>8, <1>9, <1>10, <1>11

(* A sequence behind one element; and a part of length one. *)
LEMMA FirstBefore ==
  ASSUME NEW S, NEW x \in S, NEW s \in Seq(S)
  PROVE  /\ Len(<<x>> \o s) = 1 + Len(s) /\ (<<x>> \o s)[1] = x
         /\ \A j \in 1 .. Len(s) : (<<x>> \o s)[1 + j] = s[j]
OBVIOUS

LEMMA OneAtIt ==
  ASSUME NEW S, NEW s \in Seq(S), NEW n \in 1 .. Len(s)
  PROVE  SubSeq(s, n, n) = <<s[n]>>
<1> DEFINE t == SubSeq(s, n, n)
<1>1. PICK m : m = n
  OBVIOUS
<1>2. m \in Int /\ n \in Int /\ \A i \in m .. n : s[i] \in S
  BY <1>1, LenProperties
<1>3. /\ SubSeq(s, m, n) \in Seq(S)
      /\ Len(SubSeq(s, m, n)) = IF m <= n THEN n - m + 1 ELSE 0
      /\ \A i \in 1 .. n - m + 1 : SubSeq(s, m, n)[i] = s[m + i - 1]
  BY <1>2, SubSeqProperties
<1>4. m <= n /\ n - m + 1 = 1 /\ m + 1 - 1 = n /\ 1 \in 1 .. n - m + 1
  BY <1>1, <1>2
<1>5. t \in Seq(S) /\ Len(t) = 1 /\ t[1] = s[n]
  BY <1>1, <1>3, <1>4, Zenon
<1> HIDE DEF t
<1>6. t = <<t[1]>>
  BY <1>5
<1> QED BY <1>5, <1>6 DEF t

(* The user's message and the system message are sent if they fit together. *)
LEMMA FitKeepsNewest ==
  ASSUME NEW ms \in Seq(AnyMessage), Len(ms) >= 2, ms[Len(ms)].role # "tool",
         NEW tools \in Nat, NEW max \in Int, NEW out \in Int,
         NEW budget \in Nat \ {0}, budget = BudgetOf(tools, max, out),
         MessageTokens(ms[1]) + MessageTokens(ms[Len(ms)]) <= budget
  PROVE  LET r == FitMessages(ms, tools, max, out)
         IN  Len(r) >= 2 /\ r[1] = ms[1] /\ r[Len(r)] = ms[Len(ms)]
<1> DEFINE r    == FitMessages(ms, tools, max, out)
           tail == Tail(ms)
           n    == Len(tail)
           one  == MessageTokens(ms[1])
<1>0. ms # <<>>
  BY EmptySeq
<1>1. \/ Fallback(r, ms, budget) \/ Whole(r, ms, budget) \/ SystemOnly(r, ms, budget)
      \/ WholeBlocks(r, ms, budget) \/ OneCutBlock(r, ms, budget)
  BY <1>0, FitEnds
<1>2. /\ ms[1] \in AnyMessage /\ tail \in Seq(AnyMessage) /\ Len(ms) \in Nat
      /\ n = Len(ms) - 1 /\ \A i \in 1 .. n : tail[i] = ms[i + 1]
  BY <1>0, SystemAndTail
<1> SUFFICES Len(r) >= 2 /\ r[1] = ms[1] /\ r[Len(r)] = ms[Len(ms)]
  OBVIOUS
<1>3. n \in Nat \ {0} /\ tail[n] = ms[Len(ms)] /\ tail[n] \in AnyMessage /\ tail # <<>>
  <2>1. n \in Nat \ {0} /\ n \in 1 .. n /\ n + 1 = Len(ms)
    BY <1>2
  <2>2. tail[n] \in AnyMessage
    BY <1>2, <2>1, LenProperties
  <2>3. tail # <<>>
    BY <1>2, <2>1, EmptySeq
  <2> QED BY <1>2, <2>1, <2>2, <2>3
<1> HIDE DEF r, tail, one, n
<1>4. one \in Nat /\ MessageTokens(tail[n]) \in Nat \ {0} /\ one + MessageTokens(tail[n]) <= budget
  BY <1>2, <1>3, MessageCosts DEF one
<1>5. CASE Fallback(r, ms, budget)
  BY <1>5 DEF Fallback
<1>6. CASE SystemOnly(r, ms, budget)
  <2>1. budget - one <= 0
    BY <1>6 DEF SystemOnly, one
  <2> QED BY <1>4, <2>1
<1>7. CASE Whole(r, ms, budget)
  BY <1>7 DEF Whole
<1>8. CASE WholeBlocks(r, ms, budget)
  <2>1. PICK i \in BlockStarts(tail) : r = <<ms[1]>> \o SubSeq(tail, i, n)
    BY <1>8 DEF WholeBlocks, tail, n
  <2>2. i \in 1 .. n
    BY <1>2, <1>3, <2>1, BlocksBegin DEF n
  <2> DEFINE kept == SubSeq(tail, i, n)
  <2>3. /\ kept \in Seq(AnyMessage) /\ Len(kept) = n - i + 1
        /\ \A j \in 1 .. n - i + 1 : kept[j] = tail[i + j - 1]
    BY <1>2, <1>3, <2>2, SubSeqProperties DEF n
  <2>4. n - i + 1 \in Nat \ {0} /\ n - i + 1 \in 1 .. n - i + 1 /\ i + (n - i + 1) - 1 = n
    BY <1>3, <2>2
  <2>5. r = <<ms[1]>> \o kept
    BY <2>1
  <2> HIDE DEF kept
  <2>6. kept[n - i + 1] = tail[n]
    BY <2>3, <2>4
  <2>7. /\ Len(r) = 1 + Len(kept) /\ r[1] = ms[1]
        /\ \A j \in 1 .. Len(kept) : r[1 + j] = kept[j]
    BY <1>2, <2>3, <2>5, FirstBefore
  <2>8. Len(r) >= 2 /\ Len(r) = 1 + (n - i + 1)
    BY <2>3, <2>4, <2>7
  <2>9. r[1 + (n - i + 1)] = kept[n - i + 1]
    BY <2>3, <2>4, <2>7
  <2> QED BY <1>3, <2>6, <2>7, <2>8, <2>9
<1>9. CASE OneCutBlock(r, ms, budget)
  <2>1. \A i \in BlockStarts(tail) : ~(MessagesTokens(SubSeq(tail, i, n)) <= budget - one)
    BY <1>9 DEF OneCutBlock, tail, n, one
  <2>2. n \in BlockStarts(tail)
    BY <1>2, <1>3, BlocksBegin DEF n
  <2>3. SubSeq(tail, n, n) = <<tail[n]>>
    BY <1>2, <1>3, OneAtIt DEF n
  <2>4. MessagesTokens(<<tail[n]>>) = MessageTokens(tail[n])
    BY <1>3, TokensOfFew
  <2>5. ~(MessageTokens(tail[n]) <= budget - one)
    BY <2>1, <2>2, <2>3, <2>4
  <2> QED BY <1>4, <2>5
<1> QED BY <1>1, <1>5, <1>6, <1>7, <1>8, <1>9

-------------------------------------------------------------------------------
(* Random numbers                                                          *)

(* A sum or difference of two int64 wraps at most once.                     *)
LEMMA WrapIs ==
  ASSUME NEW n \in Int
  PROVE  /\ n \in -Half .. Half - 1 => Wrap(n) = n
         /\ n \in Half .. 3 * Half - 1 => Wrap(n) = n - 2 * Half
<1>1. Half \in Nat
  BY ToolsAssumption
<1>2. ASSUME n \in -Half .. Half - 1 PROVE Wrap(n) = n
  <2>1. n + Half \in 0 .. 2 * Half - 1
    BY <1>1, <1>2
  <2>2. (n + Half) % (2 * Half) = n + Half
    BY <1>1, <2>1
  <2> QED BY <1>1, <2>2 DEF Wrap
<1>3. ASSUME n \in Half .. 3 * Half - 1 PROVE Wrap(n) = n - 2 * Half
  <2>1. n + Half \in 2 * Half .. 4 * Half - 1
    BY <1>1, <1>3
  <2>2. (n + Half) % (2 * Half) = n - Half
    BY <1>1, <2>1
  <2> QED BY <1>1, <2>2 DEF Wrap
<1> QED BY <1>2, <1>3


LEMMA DrawIs ==
  ASSUME NEW min, NEW max, min # max,
         NEW bound, bound = Wrap(Wrap(max - min) + 1), ~(bound <= 0)
  PROVE  SecureRandInt(min, max) = {Number(Wrap(min + k)) : k \in 0 .. bound - 1}
BY DEF SecureRandInt

(* What is drawn from a range, by its width.                                *)
LEMMA DrawnFrom ==
  ASSUME NEW min \in Int64, NEW max \in Int64, min <= max
  PROVE  LET drawn == IF Wrap(max - min) > RangeLimit THEN {TooWide} ELSE SecureRandInt(min, max)
         IN  /\ max - min >= Half => drawn = {Panics}
             /\ max - min < Half /\ max - min > RangeLimit => drawn = {TooWide}
             /\ max - min <= RangeLimit => drawn = {Number(n) : n \in min .. max}
<1> DEFINE width == max - min
           drawn == IF Wrap(width) > RangeLimit THEN {TooWide} ELSE SecureRandInt(min, max)
<1>1. Half \in Nat /\ RangeLimit \in 0 .. Half - 2
  BY ToolsAssumption
<1>2. width \in 0 .. 2 * Half - 1 /\ min \in Int /\ max \in Int
  BY <1>1 DEF Int64
<1>3. ASSUME width >= Half PROVE drawn = {Panics}
  <2>1. width \in Half .. 3 * Half - 1
    BY <1>1, <1>2, <1>3
  <2>2. Wrap(width) = width - 2 * Half
    BY <1>2, <2>1, WrapIs
  <2>3. width - 2 * Half + 1 \in -Half .. Half - 1 /\ width - 2 * Half + 1 \in Int
    BY <1>1, <1>2, <1>3
  <2>4. Wrap(Wrap(width) + 1) = width - 2 * Half + 1
    BY <2>2, <2>3, WrapIs
  <2>5. ~(Wrap(width) > RangeLimit) /\ Wrap(Wrap(width) + 1) <= 0 /\ min # max
    BY <1>1, <1>2, <1>3, <2>2, <2>4
  <2> QED BY <2>5 DEF SecureRandInt
<1>4. ASSUME width < Half, width > RangeLimit PROVE drawn = {TooWide}
  <2>1. width \in -Half .. Half - 1 /\ width \in Int
    BY <1>1, <1>2, <1>4
  <2>2. Wrap(width) = width
    BY <2>1, WrapIs
  <2> QED BY <1>4, <2>2
<1>5. ASSUME width <= RangeLimit PROVE drawn = {Number(n) : n \in min .. max}
  <2>1. width \in -Half .. Half - 1 /\ width + 1 \in -Half .. Half - 1 /\ width + 1 \in Int
    BY <1>1, <1>2, <1>5
  <2>2. Wrap(width) = width /\ Wrap(width + 1) = width + 1
    BY <1>2, <2>1, WrapIs
  <2>3. drawn = SecureRandInt(min, max)
    BY <1>1, <1>2, <1>5, <2>2
  <2>4. CASE min = max
    <3>1. min .. max = {min}
      BY <1>2, <2>4
    <3> QED BY <2>3, <2>4, <3>1 DEF SecureRandInt
  <2>5. CASE min # max
    <3>1. width + 1 > 0 /\ width + 1 - 1 = width
      BY <1>2, <2>5
    <3>2. drawn = {Number(Wrap(min + k)) : k \in 0 .. width}
      <4>1. PICK bound : bound = width + 1
        OBVIOUS
      <4>2. bound = Wrap(Wrap(max - min) + 1) /\ ~(bound <= 0) /\ bound - 1 = width
        BY <1>2, <2>2, <3>1, <4>1
      <4>3. SecureRandInt(min, max) = {Number(Wrap(min + k)) : k \in 0 .. bound - 1}
        BY <2>5, <4>2, DrawIs, Zenon
      <4> QED BY <2>3, <4>2, <4>3, Zenon
    <3>3. \A k \in 0 .. width : min + k \in min .. max /\ min + k \in Int /\ min + k \in -Half .. Half - 1
      BY <1>1, <1>2 DEF Int64
    <3>4. \A k \in 0 .. width : Wrap(min + k) = min + k
      BY <3>3, WrapIs
    <3>5. \A n \in min .. max : n - min \in 0 .. width /\ min + (n - min) = n
      BY <1>2
    <3>6. \A k \in 0 .. width : Number(Wrap(min + k)) \in {Number(n) : n \in min .. max}
      BY <3>3, <3>4
    <3>7. \A n \in min .. max : Number(n) \in {Number(Wrap(min + k)) : k \in 0 .. width}
      BY <3>4, <3>5
    <3> QED BY <3>2, <3>6, <3>7
  <2> QED BY <2>4, <2>5
<1> QED BY <1>3, <1>4, <1>5

(* A draw between two int64, in either order, or the default ones.          *)
LEMMA RandomIsDrawn ==
  ASSUME NEW a \in Int64, NEW b \in Int64
  PROVE  LET range == Ordered(a, b)
         IN  /\ range[1] \in Int64 /\ range[2] \in Int64 /\ range[1] <= range[2]
             /\ RandomNumber(a, b) = IF Wrap(range[2] - range[1]) > RangeLimit THEN {TooWide}
                                     ELSE SecureRandInt(range[1], range[2])
<1>1. Half \in Nat /\ DefaultMin \in Int64 /\ DefaultMax \in Int64 /\ DefaultMin < DefaultMax
  BY ToolsAssumption DEF Int64
<1>2. Int64 \subseteq Int
  BY <1>1 DEF Int64
<1>3. CASE a = 0 /\ b = 0
  <2>1. ~(DefaultMin > DefaultMax) /\ DefaultMin <= DefaultMax
    BY <1>1, <1>2
  <2> QED BY <1>1, <1>3, <2>1 DEF Ordered, RandomNumber
<1>4. CASE ~(a = 0 /\ b = 0) /\ a > b
  <2>1. b <= a
    BY <1>2, <1>4
  <2> QED BY <1>4, <2>1 DEF Ordered, RandomNumber
<1>5. CASE ~(a = 0 /\ b = 0) /\ ~(a > b)
  <2>1. a <= b
    BY <1>2, <1>5
  <2> QED BY <1>5, <2>1 DEF Ordered, RandomNumber
<1> QED BY <1>3, <1>4, <1>5

-------------------------------------------------------------------------------
(* The calculator                                                          *)

(* The recursive definitions have solutions, so they are solutions: the     *)
(* loop, the table of the parses, and the charts.                           *)
LEMMA TurnsDef ==
  ASSUME NEW s, Len(s) \in Nat, NEW ops, NEW first, NEW operands
  PROVE  Turns(s, ops, first, operands) =
           [i \in 0 .. Len(s) |->
              IF i = 0 THEN first
              ELSE Turn(s, ops, Turns(s, ops, first, operands)[i - 1], operands)]
<1> DEFINE Solves(n, f) ==
             f = [i \in 0 .. n |-> IF i = 0 THEN first ELSE Turn(s, ops, f[i - 1], operands)]
           S == {n \in Nat : \E f : Solves(n, f)}
<1>1. 0 \in S
  <2>1. Solves(0, [i \in 0 .. 0 |-> first])
    OBVIOUS
  <2> QED BY <2>1
<1>2. ASSUME NEW n \in Nat, n \in S PROVE n + 1 \in S
  <2>1. PICK f : Solves(n, f)
    BY <1>2
  <2> DEFINE g == [i \in 0 .. n + 1 |->
                     IF i <= n THEN f[i] ELSE Turn(s, ops, f[i - 1], operands)]
  <2>2. \A i \in 0 .. n + 1 : i # 0 => i - 1 \in 0 .. n /\ g[i - 1] = f[i - 1]
    OBVIOUS
  <2>3. \A i \in 0 .. n : f[i] = IF i = 0 THEN first ELSE Turn(s, ops, f[i - 1], operands)
    BY <2>1
  <2>4. \A i \in 0 .. n + 1 :
          g[i] = IF i = 0 THEN first ELSE Turn(s, ops, g[i - 1], operands)
    BY <2>2, <2>3
  <2>5. g = [i \in 0 .. n + 1 |-> g[i]]
    OBVIOUS
  <2>6. Solves(n + 1, g)
    <3> HIDE DEF g
    <3>1. [i \in 0 .. n + 1 |-> g[i]]
            = [i \in 0 .. n + 1 |->
                 IF i = 0 THEN first ELSE Turn(s, ops, g[i - 1], operands)]
      BY <2>4
    <3> QED BY <2>5, <3>1
  <2>7. \E h : Solves(n + 1, h)
    <3> HIDE DEF g, Solves, S
    <3> QED BY <2>6, Zenon
  <2> HIDE DEF Solves
  <2> QED BY <2>7
<1>3. Len(s) \in S
  <2> HIDE DEF S
  <2> QED BY <1>1, <1>2, NatSetInduction
<1>4. \E f : Solves(Len(s), f)
  BY <1>3
<1> QED BY <1>4, Zenon DEF Turns

LEMMA ChartsDef ==
  ASSUME NEW s, Len(s) \in Nat
  PROVE  Charts(s) =
           [n \in 0 .. Len(s) |->
              IF n = 0 THEN [factor |-> {}, term |-> {}, expression |-> {}]
              ELSE Derive(s, Charts(s)[n - 1])]
<1> DEFINE none == [factor |-> {}, term |-> {}, expression |-> {}]
           Solves(n, f) ==
             f = [i \in 0 .. n |-> IF i = 0 THEN [factor |-> {}, term |-> {}, expression |-> {}]
                                   ELSE Derive(s, f[i - 1])]
           S == {n \in Nat : \E f : Solves(n, f)}
<1>1. 0 \in S
  <2>1. Solves(0, [i \in 0 .. 0 |-> none])
    OBVIOUS
  <2> QED BY <2>1
<1>2. ASSUME NEW n \in Nat, n \in S PROVE n + 1 \in S
  <2>1. PICK f : Solves(n, f)
    BY <1>2
  <2> DEFINE g == [i \in 0 .. n + 1 |-> IF i <= n THEN f[i] ELSE Derive(s, f[i - 1])]
  <2>2. \A i \in 0 .. n + 1 : i # 0 => i - 1 \in 0 .. n /\ g[i - 1] = f[i - 1]
    OBVIOUS
  <2>3. \A i \in 0 .. n : f[i] = IF i = 0 THEN none ELSE Derive(s, f[i - 1])
    BY <2>1
  <2>4. \A i \in 0 .. n + 1 : g[i] = IF i = 0 THEN none ELSE Derive(s, g[i - 1])
    BY <2>2, <2>3
  <2>5. g = [i \in 0 .. n + 1 |-> g[i]]
    OBVIOUS
  <2>6. Solves(n + 1, g)
    <3> HIDE DEF g
    <3>1. [i \in 0 .. n + 1 |-> g[i]]
            = [i \in 0 .. n + 1 |-> IF i = 0 THEN none ELSE Derive(s, g[i - 1])]
      BY <2>4
    <3> QED BY <2>5, <3>1
  <2>7. \E h : Solves(n + 1, h)
    <3> HIDE DEF g, Solves, S
    <3> QED BY <2>6, Zenon
  <2> HIDE DEF Solves
  <2> QED BY <2>7
<1>3. Len(s) \in S
  <2> HIDE DEF S
  <2> QED BY <1>1, <1>2, NatSetInduction
<1>4. \E f : Solves(Len(s), f)
  BY <1>3
<1> QED BY <1>4, Zenon DEF Charts

(* The table with one position more.                                        *)
Before(s, at, later) ==
  [q \in at .. Len(s) + 1 |-> IF q = at THEN ParseAt(s, at, later) ELSE later[q]]

LEMMA ParsesFromDef ==
  ASSUME NEW s, Len(s) \in Nat
  PROVE  ParsesFrom(s) =
           [at \in 1 .. Len(s) + 2 |->
              IF at = Len(s) + 2 THEN [q \in {} |-> Failed]
              ELSE Before(s, at, ParsesFrom(s)[at + 1])]
<1> DEFINE end == Len(s) + 2
           none == [q \in {} |-> Failed]
           Solves(n, f) ==
             f = [at \in end - n .. Len(s) + 2 |->
                    IF at = Len(s) + 2 THEN [q \in {} |-> Failed] ELSE Before(s, at, f[at + 1])]
           S == {n \in Nat : \E f : Solves(n, f)}
<1>1. 0 \in S
  <2>1. Solves(0, [at \in end .. end |-> none])
    OBVIOUS
  <2> QED BY <2>1
<1>2. ASSUME NEW n \in Nat, n \in S PROVE n + 1 \in S
  <2>1. PICK f : Solves(n, f)
    BY <1>2
  <2> DEFINE a == end - (n + 1)
             g == [at \in a .. end |-> IF at # a THEN f[at] ELSE Before(s, at, f[at + 1])]
  <2>2. /\ a \in Int /\ a < end /\ end \in Int /\ end - n = a + 1
        /\ \A at \in a .. end : at # end => at + 1 \in end - n .. end /\ g[at + 1] = f[at + 1]
    OBVIOUS
  <2>3. \A at \in end - n .. end : f[at] = IF at = end THEN none ELSE Before(s, at, f[at + 1])
    BY <2>1
  <2>4. \A at \in a .. end :
          g[at] = IF at = end THEN none ELSE Before(s, at, g[at + 1])
    <3> HIDE DEF a, end
    <3> SUFFICES ASSUME NEW at \in a .. end
                 PROVE  g[at] = IF at = end THEN none ELSE Before(s, at, g[at + 1])
      OBVIOUS
    <3>1. CASE at = a
      BY <2>2, <3>1
    <3>2. CASE at # a
      <4>1. at \in end - n .. end /\ g[at] = f[at]
        BY <2>2, <3>2
      <4> QED BY <2>2, <2>3, <4>1
    <3> QED BY <3>1, <3>2
  <2>5. g = [at \in a .. end |-> g[at]]
    OBVIOUS
  <2>6. Solves(n + 1, g)
    <3> HIDE DEF g
    <3>1. [at \in a .. end |-> g[at]]
            = [at \in a .. end |-> IF at = end THEN none ELSE Before(s, at, g[at + 1])]
      BY <2>4
    <3> QED BY <2>5, <3>1
  <2>7. \E h : Solves(n + 1, h)
    <3> HIDE DEF g, Solves, S
    <3> QED BY <2>6, Zenon
  <2> HIDE DEF Solves
  <2> QED BY <2>7
<1>3. Len(s) + 1 \in S
  <2> HIDE DEF S
  <2> QED BY <1>1, <1>2, NatSetInduction
<1>4. PICK f : Solves(Len(s) + 1, f)
  BY <1>3
<1>5. f = [at \in 1 .. Len(s) + 2 |->
             IF at = Len(s) + 2 THEN [q \in {} |-> Failed] ELSE Before(s, at, f[at + 1])]
  BY <1>4
<1>6. \E h : h = [at \in 1 .. Len(s) + 2 |->
             IF at = Len(s) + 2 THEN [q \in {} |-> Failed] ELSE Before(s, at, h[at + 1])]
  BY <1>5, Zenon
<1> QED BY <1>6, Zenon DEF ParsesFrom, Before

(* The parse at a position rests on those behind it, whichever part of the   *)
(* table they are looked up in.                                             *)
Parses(s)   == ParsesFrom(s)[1]
Rest(s, at) == [q \in at + 1 .. Len(s) + 1 |-> Parses(s)[q]]

LEMMA ParsesAre ==
  ASSUME NEW s, Len(s) \in Nat, NEW at \in 1 .. Len(s) + 1
  PROVE  Parses(s)[at] = ParseAt(s, at, Rest(s, at))
<1> DEFINE n    == Len(s)
           from == ParsesFrom(s)
           T    == {k \in Nat : k <= n + 1 => from[k + 1] = [q \in k + 1 .. n + 1 |-> Parses(s)[q]]}
<1>1. /\ n \in Nat /\ at \in 1 .. n + 1
      /\ from[n + 2] = [q \in {} |-> Failed]
      /\ \A a \in 1 .. n + 1 : from[a] = Before(s, a, from[a + 1])
  <2>1. \A a \in 1 .. n + 2 : from[a] = IF a = n + 2 THEN [q \in {} |-> Failed]
                                        ELSE Before(s, a, from[a + 1])
    BY ParsesFromDef DEF from
  <2> QED BY <2>1
<1> HIDE DEF from
<1>2. \A a \in 1 .. n + 1 : /\ from[a] = [q \in a .. n + 1 |-> from[a][q]]
                            /\ from[a][a] = ParseAt(s, a, from[a + 1])
                            /\ \A q \in a + 1 .. n + 1 : from[a][q] = from[a + 1][q]
  <2> SUFFICES ASSUME NEW a \in 1 .. n + 1
               PROVE  /\ from[a] = [q \in a .. n + 1 |-> from[a][q]]
                      /\ from[a][a] = ParseAt(s, a, from[a + 1])
                      /\ \A q \in a + 1 .. n + 1 : from[a][q] = from[a + 1][q]
    OBVIOUS
  <2>1. from[a] = [q \in a .. n + 1 |-> IF q = a THEN ParseAt(s, a, from[a + 1]) ELSE from[a + 1][q]]
    BY <1>1 DEF Before
  <2>2. a \in a .. n + 1 /\ \A q \in a + 1 .. n + 1 : q \in a .. n + 1 /\ q # a
    BY <1>1
  <2> QED BY <2>1, <2>2
<1>3. 0 \in T
  <2>1. Parses(s) = from[1]
    BY DEF Parses, from
  <2>2. 1 \in 1 .. n + 1 /\ 0 + 1 = 1
    BY <1>1
  <2>3. from[1] = [q \in 1 .. n + 1 |-> from[1][q]]
    BY <1>2, <2>2
  <2>4. from[0 + 1] = [q \in 0 + 1 .. n + 1 |-> Parses(s)[q]]
    BY <2>1, <2>2, <2>3
  <2> QED BY <2>4
<1>4. ASSUME NEW k \in Nat, k \in T PROVE k + 1 \in T
  <2>1. SUFFICES ASSUME k + 1 <= n + 1
                 PROVE  from[k + 2] = [q \in k + 2 .. n + 1 |-> Parses(s)[q]]
    OBVIOUS
  <2>2. k + 1 \in 1 .. n + 1 /\ (k + 1) + 1 = k + 2
    BY <1>1, <2>1
  <2>3. from[k + 1] = [q \in k + 1 .. n + 1 |-> Parses(s)[q]]
    BY <1>1, <1>4, <2>1
  <2>4. \A q \in k + 2 .. n + 1 : from[k + 2][q] = from[k + 1][q] /\ q \in k + 1 .. n + 1
    <3>1. \A q \in (k + 1) + 1 .. n + 1 : from[k + 1][q] = from[(k + 1) + 1][q]
      BY <1>2, <2>2
    <3>2. \A q \in k + 2 .. n + 1 : q \in k + 1 .. n + 1
      BY <1>1
    <3> QED BY <2>2, <3>1, <3>2
  <2>5. from[k + 2] = [q \in k + 2 .. n + 1 |-> from[k + 2][q]]
    <3>1. CASE k + 2 = n + 2
      <4>1. k + 2 .. n + 1 = {}
        BY <1>1, <3>1
      <4> QED BY <1>1, <3>1, <4>1
    <3>2. CASE k + 2 # n + 2
      <4>1. k + 2 \in 1 .. n + 1
        BY <1>1, <2>2, <3>2
      <4> QED BY <1>2, <4>1
    <3> QED BY <3>1, <3>2
  <2>6. \A q \in k + 2 .. n + 1 : from[k + 2][q] = Parses(s)[q]
    BY <2>3, <2>4
  <2> QED BY <2>5, <2>6
<1>5. \A k \in Nat : k \in T
  <2> HIDE DEF T
  <2> QED BY <1>3, <1>4, NatSetInduction
<1>6. \A a \in 1 .. n + 2 : from[a] = [q \in a .. n + 1 |-> Parses(s)[q]]
  <2> SUFFICES ASSUME NEW a \in 1 .. n + 2 PROVE from[a] = [q \in a .. n + 1 |-> Parses(s)[q]]
    OBVIOUS
  <2>1. a - 1 \in Nat /\ a - 1 <= n + 1 /\ (a - 1) + 1 = a
    BY <1>1
  <2>2. a - 1 \in T
    BY <1>5, <2>1
  <2> QED BY <2>1, <2>2
<1>7. from[at + 1] = Rest(s, at)
  <2>1. at + 1 \in 1 .. n + 2
    BY <1>1
  <2> QED BY <1>6, <2>1 DEF Rest
<1>8. from[at][at] = Parses(s)[at]
  <2>1. at \in 1 .. n + 2 /\ at \in at .. n + 1
    BY <1>1
  <2> QED BY <1>6, <2>1
<1> QED BY <1>1, <1>2, <1>7, <1>8

Factors(s, at) == [q \in at + 1 .. Len(s) + 1 |-> Parses(s)[q].factor]
Terms(s, at)   == [q \in at + 1 .. Len(s) + 1 |-> Parses(s)[q].term]

LEMMA ParseParts ==
  ASSUME NEW s, Len(s) \in Nat, NEW at \in 1 .. Len(s) + 1
  PROVE  LET p == Parses(s)[at]
         IN  /\ p.factor = ParseFactor(s, at, Rest(s, at))
             /\ p.term = ParseOperators(s, TermOps, p.factor, Factors(s, at))
             /\ p.expression = ParseOperators(s, ExpressionOps, p.term, Terms(s, at))
<1> DEFINE later == Rest(s, at)
<1>1. [q \in DOMAIN later |-> later[q].factor] = Factors(s, at)
  <2>1. DOMAIN later = at + 1 .. Len(s) + 1 /\ \A q \in at + 1 .. Len(s) + 1 : later[q] = Parses(s)[q]
    BY DEF Rest
  <2> HIDE DEF later
  <2> QED BY <2>1 DEF Factors
<1>2. [q \in DOMAIN later |-> later[q].term] = Terms(s, at)
  <2>1. DOMAIN later = at + 1 .. Len(s) + 1 /\ \A q \in at + 1 .. Len(s) + 1 : later[q] = Parses(s)[q]
    BY DEF Rest
  <2> HIDE DEF later
  <2> QED BY <2>1 DEF Terms
<1>3. Parses(s)[at] = ParseAt(s, at, later)
  BY ParsesAre
<1> HIDE DEF later
<1>4. /\ ParseAt(s, at, later).factor = ParseFactor(s, at, later)
      /\ ParseAt(s, at, later).term
           = ParseOperators(s, TermOps, ParseAt(s, at, later).factor, Factors(s, at))
      /\ ParseAt(s, at, later).expression
           = ParseOperators(s, ExpressionOps, ParseAt(s, at, later).term, Terms(s, at))
  BY <1>1, <1>2 DEF ParseAt
<1> QED BY <1>3, <1>4 DEF later

(* The loop of parseTerm and parseExpression: its turns, one that goes on,   *)
(* and its end.                                                             *)
LEMMA TurnsAre ==
  ASSUME NEW s, Len(s) \in Nat, NEW ops, NEW first, NEW operands
  PROVE  LET turn == Turns(s, ops, first, operands)
         IN  /\ turn[0] = first
             /\ \A i \in 1 .. Len(s) : turn[i] = Turn(s, ops, turn[i - 1], operands)
<1> DEFINE turn == Turns(s, ops, first, operands)
<1>1. turn = [i \in 0 .. Len(s) |-> IF i = 0 THEN first ELSE Turn(s, ops, turn[i - 1], operands)]
  BY TurnsDef
<1> HIDE DEF turn
<1>2. /\ turn[0] = first
      /\ \A i \in 1 .. Len(s) : turn[i] = Turn(s, ops, turn[i - 1], operands)
  BY <1>1
<1> QED BY <1>2 DEF turn

LEMMA TurnGoesOn ==
  ASSUME NEW s, Len(s) \in Nat, NEW ops, NEW first, NEW operands,
         NEW v, NEW w, NEW b, NEW i \in 1 .. Len(s), NEW j \in 0 .. Len(s) - 1,
         Turns(s, ops, first, operands)[j] = Read(v, i), s[i].is \in ops,
         operands[i + 1] = Read(w, b), Applies(s[i].is, w)
  PROVE  Turns(s, ops, first, operands)[j + 1] = Read(Apply(s[i].is, v, w), b)
<1> DEFINE turn == Turns(s, ops, first, operands)
<1>1. j + 1 \in 1 .. Len(s) /\ (j + 1) - 1 = j
  OBVIOUS
<1>2. turn[j + 1] = Turn(s, ops, turn[j], operands)
  <2>1. turn[j + 1] = Turn(s, ops, turn[(j + 1) - 1], operands)
    BY <1>1, TurnsAre
  <2> QED BY <1>1, <2>1
<1> HIDE DEF turn
<1>3. Turn(s, ops, Read(v, i), operands) = Read(Apply(s[i].is, v, w), b)
  <2>1. Read(v, i).ok /\ Read(v, i).v = v /\ Read(v, i).at = i /\ Read(w, b).ok
        /\ Read(w, b).v = w /\ Read(w, b).at = b
    BY DEF Read
  <2>2. TokenAt(s, i) = s[i].is
    BY DEF TokenAt
  <2> QED BY <2>1, <2>2 DEF Turn
<1> QED BY <1>2, <1>3 DEF turn

LEMMA LoopEnds ==
  ASSUME NEW s, Len(s) \in Nat, NEW ops, NEW first, NEW operands,
         NEW j \in 0 .. Len(s), NEW r, Turns(s, ops, first, operands)[j] = r,
         ~r.ok \/ TokenAt(s, r.at) \notin ops
  PROVE  ParseOperators(s, ops, first, operands) = r
<1> DEFINE turn == Turns(s, ops, first, operands)
           T    == {k \in Nat : j + k <= Len(s) => turn[j + k] = r}
<1>1. turn[j] = r /\ \A i \in 1 .. Len(s) : turn[i] = Turn(s, ops, turn[i - 1], operands)
  BY TurnsAre
<1> HIDE DEF turn
<1>2. Turn(s, ops, r, operands) = r
  BY DEF Turn
<1>3. 0 \in T
  BY <1>1
<1>4. ASSUME NEW k \in Nat, k \in T PROVE k + 1 \in T
  <2>1. SUFFICES ASSUME j + (k + 1) <= Len(s) PROVE turn[j + (k + 1)] = r
    OBVIOUS
  <2>2. turn[j + k] = r
    BY <1>4, <2>1
  <2>3. j + (k + 1) \in 1 .. Len(s) /\ (j + (k + 1)) - 1 = j + k
    BY <2>1
  <2>4. turn[j + (k + 1)] = Turn(s, ops, turn[(j + (k + 1)) - 1], operands)
    BY <1>1, <2>3
  <2> QED BY <1>2, <2>2, <2>3, <2>4
<1>5. Len(s) - j \in T
  <2> HIDE DEF T
  <2> QED BY <1>3, <1>4, NatSetInduction
<1>6. j + (Len(s) - j) = Len(s)
  OBVIOUS
<1>7. turn[Len(s)] = r
  BY <1>5, <1>6
<1> QED BY <1>7 DEF turn, ParseOperators

(* What a chart holds is read: a factor as it is; a term, by the loop of     *)
(* parseTerm on its way; an expression by that of parseExpression, unless    *)
(* an operator follows that first makes its last term longer.               *)
Within(s, x) == x.from \in 1 .. Len(s) /\ x.to \in x.from + 1 .. Len(s) + 1

Reached(s, ops, first, operands, x) ==
  \E j \in 0 .. Len(s) : /\ j < x.to - x.from
                         /\ Turns(s, ops, first, operands)[j] = Read(x.v, x.to)

FactorRead(s, x) == Within(s, x) /\ Parses(s)[x.from].factor = Read(x.v, x.to)

TermRead(s, x) ==
  Within(s, x) /\ Reached(s, TermOps, Parses(s)[x.from].factor, Factors(s, x.from), x)

ExpressionRead(s, x) ==
  /\ Within(s, x)
  /\ TokenAt(s, x.to) \notin TermOps
       => Reached(s, ExpressionOps, Parses(s)[x.from].term, Terms(s, x.from), x)

LEMMA FirstIsReached ==
  ASSUME NEW s, Len(s) \in Nat, NEW ops, NEW first, NEW operands, NEW x, Within(s, x),
         first = Read(x.v, x.to)
  PROVE  Reached(s, ops, first, operands, x)
<1>1. Turns(s, ops, first, operands)[0] = first
  BY TurnsAre
<1>2. 0 \in 0 .. Len(s) /\ 0 < x.to - x.from
  BY DEF Within
<1> QED BY <1>1, <1>2 DEF Reached

LEMMA RoomForOne ==
  ASSUME NEW n \in Nat, NEW a \in 1 .. n, NEW i \in a + 1 .. n, NEW b \in i + 2 .. n + 1,
         NEW j \in 0 .. n, j < i - a
  PROVE  /\ i \in 1 .. n /\ b \in a + 1 .. n + 1
         /\ j \in 0 .. n - 1 /\ j + 1 \in 0 .. n /\ j + 1 < b - a
OBVIOUS

LEMMA NextIsReached ==
  ASSUME NEW s, Len(s) \in Nat, NEW ops, NEW first, NEW operands,
         NEW x, NEW y, Within(s, x), Within(s, y), y.from = x.to + 1,
         Reached(s, ops, first, operands, x), operands[y.from] = Read(y.v, y.to),
         x.to <= Len(s), s[x.to].is \in ops, Applies(s[x.to].is, y.v)
  PROVE  LET z == Span(x.from, y.to, Apply(s[x.to].is, x.v, y.v))
         IN  Within(s, z) /\ Reached(s, ops, first, operands, z)
<1> DEFINE v == Apply(s[x.to].is, x.v, y.v)
           z == Span(x.from, y.to, v)
<1>1. PICK j \in 0 .. Len(s) : /\ j < x.to - x.from
                               /\ Turns(s, ops, first, operands)[j] = Read(x.v, x.to)
  BY DEF Reached
<1>2. /\ x.from \in 1 .. Len(s) /\ x.to \in x.from + 1 .. Len(s) + 1
      /\ y.from \in 1 .. Len(s) /\ y.to \in y.from + 1 .. Len(s) + 1
  BY DEF Within
<1>3. x.to \in 1 .. Len(s) /\ j \in 0 .. Len(s) - 1
      /\ j + 1 \in 0 .. Len(s) /\ j + 1 < y.to - x.from
      /\ y.to \in x.from + 1 .. Len(s) + 1
  <2>1. x.to \in x.from + 1 .. Len(s) /\ y.to \in x.to + 2 .. Len(s) + 1
    BY <1>2
  <2> QED BY <1>1, <1>2, <2>1, RoomForOne
<1>4. Turns(s, ops, first, operands)[j + 1] = Read(v, y.to)
  BY <1>1, <1>3, TurnGoesOn
<1> HIDE DEF v
<1>5. z.from = x.from /\ z.to = y.to /\ z.v = v
  BY DEF Span
<1> HIDE DEF z
<1>6. Within(s, z)
  BY <1>2, <1>3, <1>5 DEF Within
<1>7. Reached(s, ops, first, operands, z)
  BY <1>3, <1>4, <1>5 DEF Reached
<1> QED BY <1>6, <1>7 DEF z, v

(* When the loop has reached it and no operator follows, it is the parse.    *)
LEMMA ReachedIsRead ==
  ASSUME NEW s, Len(s) \in Nat, NEW ops, NEW first, NEW operands, NEW x,
         Reached(s, ops, first, operands, x), TokenAt(s, x.to) \notin ops
  PROVE  ParseOperators(s, ops, first, operands) = Read(x.v, x.to)
<1>1. PICK j \in 0 .. Len(s) : Turns(s, ops, first, operands)[j] = Read(x.v, x.to)
  BY DEF Reached
<1>2. TokenAt(s, Read(x.v, x.to).at) \notin ops
  BY DEF Read
<1> QED BY <1>1, <1>2, LoopEnds

LEMMA TermsEnd ==
  ASSUME NEW s, Len(s) \in Nat, NEW x, TermRead(s, x), TokenAt(s, x.to) \notin TermOps
  PROVE  Parses(s)[x.from].term = Read(x.v, x.to)
<1>1. x.from \in 1 .. Len(s) + 1
  BY DEF TermRead, Within
<1>2. Reached(s, TermOps, Parses(s)[x.from].factor, Factors(s, x.from), x)
  BY DEF TermRead
<1>3. Parses(s)[x.from].term
        = ParseOperators(s, TermOps, Parses(s)[x.from].factor, Factors(s, x.from))
  BY <1>1, ParseParts
<1> QED BY <1>2, <1>3, ReachedIsRead

LEMMA ExpressionsEnd ==
  ASSUME NEW s, Len(s) \in Nat, NEW x, ExpressionRead(s, x),
         TokenAt(s, x.to) \notin TermOps \cup ExpressionOps
  PROVE  Parses(s)[x.from].expression = Read(x.v, x.to)
<1>1. x.from \in 1 .. Len(s) + 1
  BY DEF ExpressionRead, Within
<1>2. Reached(s, ExpressionOps, Parses(s)[x.from].term, Terms(s, x.from), x)
  BY DEF ExpressionRead
<1>3. Parses(s)[x.from].expression
        = ParseOperators(s, ExpressionOps, Parses(s)[x.from].term, Terms(s, x.from))
  BY <1>1, ParseParts
<1> QED BY <1>2, <1>3, ReachedIsRead

(* What combines two neighbours.                                            *)
LEMMA CombinedFrom ==
  ASSUME NEW s, NEW ops, NEW lefts, NEW rights, NEW z \in Combined(s, ops, lefts, rights)
  PROVE  \E x \in lefts, y \in rights :
           /\ z = Span(x.from, y.to, Apply(s[x.to].is, x.v, y.v))
           /\ x.to <= Len(s) /\ s[x.to].is \in ops
           /\ y.from = x.to + 1 /\ Applies(s[x.to].is, y.v)
BY DEF Combined

LEMMA FactorsAreRead ==
  ASSUME NEW s, Len(s) \in Nat, NEW chart,
         \A x \in chart.factor : FactorRead(s, x),
         \A x \in chart.expression : ExpressionRead(s, x),
         NEW z \in Derive(s, chart).factor
  PROVE  FactorRead(s, z)
<1>1. \/ \E i \in 1 .. Len(s) : s[i].is = "number" /\ z = Span(i, i + 1, Fraction(s[i].n, 1))
      \/ z \in Signed(s, chart.factor)
      \/ z \in Bracketed(s, chart.expression)
  BY DEF Derive
<1>2. CASE \E i \in 1 .. Len(s) : s[i].is = "number" /\ z = Span(i, i + 1, Fraction(s[i].n, 1))
  <2>1. PICK i \in 1 .. Len(s) : s[i].is = "number" /\ z = Span(i, i + 1, Fraction(s[i].n, 1))
    BY <1>2
  <2>2. TokenAt(s, i) = "number"
    BY <2>1 DEF TokenAt
  <2>3. ParseFactor(s, i, Rest(s, i)) = Read(Fraction(s[i].n, 1), i + 1)
    BY <2>2 DEF ParseFactor, ParseNumber
  <2>4. Parses(s)[i].factor = Read(Fraction(s[i].n, 1), i + 1)
    <3>1. i \in 1 .. Len(s) + 1
      OBVIOUS
    <3> QED BY <2>3, <3>1, ParseParts
  <2>5. z.from = i /\ z.to = i + 1 /\ z.v = Fraction(s[i].n, 1)
    BY <2>1 DEF Span
  <2>6. i + 1 \in i + 1 .. Len(s) + 1
    OBVIOUS
  <2> QED BY <2>4, <2>5, <2>6 DEF FactorRead, Within
<1>3. CASE z \in Signed(s, chart.factor)
  <2>1. PICK y \in chart.factor :
          /\ y.from > 1 /\ s[y.from - 1].is \in {"+", "-"}
          /\ z = Span(y.from - 1, y.to, IF s[y.from - 1].is = "-" THEN Minus(y.v) ELSE y.v)
    BY <1>3 DEF Signed
  <2> DEFINE a == y.from - 1
  <2>2. /\ y.from \in 1 .. Len(s) /\ y.to \in y.from + 1 .. Len(s) + 1
        /\ Parses(s)[y.from].factor = Read(y.v, y.to)
    BY DEF FactorRead, Within
  <2>3. /\ a \in 1 .. Len(s) /\ a \in 1 .. Len(s) + 1 /\ a + 1 = y.from
        /\ a + 1 \in a + 1 .. Len(s) + 1 /\ y.to \in a + 1 .. Len(s) + 1
    BY <2>1, <2>2
  <2>4. z.from = a /\ z.to = y.to /\ z.v = IF s[a].is = "-" THEN Minus(y.v) ELSE y.v
    BY <2>1 DEF Span
  <2>5. s[a].is \in {"+", "-"}
    BY <2>1
  <2> HIDE DEF a
  <2>6. TokenAt(s, a) = s[a].is
    BY <2>3 DEF TokenAt
  <2>7. Rest(s, a)[a + 1].factor = Read(y.v, y.to)
    BY <2>2, <2>3 DEF Rest
  <2>8. ParseFactor(s, a, Rest(s, a)) = Read(z.v, z.to)
    <3>1. Read(y.v, y.to).ok /\ Read(y.v, y.to).v = y.v /\ Read(y.v, y.to).at = y.to
      BY DEF Read
    <3> QED BY <2>4, <2>5, <2>6, <2>7, <3>1 DEF ParseFactor
  <2>9. Parses(s)[a].factor = Read(z.v, z.to)
    BY <2>3, <2>8, ParseParts
  <2> QED BY <2>3, <2>4, <2>9 DEF FactorRead, Within
<1>4. CASE z \in Bracketed(s, chart.expression)
  <2>1. PICK y \in chart.expression :
          /\ y.from > 1 /\ s[y.from - 1].is = "(" /\ y.to <= Len(s) /\ s[y.to].is = ")"
          /\ z = Span(y.from - 1, y.to + 1, y.v)
    BY <1>4 DEF Bracketed
  <2> DEFINE a == y.from - 1
  <2>2. y.from \in 1 .. Len(s) /\ y.to \in y.from + 1 .. Len(s) + 1 /\ ExpressionRead(s, y)
    BY DEF ExpressionRead, Within
  <2>3. /\ a \in 1 .. Len(s) /\ a \in 1 .. Len(s) + 1 /\ a + 1 = y.from
        /\ a + 1 \in a + 1 .. Len(s) + 1 /\ y.to + 1 \in a + 1 .. Len(s) + 1
    <3>1. a \in 1 .. Len(s) - 1 /\ a + 1 = y.from
      BY <2>1, <2>2
    <3> HIDE DEF a
    <3>2. y.to + 1 \in a + 1 .. Len(s) + 1
      BY <2>1, <2>2, <3>1
    <3> QED BY <3>1, <3>2
  <2>4. z.from = a /\ z.to = y.to + 1 /\ z.v = y.v /\ s[a].is = "("
    BY <2>1 DEF Span
  <2> HIDE DEF a
  <2>5. TokenAt(s, a) = "(" /\ TokenAt(s, y.to) = ")"
    BY <2>1, <2>3, <2>4 DEF TokenAt
  <2>6. TokenAt(s, y.to) \notin TermOps \cup ExpressionOps
    BY <2>5 DEF TermOps, ExpressionOps
  <2>7. Rest(s, a)[a + 1].expression = Read(y.v, y.to)
    <3>1. Parses(s)[y.from].expression = Read(y.v, y.to)
      BY <2>2, <2>6, ExpressionsEnd
    <3> QED BY <2>3, <3>1 DEF Rest
  <2>8. ParseFactor(s, a, Rest(s, a)) = Read(z.v, z.to)
    <3>1. Read(y.v, y.to).ok /\ Read(y.v, y.to).v = y.v /\ Read(y.v, y.to).at = y.to
      BY DEF Read
    <3> QED BY <2>4, <2>5, <2>7, <3>1 DEF ParseFactor
  <2>9. Parses(s)[a].factor = Read(z.v, z.to)
    BY <2>3, <2>8, ParseParts
  <2> QED BY <2>3, <2>4, <2>9 DEF FactorRead, Within
<1> QED BY <1>1, <1>2, <1>3, <1>4

LEMMA TermsAreRead ==
  ASSUME NEW s, Len(s) \in Nat, NEW factors, NEW lefts,
         \A x \in factors : FactorRead(s, x), \A x \in lefts : TermRead(s, x),
         NEW z \in factors \cup Combined(s, TermOps, lefts, factors)
  PROVE  TermRead(s, z)
<1>1. CASE z \in factors
  <2>1. Within(s, z) /\ Parses(s)[z.from].factor = Read(z.v, z.to)
    BY <1>1 DEF FactorRead
  <2> QED BY <2>1, FirstIsReached DEF TermRead
<1>2. CASE z \in Combined(s, TermOps, lefts, factors)
  <2>1. PICK x \in lefts, y \in factors :
          /\ z = Span(x.from, y.to, Apply(s[x.to].is, x.v, y.v))
          /\ x.to <= Len(s) /\ s[x.to].is \in TermOps
          /\ y.from = x.to + 1 /\ Applies(s[x.to].is, y.v)
    BY <1>2, CombinedFrom
  <2>2. /\ Within(s, x) /\ Within(s, y)
        /\ Reached(s, TermOps, Parses(s)[x.from].factor, Factors(s, x.from), x)
        /\ Parses(s)[y.from].factor = Read(y.v, y.to)
    BY DEF TermRead, FactorRead
  <2>3. y.from \in x.from + 1 .. Len(s) + 1
    BY <2>1, <2>2 DEF Within
  <2>4. Factors(s, x.from)[y.from] = Read(y.v, y.to)
    BY <2>2, <2>3 DEF Factors
  <2>5. Within(s, z) /\ Reached(s, TermOps, Parses(s)[x.from].factor, Factors(s, x.from), z)
    BY <2>1, <2>2, <2>4, NextIsReached
  <2>6. z.from = x.from
    BY <2>1 DEF Span
  <2> QED BY <2>5, <2>6 DEF TermRead
<1> QED BY <1>1, <1>2

LEMMA ExpressionsAreRead ==
  ASSUME NEW s, Len(s) \in Nat, NEW terms, NEW lefts,
         \A x \in terms : TermRead(s, x), \A x \in lefts : ExpressionRead(s, x),
         NEW z \in terms \cup Combined(s, ExpressionOps, lefts, terms)
  PROVE  ExpressionRead(s, z)
<1>1. CASE z \in terms
  <2>1. Within(s, z)
    BY <1>1 DEF TermRead
  <2>2. ASSUME TokenAt(s, z.to) \notin TermOps
        PROVE  Parses(s)[z.from].term = Read(z.v, z.to)
    BY <1>1, <2>2, TermsEnd
  <2> QED BY <2>1, <2>2, FirstIsReached DEF ExpressionRead
<1>2. CASE z \in Combined(s, ExpressionOps, lefts, terms)
  <2>1. PICK x \in lefts, y \in terms :
          /\ z = Span(x.from, y.to, Apply(s[x.to].is, x.v, y.v))
          /\ x.to <= Len(s) /\ s[x.to].is \in ExpressionOps
          /\ y.from = x.to + 1 /\ Applies(s[x.to].is, y.v)
    BY <1>2, CombinedFrom
  <2>2. Within(s, x) /\ Within(s, y)
    BY DEF TermRead, ExpressionRead
  <2>3. y.from \in x.from + 1 .. Len(s) + 1
    BY <2>1, <2>2 DEF Within
  <2>4. z.from = x.from /\ z.to = y.to
    BY <2>1 DEF Span
  <2>5. Within(s, z)
    BY <2>1, <2>2, <2>4 DEF Within
  <2>6. Reached(s, ExpressionOps, Parses(s)[x.from].term, Terms(s, x.from), x)
    <3>1. TokenAt(s, x.to) \notin TermOps
      BY <2>1 DEF TokenAt, TermOps, ExpressionOps
    <3> QED BY <3>1 DEF ExpressionRead
  <2>7. ASSUME TokenAt(s, z.to) \notin TermOps
        PROVE  Reached(s, ExpressionOps, Parses(s)[x.from].term, Terms(s, x.from), z)
    <3>1. Parses(s)[y.from].term = Read(y.v, y.to)
      BY <2>4, <2>7, TermsEnd
    <3>2. Terms(s, x.from)[y.from] = Read(y.v, y.to)
      BY <2>3, <3>1 DEF Terms
    <3> QED BY <2>1, <2>2, <2>6, <3>2, NextIsReached
  <2> QED BY <2>4, <2>5, <2>7 DEF ExpressionRead
<1> QED BY <1>1, <1>2

LEMMA ChartSteps ==
  ASSUME NEW s, Len(s) \in Nat
  PROVE  /\ Charts(s)[0] = [factor |-> {}, term |-> {}, expression |-> {}]
         /\ \A n \in 1 .. Len(s) : Charts(s)[n] = Derive(s, Charts(s)[n - 1])
<1> DEFINE chart == Charts(s)
<1>1. chart = [n \in 0 .. Len(s) |->
                 IF n = 0 THEN [factor |-> {}, term |-> {}, expression |-> {}]
                 ELSE Derive(s, chart[n - 1])]
  BY ChartsDef
<1> DEFINE none == [factor |-> {}, term |-> {}, expression |-> {}]
<1>a. chart = [n \in 0 .. Len(s) |-> IF n = 0 THEN none ELSE Derive(s, chart[n - 1])]
  BY <1>1
<1> HIDE DEF chart, none
<1>b. chart[0] = none /\ \A n \in 1 .. Len(s) : chart[n] = Derive(s, chart[n - 1])
  BY <1>a
<1>2. /\ chart[0] = [factor |-> {}, term |-> {}, expression |-> {}]
      /\ \A n \in 1 .. Len(s) : chart[n] = Derive(s, chart[n - 1])
  BY <1>b DEF none
<1> QED BY <1>2 DEF chart

LEMMA DeriveParts ==
  ASSUME NEW s, NEW chart
  PROVE  LET d == Derive(s, chart)
         IN  /\ d.term = d.factor \cup Combined(s, TermOps, chart.term, d.factor)
             /\ d.expression = d.term \cup Combined(s, ExpressionOps, chart.expression, d.term)
BY DEF Derive

LEMMA ChartsAreRead ==
  ASSUME NEW s, Len(s) \in Nat, NEW n \in 0 .. Len(s)
  PROVE  /\ \A x \in Charts(s)[n].factor : FactorRead(s, x)
         /\ \A x \in Charts(s)[n].term : TermRead(s, x)
         /\ \A x \in Charts(s)[n].expression : ExpressionRead(s, x)
<1> DEFINE Sound(c) == /\ \A x \in c.factor : FactorRead(s, x)
                       /\ \A x \in c.term : TermRead(s, x)
                       /\ \A x \in c.expression : ExpressionRead(s, x)
           T == {k \in Nat : k <= Len(s) => Sound(Charts(s)[k])}
<1>1. 0 \in T
  BY ChartSteps
<1>2. ASSUME NEW k \in Nat, k \in T PROVE k + 1 \in T
  <2>1. SUFFICES ASSUME k + 1 <= Len(s) PROVE Sound(Charts(s)[k + 1])
    OBVIOUS
  <2> DEFINE c == Charts(s)[k]
             d == Derive(s, c)
  <2>2. Sound(c)
    BY <1>2, <2>1
  <2>3. Charts(s)[k + 1] = d
    <3>1. k + 1 \in 1 .. Len(s) /\ (k + 1) - 1 = k
      BY <2>1
    <3>2. Charts(s)[k + 1] = Derive(s, Charts(s)[(k + 1) - 1])
      BY <3>1, ChartSteps
    <3> QED BY <3>1, <3>2
  <2> HIDE DEF c
  <2>4. /\ d.term = d.factor \cup Combined(s, TermOps, c.term, d.factor)
        /\ d.expression = d.term \cup Combined(s, ExpressionOps, c.expression, d.term)
    BY DeriveParts
  <2>5. \A x \in d.factor : FactorRead(s, x)
    BY <2>2, FactorsAreRead
  <2> HIDE DEF d
  <2>6. \A x \in d.term : TermRead(s, x)
    BY <2>2, <2>4, <2>5, TermsAreRead
  <2>7. \A x \in d.expression : ExpressionRead(s, x)
    BY <2>2, <2>4, <2>6, ExpressionsAreRead
  <2> QED BY <2>3, <2>5, <2>6, <2>7
<1>3. n \in T
  <2> HIDE DEF T
  <2> QED BY <1>1, <1>2, NatSetInduction
<1> QED BY <1>3

(* A later chart holds what an earlier one does.                             *)
Grows(c, d) ==
  c.factor \subseteq d.factor /\ c.term \subseteq d.term /\ c.expression \subseteq d.expression

LEMMA DeriveGrows ==
  ASSUME NEW s, NEW c, NEW d, Grows(c, d)
  PROVE  Grows(Derive(s, c), Derive(s, d))
<1> DEFINE e == Derive(s, c)
           f == Derive(s, d)
<1>1. \A ops, A, B, C, D : A \subseteq C /\ B \subseteq D
                             => Combined(s, ops, A, B) \subseteq Combined(s, ops, C, D)
  BY DEF Combined
<1>2. \A A, B : A \subseteq B => Signed(s, A) \subseteq Signed(s, B)
  BY DEF Signed
<1>3. \A A, B : A \subseteq B => Bracketed(s, A) \subseteq Bracketed(s, B)
  BY DEF Bracketed
<1>4. e.factor \subseteq f.factor
  BY <1>2, <1>3 DEF Derive, Grows
<1>5. /\ e.term = e.factor \cup Combined(s, TermOps, c.term, e.factor)
      /\ f.term = f.factor \cup Combined(s, TermOps, d.term, f.factor)
      /\ e.expression = e.term \cup Combined(s, ExpressionOps, c.expression, e.term)
      /\ f.expression = f.term \cup Combined(s, ExpressionOps, d.expression, f.term)
  BY DeriveParts
<1> HIDE DEF e, f
<1>6. e.term \subseteq f.term
  <2>1. Combined(s, TermOps, c.term, e.factor) \subseteq Combined(s, TermOps, d.term, f.factor)
    BY <1>1, <1>4 DEF Grows
  <2> QED BY <1>4, <1>5, <2>1
<1>7. e.expression \subseteq f.expression
  <2>1. Combined(s, ExpressionOps, c.expression, e.term)
          \subseteq Combined(s, ExpressionOps, d.expression, f.term)
    BY <1>1, <1>6 DEF Grows
  <2> QED BY <1>5, <1>6, <2>1
<1> QED BY <1>4, <1>6, <1>7 DEF Grows, e, f

LEMMA ChartsGrow ==
  ASSUME NEW s, Len(s) \in Nat, NEW i \in 0 .. Len(s), NEW j \in i .. Len(s)
  PROVE  Grows(Charts(s)[i], Charts(s)[j])
<1> DEFINE chart == Charts(s)
           N == {k \in Nat : k + 1 <= Len(s) => Grows(chart[k], chart[k + 1])}
           T == {k \in Nat : i + k <= Len(s) => Grows(chart[i], chart[i + k])}
<1>1. /\ chart[0] = [factor |-> {}, term |-> {}, expression |-> {}]
      /\ \A k \in 1 .. Len(s) : chart[k] = Derive(s, chart[k - 1])
  BY ChartSteps
<1> HIDE DEF chart
<1>2. 0 \in N
  BY <1>1 DEF Grows
<1>3. ASSUME NEW k \in Nat, k \in N PROVE k + 1 \in N
  <2>1. SUFFICES ASSUME (k + 1) + 1 <= Len(s) PROVE Grows(chart[k + 1], chart[(k + 1) + 1])
    OBVIOUS
  <2>2. Grows(chart[k], chart[k + 1])
    BY <1>3, <2>1
  <2>3. /\ k + 1 \in 1 .. Len(s) /\ (k + 1) - 1 = k
        /\ (k + 1) + 1 \in 1 .. Len(s) /\ ((k + 1) + 1) - 1 = k + 1
    BY <2>1
  <2>4. chart[k + 1] = Derive(s, chart[k]) /\ chart[(k + 1) + 1] = Derive(s, chart[k + 1])
    <3>1. chart[k + 1] = Derive(s, chart[(k + 1) - 1])
      BY <1>1, <2>3
    <3>2. chart[(k + 1) + 1] = Derive(s, chart[((k + 1) + 1) - 1])
      BY <1>1, <2>3
    <3> QED BY <2>3, <3>1, <3>2
  <2>5. Grows(Derive(s, chart[k]), Derive(s, chart[k + 1]))
    BY <2>2, DeriveGrows
  <2> QED BY <2>4, <2>5
<1>4. \A k \in Nat : k \in N
  <2> HIDE DEF N
  <2> QED BY <1>2, <1>3, NatSetInduction
<1>5. 0 \in T
  BY DEF Grows
<1>6. ASSUME NEW k \in Nat, k \in T PROVE k + 1 \in T
  <2>1. SUFFICES ASSUME i + (k + 1) <= Len(s) PROVE Grows(chart[i], chart[i + (k + 1)])
    OBVIOUS
  <2>2. Grows(chart[i], chart[i + k])
    BY <1>6, <2>1
  <2>3. i + k \in Nat /\ (i + k) + 1 <= Len(s) /\ i + (k + 1) = (i + k) + 1
    BY <2>1
  <2>4. i + k \in N
    BY <1>4, <2>3
  <2>5. Grows(chart[i + k], chart[(i + k) + 1])
    BY <2>3, <2>4
  <2> QED BY <2>2, <2>3, <2>5 DEF Grows
<1>7. j - i \in T
  <2> HIDE DEF T
  <2> QED BY <1>5, <1>6, NatSetInduction
<1>8. i + (j - i) = j
  OBVIOUS
<1> QED BY <1>7, <1>8 DEF chart

(* A parse is derived, in a chart of as many turns as it has tokens.         *)
Derives(s, at, r, sets) ==
  r.ok => r.at \in at + 1 .. Len(s) + 1 /\ Span(at, r.at, r.v) \in sets[r.at - at]

FactorSets(s)     == [n \in 0 .. Len(s) |-> Charts(s)[n].factor]
TermSets(s)       == [n \in 0 .. Len(s) |-> Charts(s)[n].term]
ExpressionSets(s) == [n \in 0 .. Len(s) |-> Charts(s)[n].expression]

LEMMA LoopDerives ==
  ASSUME NEW s, Len(s) \in Nat, NEW ops, "end" \notin ops, NEW first, NEW operands,
         NEW lefts, NEW rights, NEW a \in 1 .. Len(s) + 1,
         Derives(s, a, first, lefts),
         \A q \in a + 1 .. Len(s) + 1 : Derives(s, q, operands[q], rights),
         \A v, w : \A i \in a + 1 .. Len(s) : \A b \in i + 2 .. Len(s) + 1 :
           /\ Span(a, i, v) \in lefts[i - a] /\ Span(i + 1, b, w) \in rights[b - (i + 1)]
           /\ s[i].is \in ops /\ Applies(s[i].is, w)
           => Span(a, b, Apply(s[i].is, v, w)) \in lefts[b - a]
  PROVE  Derives(s, a, ParseOperators(s, ops, first, operands), lefts)
<1> DEFINE turn == Turns(s, ops, first, operands)
           T    == {k \in Nat : k <= Len(s) => Derives(s, a, turn[k], lefts)}
<1>1. turn[0] = first /\ \A i \in 1 .. Len(s) : turn[i] = Turn(s, ops, turn[i - 1], operands)
  BY TurnsAre
<1> HIDE DEF turn
<1>2. 0 \in T
  BY <1>1
<1>3. ASSUME NEW k \in Nat, k \in T PROVE k + 1 \in T
  <2>1. SUFFICES ASSUME k + 1 <= Len(s) PROVE Derives(s, a, turn[k + 1], lefts)
    OBVIOUS
  <2> DEFINE left  == turn[k]
             i     == left.at
             right == operands[i + 1]
             next  == turn[k + 1]
  <2>2. Derives(s, a, left, lefts)
    BY <1>3, <2>1
  <2>3. next = Turn(s, ops, left, operands)
    <3>1. k + 1 \in 1 .. Len(s) /\ (k + 1) - 1 = k
      BY <2>1
    <3>2. turn[k + 1] = Turn(s, ops, turn[(k + 1) - 1], operands)
      BY <1>1, <3>1
    <3> QED BY <3>1, <3>2
  <2> HIDE DEF next, left
  <2>4. CASE next = left
    BY <2>2, <2>4 DEF next
  <2>5. CASE next = Failed
    BY <2>5 DEF Derives, Failed, next
  <2>6. CASE /\ left.ok /\ TokenAt(s, i) \in ops /\ right.ok /\ Applies(TokenAt(s, i), right.v)
             /\ next = Read(Apply(TokenAt(s, i), left.v, right.v), right.at)
    <3>1. i \in a + 1 .. Len(s) + 1 /\ Span(a, i, left.v) \in lefts[i - a]
      BY <2>2, <2>6 DEF Derives
    <3>2. i \in a + 1 .. Len(s) /\ TokenAt(s, i) = s[i].is
      BY <2>6, <3>1 DEF TokenAt
    <3> HIDE DEF i
    <3>3. i + 1 \in a + 1 .. Len(s) + 1
      BY <3>2
    <3> HIDE DEF right
    <3>4. Derives(s, i + 1, right, rights)
      BY <3>3 DEF right
    <3>5. /\ right.at \in (i + 1) + 1 .. Len(s) + 1
          /\ Span(i + 1, right.at, right.v) \in rights[right.at - (i + 1)]
      BY <2>6, <3>4 DEF Derives
    <3>6. right.at \in i + 2 .. Len(s) + 1 /\ right.at \in a + 1 .. Len(s) + 1
      BY <3>2, <3>5
    <3>7. Span(a, right.at, Apply(s[i].is, left.v, right.v)) \in lefts[right.at - a]
      BY <2>6, <3>1, <3>2, <3>5, <3>6
    <3>8. next.at = right.at /\ next.v = Apply(s[i].is, left.v, right.v)
      BY <2>6, <3>2 DEF Read
    <3> QED BY <3>6, <3>7, <3>8 DEF Derives, next
  <2> QED BY <2>3, <2>4, <2>5, <2>6 DEF Turn
<1>4. Len(s) \in T
  <2> HIDE DEF T
  <2> QED BY <1>2, <1>3, NatSetInduction
<1> QED BY <1>4 DEF turn, ParseOperators

LEMMA IntoCombined ==
  ASSUME NEW s, NEW ops, NEW lefts, NEW rights, NEW a, NEW i \in Int, NEW b, NEW v, NEW w,
         Span(a, i, v) \in lefts, Span(i + 1, b, w) \in rights,
         i <= Len(s), s[i].is \in ops, Applies(s[i].is, w)
  PROVE  Span(a, b, Apply(s[i].is, v, w)) \in Combined(s, ops, lefts, rights)
<1> DEFINE x == Span(a, i, v)
           y == Span(i + 1, b, w)
<1>1. x.from = a /\ x.to = i /\ x.v = v /\ y.from = i + 1 /\ y.to = b /\ y.v = w
  BY DEF Span
<1> HIDE DEF x, y
<1>2. x \in {z \in lefts : z.to <= Len(s) /\ s[z.to].is \in ops}
  BY <1>1 DEF x
<1>3. y \in {z \in rights : z.from = x.to + 1 /\ Applies(s[x.to].is, z.v)}
  BY <1>1 DEF y
<1>4. Span(x.from, y.to, Apply(s[x.to].is, x.v, y.v)) \in Combined(s, ops, lefts, rights)
  BY <1>2, <1>3 DEF Combined
<1> QED BY <1>1, <1>4

(* The chart of the parts of up to n tokens rests on that of shorter ones.   *)
LEMMA TermsCombine ==
  ASSUME NEW s, Len(s) \in Nat, NEW a \in 1 .. Len(s), NEW i \in a + 1 .. Len(s),
         NEW b \in i + 2 .. Len(s) + 1, NEW v, NEW w,
         Span(a, i, v) \in TermSets(s)[i - a], Span(i + 1, b, w) \in FactorSets(s)[b - (i + 1)],
         s[i].is \in TermOps, Applies(s[i].is, w)
  PROVE  Span(a, b, Apply(s[i].is, v, w)) \in TermSets(s)[b - a]
<1> DEFINE m == b - a - 1
<1>1. /\ m \in 0 .. Len(s) /\ m + 1 \in 1 .. Len(s) /\ m + 1 = b - a /\ (m + 1) - 1 = m
      /\ i - a \in 0 .. Len(s) /\ b - (i + 1) \in 0 .. Len(s) /\ b - a \in 0 .. Len(s)
      /\ m \in i - a .. Len(s) /\ m + 1 \in b - (i + 1) .. Len(s) /\ i \in Int /\ i <= Len(s)
  OBVIOUS
<1> HIDE DEF m
<1> DEFINE c == Charts(s)[m]
           d == Charts(s)[m + 1]
<1>2. d = Derive(s, c)
  <2>1. Charts(s)[m + 1] = Derive(s, Charts(s)[(m + 1) - 1])
    BY <1>1, ChartSteps
  <2> QED BY <1>1, <2>1
<1>3. Span(a, i, v) \in c.term
  <2>1. Grows(Charts(s)[i - a], Charts(s)[m])
    BY <1>1, ChartsGrow
  <2>2. Span(a, i, v) \in Charts(s)[i - a].term
    BY <1>1 DEF TermSets
  <2> QED BY <2>1, <2>2 DEF Grows
<1>4. Span(i + 1, b, w) \in d.factor
  <2>1. m + 1 \in 0 .. Len(s)
    BY <1>1
  <2>2. Grows(Charts(s)[b - (i + 1)], Charts(s)[m + 1])
    BY <1>1, ChartsGrow
  <2>3. Span(i + 1, b, w) \in Charts(s)[b - (i + 1)].factor
    BY <1>1 DEF FactorSets
  <2> QED BY <2>2, <2>3 DEF Grows
<1>5. TermSets(s)[b - a] = d.term
  BY <1>1 DEF TermSets
<1> HIDE DEF c, d
<1>6. d.term = d.factor \cup Combined(s, TermOps, c.term, d.factor)
  BY <1>2, DeriveParts
<1>7. Span(a, b, Apply(s[i].is, v, w)) \in Combined(s, TermOps, c.term, d.factor)
  BY <1>1, <1>3, <1>4, IntoCombined
<1> QED BY <1>5, <1>6, <1>7

LEMMA ExpressionsCombine ==
  ASSUME NEW s, Len(s) \in Nat, NEW a \in 1 .. Len(s), NEW i \in a + 1 .. Len(s),
         NEW b \in i + 2 .. Len(s) + 1, NEW v, NEW w,
         Span(a, i, v) \in ExpressionSets(s)[i - a], Span(i + 1, b, w) \in TermSets(s)[b - (i + 1)],
         s[i].is \in ExpressionOps, Applies(s[i].is, w)
  PROVE  Span(a, b, Apply(s[i].is, v, w)) \in ExpressionSets(s)[b - a]
<1> DEFINE m == b - a - 1
<1>1. /\ m \in 0 .. Len(s) /\ m + 1 \in 1 .. Len(s) /\ m + 1 = b - a /\ (m + 1) - 1 = m
      /\ i - a \in 0 .. Len(s) /\ b - (i + 1) \in 0 .. Len(s) /\ b - a \in 0 .. Len(s)
      /\ m \in i - a .. Len(s) /\ m + 1 \in b - (i + 1) .. Len(s) /\ i \in Int /\ i <= Len(s)
  OBVIOUS
<1> HIDE DEF m
<1> DEFINE c == Charts(s)[m]
           d == Charts(s)[m + 1]
<1>2. d = Derive(s, c)
  <2>1. Charts(s)[m + 1] = Derive(s, Charts(s)[(m + 1) - 1])
    BY <1>1, ChartSteps
  <2> QED BY <1>1, <2>1
<1>3. Span(a, i, v) \in c.expression
  <2>1. Grows(Charts(s)[i - a], Charts(s)[m])
    BY <1>1, ChartsGrow
  <2>2. Span(a, i, v) \in Charts(s)[i - a].expression
    BY <1>1 DEF ExpressionSets
  <2> QED BY <2>1, <2>2 DEF Grows
<1>4. Span(i + 1, b, w) \in d.term
  <2>1. m + 1 \in 0 .. Len(s)
    BY <1>1
  <2>2. Grows(Charts(s)[b - (i + 1)], Charts(s)[m + 1])
    BY <1>1, ChartsGrow
  <2>3. Span(i + 1, b, w) \in Charts(s)[b - (i + 1)].term
    BY <1>1 DEF TermSets
  <2> QED BY <2>2, <2>3 DEF Grows
<1>5. ExpressionSets(s)[b - a] = d.expression
  BY <1>1 DEF ExpressionSets
<1> HIDE DEF c, d
<1>6. d.expression = d.term \cup Combined(s, ExpressionOps, c.expression, d.term)
  BY <1>2, DeriveParts
<1>7. Span(a, b, Apply(s[i].is, v, w)) \in Combined(s, ExpressionOps, c.expression, d.term)
  BY <1>1, <1>3, <1>4, IntoCombined
<1> QED BY <1>5, <1>6, <1>7

(* A sign or a bracket makes a chart with one token more, or two.            *)
LEMMA FactorDerives ==
  ASSUME NEW s, Len(s) \in Nat, NEW a \in 1 .. Len(s) + 1,
         \A q \in a + 1 .. Len(s) + 1 :
           /\ Derives(s, q, Parses(s)[q].factor, FactorSets(s))
           /\ Derives(s, q, Parses(s)[q].expression, ExpressionSets(s))
  PROVE  Derives(s, a, Parses(s)[a].factor, FactorSets(s))
<1> DEFINE r == Parses(s)[a].factor
           next == Rest(s, a)[a + 1]
<1>1. r = ParseFactor(s, a, Rest(s, a))
  BY ParseParts
<1>2. ASSUME r.ok, a = Len(s) + 1 PROVE FALSE
  <2>1. TokenAt(s, a) = "end"
    BY <1>2 DEF TokenAt
  <2>2. r = Failed
    BY <1>1, <2>1 DEF ParseFactor, ParseNumber
  <2> QED BY <1>2, <2>2 DEF Failed
<1>3. SUFFICES ASSUME r.ok, a \in 1 .. Len(s)
               PROVE  r.at \in a + 1 .. Len(s) + 1 /\ Span(a, r.at, r.v) \in FactorSets(s)[r.at - a]
  BY <1>2 DEF Derives
<1>4. /\ a + 1 \in a + 1 .. Len(s) + 1 /\ next = Parses(s)[a + 1]
      /\ TokenAt(s, a) = s[a].is
  BY <1>3 DEF Rest, TokenAt
<1> HIDE DEF r
<1>5. \A n \in 1 .. Len(s) : Charts(s)[n] = Derive(s, Charts(s)[n - 1])
  BY ChartSteps
<1>6. CASE s[a].is \in {"+", "-"}
  <2> DEFINE f == next.factor
  <2>1. f.ok /\ r.at = f.at /\ r.v = IF s[a].is = "-" THEN Minus(f.v) ELSE f.v
    BY <1>1, <1>3, <1>4, <1>6 DEF ParseFactor, Read, Failed
  <2>2. f.at \in (a + 1) + 1 .. Len(s) + 1 /\ Span(a + 1, f.at, f.v) \in FactorSets(s)[f.at - (a + 1)]
    BY <1>4, <2>1 DEF Derives
  <2> HIDE DEF next
  <2> DEFINE n == f.at - a
  <2>3. n \in 1 .. Len(s) /\ n - 1 = f.at - (a + 1) /\ n - 1 \in 0 .. Len(s) /\ n \in 0 .. Len(s)
    <3>1. n \in 1 .. Len(s) /\ n - 1 = f.at - (a + 1)
      BY <2>2
    <3> HIDE DEF n
    <3> QED BY <3>1
  <2> DEFINE c == Charts(s)[n - 1]
             y == Span(a + 1, f.at, f.v)
  <2>4. y \in c.factor
    BY <2>2, <2>3 DEF FactorSets
  <2>5. y.from = a + 1 /\ y.to = f.at /\ y.v = f.v /\ y.from > 1 /\ y.from - 1 = a
    BY DEF Span
  <2> HIDE DEF y, c, f
  <2>6. Span(a, r.at, r.v) \in Signed(s, c.factor)
    <3>1. y \in {z \in c.factor : z.from > 1 /\ s[z.from - 1].is \in {"+", "-"}}
      BY <1>6, <2>4, <2>5
    <3>2. Span(y.from - 1, y.to, IF s[y.from - 1].is = "-" THEN Minus(y.v) ELSE y.v)
            \in Signed(s, c.factor)
      BY <3>1 DEF Signed
    <3> QED BY <2>1, <2>5, <3>2
  <2>7. Span(a, r.at, r.v) \in Derive(s, c).factor
    BY <2>6 DEF Derive
  <2>8. Span(a, r.at, r.v) \in FactorSets(s)[n]
    BY <1>5, <2>3, <2>7 DEF FactorSets, c
  <2>9. r.at \in a + 1 .. Len(s) + 1
    BY <2>1, <2>2
  <2> QED BY <2>1, <2>8, <2>9
<1>7. CASE s[a].is = "("
  <2> DEFINE e == next.expression
  <2>1. e.ok /\ TokenAt(s, e.at) = ")" /\ r.at = e.at + 1 /\ r.v = e.v
    BY <1>1, <1>3, <1>4, <1>7 DEF ParseFactor, Read, Failed
  <2>2. /\ e.at \in (a + 1) + 1 .. Len(s) + 1
        /\ Span(a + 1, e.at, e.v) \in ExpressionSets(s)[e.at - (a + 1)]
    BY <1>4, <2>1 DEF Derives
  <2>3. e.at <= Len(s) /\ s[e.at].is = ")"
    BY <2>1 DEF TokenAt
  <2> HIDE DEF next
  <2> DEFINE n == e.at - a
  <2>4. n \in 1 .. Len(s) /\ n - 1 = e.at - (a + 1) /\ n - 1 \in 0 .. Len(s)
        /\ n + 1 \in 1 .. Len(s) /\ n + 1 \in 0 .. Len(s) /\ (n + 1) - 1 = n /\ n + 1 = r.at - a
        /\ n \in n - 1 .. Len(s)
    <3>1. e.at \in a + 2 .. Len(s) /\ r.at = e.at + 1
      BY <2>1, <2>2, <2>3
    <3>2. n \in 2 .. Len(s) - 1
      BY <3>1
    <3>3. n - 1 = e.at - (a + 1) /\ n + 1 = r.at - a
      BY <3>1
    <3> HIDE DEF n, e
    <3> QED BY <3>2, <3>3
  <2> DEFINE c == Charts(s)[n]
             y == Span(a + 1, e.at, e.v)
  <2>5. y \in c.expression
    <3>1. y \in Charts(s)[n - 1].expression
      BY <2>2, <2>4 DEF ExpressionSets
    <3>2. Grows(Charts(s)[n - 1], Charts(s)[n])
      BY <2>4, ChartsGrow
    <3> QED BY <3>1, <3>2 DEF Grows
  <2>6. y.from = a + 1 /\ y.to = e.at /\ y.v = e.v /\ y.from > 1 /\ y.from - 1 = a
    BY DEF Span
  <2>d. Charts(s)[n + 1] = Derive(s, c)
    <3>1. Charts(s)[n + 1] = Derive(s, Charts(s)[(n + 1) - 1])
      BY <1>5, <2>4
    <3> QED BY <2>4, <3>1
  <2> HIDE DEF y, c, e, n
  <2>7. Span(a, r.at, r.v) \in Bracketed(s, c.expression)
    <3>1. y \in {z \in c.expression : /\ z.from > 1 /\ s[z.from - 1].is = "("
                                      /\ z.to <= Len(s) /\ s[z.to].is = ")"}
      BY <1>7, <2>3, <2>5, <2>6
    <3>2. Span(y.from - 1, y.to + 1, y.v) \in Bracketed(s, c.expression)
      BY <3>1 DEF Bracketed
    <3> QED BY <2>1, <2>6, <3>2
  <2>8. Span(a, r.at, r.v) \in Derive(s, c).factor
    BY <2>7 DEF Derive
  <2>9. Span(a, r.at, r.v) \in FactorSets(s)[n + 1]
    BY <2>4, <2>d, <2>8 DEF FactorSets
  <2>10. r.at \in a + 1 .. Len(s) + 1
    BY <2>1, <2>2, <2>3
  <2> QED BY <2>4, <2>9, <2>10
<1>8. CASE s[a].is \notin {"+", "-", "("}
  <2>1. r = ParseNumber(s, a)
    BY <1>1, <1>4, <1>8 DEF ParseFactor
  <2>2. s[a].is = "number" /\ r.at = a + 1 /\ r.v = Fraction(s[a].n, 1)
    BY <1>3, <1>4, <2>1 DEF ParseNumber, Read, Failed
  <2>3. Span(a, r.at, r.v) \in Derive(s, Charts(s)[0]).factor
    <3> DEFINE c == Charts(s)[0]
    <3> HIDE DEF c
    <3>1. Span(a, a + 1, Fraction(s[a].n, 1)) \in Derive(s, c).factor
      BY <1>3, <2>2 DEF Derive
    <3> QED BY <2>2, <3>1 DEF c
  <2>4. 1 \in 1 .. Len(s) /\ 1 - 1 = 0 /\ 1 \in 0 .. Len(s) /\ r.at - a = 1
        /\ r.at \in a + 1 .. Len(s) + 1
    BY <1>3, <2>2
  <2>5. Charts(s)[1] = Derive(s, Charts(s)[0])
    <3>1. Charts(s)[1] = Derive(s, Charts(s)[1 - 1])
      BY <1>5, <2>4
    <3> QED BY <2>4, <3>1
  <2> QED BY <2>3, <2>4, <2>5 DEF FactorSets
<1> QED BY <1>6, <1>7, <1>8

LEMMA ParsesDerive ==
  ASSUME NEW s, Len(s) \in Nat, NEW a \in 1 .. Len(s) + 1
  PROVE  /\ Derives(s, a, Parses(s)[a].factor, FactorSets(s))
         /\ Derives(s, a, Parses(s)[a].term, TermSets(s))
         /\ Derives(s, a, Parses(s)[a].expression, ExpressionSets(s))
<1> DEFINE n == Len(s)
           All(q) == /\ Derives(s, q, Parses(s)[q].factor, FactorSets(s))
                     /\ Derives(s, q, Parses(s)[q].term, TermSets(s))
                     /\ Derives(s, q, Parses(s)[q].expression, ExpressionSets(s))
           T == {k \in Nat : \A q \in 1 .. n + 1 : q > n + 1 - k => All(q)}
<1>1. \A m \in 0 .. n : /\ Charts(s)[m].factor \subseteq Charts(s)[m].term
                        /\ Charts(s)[m].term \subseteq Charts(s)[m].expression
  <2>1. \A m \in 1 .. n : /\ Charts(s)[m].factor \subseteq Charts(s)[m].term
                          /\ Charts(s)[m].term \subseteq Charts(s)[m].expression
    <3> SUFFICES ASSUME NEW m \in 1 .. n
                 PROVE  /\ Charts(s)[m].factor \subseteq Charts(s)[m].term
                        /\ Charts(s)[m].term \subseteq Charts(s)[m].expression
      OBVIOUS
    <3> DEFINE c == Charts(s)[m - 1]
               d == Derive(s, c)
    <3>1. Charts(s)[m] = d
      BY ChartSteps
    <3>2. /\ d.term = d.factor \cup Combined(s, TermOps, c.term, d.factor)
          /\ d.expression = d.term \cup Combined(s, ExpressionOps, c.expression, d.term)
      BY DeriveParts
    <3> HIDE DEF d
    <3> QED BY <3>1, <3>2
  <2>2. Charts(s)[0].factor = {} /\ Charts(s)[0].term = {}
    BY ChartSteps
  <2> QED BY <2>1, <2>2
<1>2. 0 \in T
  OBVIOUS
<1>3. ASSUME NEW k \in Nat, k \in T PROVE k + 1 \in T
  <2>1. SUFFICES ASSUME NEW q \in 1 .. n + 1, q > n + 1 - (k + 1) PROVE All(q)
    BY <1>3
  <2>2. \A p \in q + 1 .. n + 1 : All(p)
    <3>1. \A p \in q + 1 .. n + 1 : p \in 1 .. n + 1 /\ p > n + 1 - k
      BY <2>1
    <3> QED BY <1>3, <3>1
  <2>3. Derives(s, q, Parses(s)[q].factor, FactorSets(s))
    BY <2>2, FactorDerives
  <2>4. \A r : Derives(s, q, r, FactorSets(s)) => Derives(s, q, r, TermSets(s))
    <3> SUFFICES ASSUME NEW r, r.ok, r.at \in q + 1 .. n + 1,
                        Span(q, r.at, r.v) \in FactorSets(s)[r.at - q]
                 PROVE  Span(q, r.at, r.v) \in TermSets(s)[r.at - q]
      BY DEF Derives
    <3>1. r.at - q \in 0 .. n
      OBVIOUS
    <3> QED BY <1>1, <3>1 DEF FactorSets, TermSets
  <2>5. \A r : Derives(s, q, r, TermSets(s)) => Derives(s, q, r, ExpressionSets(s))
    <3> SUFFICES ASSUME NEW r, r.ok, r.at \in q + 1 .. n + 1,
                        Span(q, r.at, r.v) \in TermSets(s)[r.at - q]
                 PROVE  Span(q, r.at, r.v) \in ExpressionSets(s)[r.at - q]
      BY DEF Derives
    <3>1. r.at - q \in 0 .. n
      OBVIOUS
    <3> QED BY <1>1, <3>1 DEF ExpressionSets, TermSets
  <2>6. Derives(s, q, Parses(s)[q].term, TermSets(s))
    <3>1. Derives(s, q, Parses(s)[q].factor, TermSets(s))
      BY <2>3, <2>4
    <3>2. \A p \in q + 1 .. n + 1 : Derives(s, p, Factors(s, q)[p], FactorSets(s))
      BY <2>2 DEF Factors
    <3>3. \A v, w : \A i \in q + 1 .. n : \A b \in i + 2 .. n + 1 :
            /\ Span(q, i, v) \in TermSets(s)[i - q]
            /\ Span(i + 1, b, w) \in FactorSets(s)[b - (i + 1)]
            /\ s[i].is \in TermOps /\ Applies(s[i].is, w)
            => Span(q, b, Apply(s[i].is, v, w)) \in TermSets(s)[b - q]
      <4> SUFFICES ASSUME NEW v, NEW w, NEW i \in q + 1 .. n, NEW b \in i + 2 .. n + 1,
                          Span(q, i, v) \in TermSets(s)[i - q],
                          Span(i + 1, b, w) \in FactorSets(s)[b - (i + 1)],
                          s[i].is \in TermOps, Applies(s[i].is, w)
                   PROVE  Span(q, b, Apply(s[i].is, v, w)) \in TermSets(s)[b - q]
        OBVIOUS
      <4>1. q \in 1 .. n
        OBVIOUS
      <4> QED BY <4>1, TermsCombine
    <3>4. "end" \notin TermOps
      BY DEF TermOps
    <3>5. Derives(s, q, ParseOperators(s, TermOps, Parses(s)[q].factor, Factors(s, q)), TermSets(s))
      BY <3>1, <3>2, <3>3, <3>4, LoopDerives
    <3> QED BY <3>5, ParseParts
  <2>7. Derives(s, q, Parses(s)[q].expression, ExpressionSets(s))
    <3>1. Derives(s, q, Parses(s)[q].term, ExpressionSets(s))
      BY <2>5, <2>6
    <3>2. \A p \in q + 1 .. n + 1 : Derives(s, p, Terms(s, q)[p], TermSets(s))
      BY <2>2 DEF Terms
    <3>3. \A v, w : \A i \in q + 1 .. n : \A b \in i + 2 .. n + 1 :
            /\ Span(q, i, v) \in ExpressionSets(s)[i - q]
            /\ Span(i + 1, b, w) \in TermSets(s)[b - (i + 1)]
            /\ s[i].is \in ExpressionOps /\ Applies(s[i].is, w)
            => Span(q, b, Apply(s[i].is, v, w)) \in ExpressionSets(s)[b - q]
      <4> SUFFICES ASSUME NEW v, NEW w, NEW i \in q + 1 .. n, NEW b \in i + 2 .. n + 1,
                          Span(q, i, v) \in ExpressionSets(s)[i - q],
                          Span(i + 1, b, w) \in TermSets(s)[b - (i + 1)],
                          s[i].is \in ExpressionOps, Applies(s[i].is, w)
                   PROVE  Span(q, b, Apply(s[i].is, v, w)) \in ExpressionSets(s)[b - q]
        OBVIOUS
      <4>1. q \in 1 .. n
        OBVIOUS
      <4> QED BY <4>1, ExpressionsCombine
    <3>4. "end" \notin ExpressionOps
      BY DEF ExpressionOps
    <3>5. Derives(s, q, ParseOperators(s, ExpressionOps, Parses(s)[q].term, Terms(s, q)),
                  ExpressionSets(s))
      BY <3>1, <3>2, <3>3, <3>4, LoopDerives
    <3> QED BY <3>5, ParseParts
  <2> QED BY <2>3, <2>6, <2>7
<1>4. n + 1 \in T
  <2> HIDE DEF T
  <2> QED BY <1>2, <1>3, NatSetInduction
<1>5. a \in 1 .. n + 1 /\ a > n + 1 - (n + 1)
  OBVIOUS
<1> QED BY <1>4, <1>5

(* The parser and the grammar agree, on the values as they are written.      *)
LEMMA CalculatorAgrees ==
  ASSUME NEW s, Len(s) \in Nat
  PROVE  AgreesWithGrammar(s)
<1> DEFINE n == Len(s)
           p == Parses(s)[1].expression
           e == EvalExpression(s)
<1>1. e = IF p.ok /\ p.at = n + 1 THEN p ELSE Failed
  BY DEF EvalExpression, Parses
<1>2. ASSUME NEW v \in Values(s)
      PROVE  p = Read(v, n + 1)
  <2>1. PICK x \in Charts(s)[n].expression : x.from = 1 /\ x.to = n + 1 /\ x.v = v
    BY <1>2 DEF Values
  <2>2. ExpressionRead(s, x)
    <3>1. n \in 0 .. Len(s)
      OBVIOUS
    <3> QED BY <2>1, <3>1, ChartsAreRead
  <2>3. TokenAt(s, x.to) \notin TermOps \cup ExpressionOps
    <3>1. TokenAt(s, x.to) = "end"
      BY <2>1 DEF TokenAt
    <3> QED BY <3>1 DEF TermOps, ExpressionOps
  <2>4. Parses(s)[x.from].expression = Read(x.v, x.to)
    BY <2>2, <2>3, ExpressionsEnd
  <2> QED BY <2>1, <2>4
<1>3. ASSUME p.ok, p.at = n + 1 PROVE p.v \in Values(s)
  <2>1. 1 \in 1 .. Len(s) + 1
    OBVIOUS
  <2>2. Derives(s, 1, p, ExpressionSets(s))
    BY <2>1, ParsesDerive
  <2>3. Span(1, n + 1, p.v) \in ExpressionSets(s)[(n + 1) - 1]
    BY <1>3, <2>2 DEF Derives
  <2>4. (n + 1) - 1 = n /\ n \in 0 .. Len(s)
    OBVIOUS
  <2> DEFINE x == Span(1, n + 1, p.v)
  <2>5. x \in Charts(s)[n].expression
    BY <2>3, <2>4 DEF ExpressionSets
  <2>6. x.from = 1 /\ x.to = n + 1 /\ x.v = p.v
    BY DEF Span
  <2> HIDE DEF x, p
  <2> QED BY <2>5, <2>6 DEF Values
<1> HIDE DEF e, p
<1>4. CASE p.ok /\ p.at = n + 1
  <2>1. e = p /\ e.v \in Values(s)
    BY <1>1, <1>3, <1>4
  <2>2. \A v \in Values(s) : Same(v, e.v)
    <3> SUFFICES ASSUME NEW v \in Values(s) PROVE Same(v, e.v)
      OBVIOUS
    <3>1. e.v = v
      BY <1>2, <2>1 DEF Read
    <3> QED BY <3>1 DEF Same
  <2>3. e.ok
    BY <1>4, <2>1
  <2> QED BY <2>1, <2>2, <2>3 DEF AgreesWithGrammar, e
<1>5. CASE ~(p.ok /\ p.at = n + 1)
  <2>1. ~e.ok
    BY <1>1, <1>5 DEF Failed
  <2>2. Values(s) = {}
    <3> SUFFICES ASSUME NEW v \in Values(s) PROVE FALSE
      OBVIOUS
    <3>1. p.ok /\ p.at = n + 1
      BY <1>2 DEF Read
    <3> QED BY <1>5, <3>1
  <2> QED BY <2>1, <2>2 DEF AgreesWithGrammar, e
<1> QED BY <1>4, <1>5

-------------------------------------------------------------------------------
(* The calls                                                               *)

LEMMA BoundedSequences ==
  ASSUME NEW S, NEW n \in Nat
  PROVE  SeqsUpTo(S, n) \subseteq Seq(S)
<1>1. \A k \in Nat : [1 .. k -> S] \subseteq Seq(S)
  OBVIOUS
<1> QED BY <1>1 DEF SeqsUpTo

LEMMA MessageIs ==
  ASSUME NEW role \in Roles, NEW calls \in BOOLEAN, NEW text \in Nat
  PROVE  Message(role, calls, text) \in AnyMessage /\ Message(role, calls, text).role = role
BY DEF Message, AnyMessage

AnyToken == {Numeral(n) : n \in Int} \cup Symbols

LEMMA OperandsAre == Operands \subseteq Seq(AnyToken)
<1>1. Numeral(2) \in AnyToken /\ Numeral(3) \in AnyToken
  BY DEF AnyToken
<1>2. \A c \in {"+", "-", "*", "/", "%", "(", ")"} : Symbol(c) \in AnyToken
  BY DEF AnyToken, Symbols
<1> SUFFICES ASSUME NEW x \in Operands PROVE x \in Seq(AnyToken)
  OBVIOUS
<1> HIDE DEF AnyToken
<1>3. \/ x = <<Numeral(2)>>
      \/ x = <<Symbol("-"), Numeral(3)>>
      \/ \E n \in {2, 3}, c \in {"-", "%"} :
           x = <<Symbol("("), Numeral(n), Symbol(c), Numeral(3), Symbol(")")>>
  BY DEF Operands
<1>4. CASE x = <<Numeral(2)>>
  BY <1>1, <1>4
<1>5. CASE x = <<Symbol("-"), Numeral(3)>>
  BY <1>1, <1>2, <1>5
<1>6. CASE \E n \in {2, 3}, c \in {"-", "%"} :
             x = <<Symbol("("), Numeral(n), Symbol(c), Numeral(3), Symbol(")")>>
  <2>1. PICK n \in {2, 3}, c \in {"-", "%"} :
          x = <<Symbol("("), Numeral(n), Symbol(c), Numeral(3), Symbol(")")>>
    BY <1>6
  <2>2. Numeral(n) \in AnyToken /\ Symbol(c) \in AnyToken
        /\ Symbol("(") \in AnyToken /\ Symbol(")") \in AnyToken
    BY <1>1, <1>2
  <2> QED BY <1>1, <2>1, <2>2
<1> QED BY <1>3, <1>4, <1>5, <1>6

(* What the model of the calls gives to the functions of the agent.         *)
AgentInputs ==
  /\ call.fn = "fit" =>
       /\ call.ms \in Seq(AnyMessage) /\ call.ms # <<>> /\ call.ms[1].role = "system"
       /\ call.tools \in Nat /\ call.modelMax \in Int /\ call.maxOutput \in Int
  /\ call.fn = "eval" => Len(call.s) \in Nat
  /\ call.fn = "random" => call.a \in Int64 /\ call.b \in Int64

LEMMA AgentInputsStep == AgentInputs /\ [CallNext]_call => AgentInputs'
<1> SUFFICES ASSUME AgentInputs, [CallNext]_call PROVE AgentInputs'
  OBVIOUS
<1>1. CASE CallFit
  <2>1. PICK h \in Histories, s \in Texts, tools \in ToolSizes, max \in Limits, out \in OutputLimits :
          call' = [fn |-> "fit", ms |-> <<Message("system", FALSE, s)>> \o h,
                   tools |-> tools, modelMax |-> max, maxOutput |-> out]
    BY <1>1 DEF CallFit
  <2>2. Texts \subseteq Nat /\ ToolSizes \subseteq Nat /\ Limits \subseteq Int
        /\ OutputLimits \subseteq Int /\ MaxMessages \in Nat
    BY InputAssumption
  <2>3. Messages \subseteq AnyMessage
    <3>1. \A t \in Texts : t \in Nat
      BY <2>2
    <3>2. "user" \in Roles /\ "assistant" \in Roles /\ "tool" \in Roles
      BY DEF Roles
    <3>4. TRUE \in BOOLEAN /\ FALSE \in BOOLEAN
      OBVIOUS
    <3>3. \A t \in Texts : /\ Message("user", FALSE, t) \in AnyMessage
                           /\ Message("assistant", TRUE, t) \in AnyMessage
                           /\ Message("assistant", FALSE, t) \in AnyMessage
                           /\ Message("tool", FALSE, t) \in AnyMessage
      BY <3>1, <3>2, <3>4, MessageIs
    <3> QED BY <3>3 DEF Messages
  <2>4. h \in Seq(AnyMessage)
    <3>1. h \in Seq(Messages)
      BY <2>2, BoundedSequences DEF Histories
    <3> QED BY <2>3, <3>1
  <2> DEFINE system == Message("system", FALSE, s)
  <2>5. system \in AnyMessage /\ system.role = "system"
    <3>1. s \in Nat /\ "system" \in Roles
      BY <2>2 DEF Roles
    <3>2. FALSE \in BOOLEAN
      OBVIOUS
    <3> QED BY <3>1, <3>2, MessageIs
  <2> HIDE DEF system
  <2>6. <<system>> \o h \in Seq(AnyMessage) /\ Len(<<system>> \o h) = 1 + Len(h) /\ (<<system>> \o h)[1] = system
    BY <2>4, <2>5
  <2>7. <<system>> \o h # <<>>
    BY <2>4, <2>6, EmptySeq, LenProperties
  <2>8. call'.ms = <<system>> \o h /\ call'.tools = tools /\ call'.modelMax = max
        /\ call'.maxOutput = out /\ call'.fn = "fit"
    BY <2>1 DEF system
  <2> QED BY <2>2, <2>5, <2>6, <2>7, <2>8 DEF AgentInputs
<1>2. CASE CallRandom
  BY <1>2 DEF CallRandom, AgentInputs
<1>3. CASE CallRoute
  <2>1. PICK status, m : call' = [fn |-> "route", status |-> status, m |-> m]
    BY <1>3, Zenon DEF CallRoute
  <2> QED BY <2>1 DEF AgentInputs
<1>eval. CASE CallEval
  <2> DEFINE S == {Numeral(n) : n \in Numbers} \cup Symbols
  <2>1. PICK s \in SeqsUpTo(S, MaxSymbols) : call' = [fn |-> "eval", s |-> s]
    BY <1>eval DEF CallEval
  <2> HIDE DEF S
  <2>2. Len(s) \in Nat
    BY InputAssumption, BoundedSequences
  <2>3. call'.fn = "eval" /\ call'.s = s
    BY <2>1
  <2> QED BY <2>2, <2>3 DEF AgentInputs
<1>long. CASE CallEvalLong
  <2>1. PICK x \in Operands, y \in Operands, z \in Operands,
             f \in {Symbol(c) : c \in {"+", "-", "*", "/", "%"}},
             g \in {Symbol(c) : c \in {"+", "-", "*", "/", "%"}} :
          call' = [fn |-> "eval", s |-> x \o <<f>> \o y \o <<g>> \o z]
    BY <1>long DEF CallEvalLong
  <2> DEFINE s == x \o <<f>> \o y \o <<g>> \o z
  <2>2. s \in Seq(AnyToken)
    <3>1. x \in Seq(AnyToken) /\ y \in Seq(AnyToken) /\ z \in Seq(AnyToken)
      BY OperandsAre
    <3>2. f \in AnyToken /\ g \in AnyToken
      BY DEF AnyToken, Symbols
    <3> QED BY <3>1, <3>2
  <2> HIDE DEF s
  <2>3. call'.fn = "eval" /\ call'.s = s
    BY <2>1 DEF s
  <2> QED BY <2>2, <2>3 DEF AgentInputs
<1>4. CASE CallStats \/ CallWindow
  <2>1. call'.fn \in {"stats", "window"}
    <3>3. CallStats => call'.fn = "stats"
      BY DEF CallStats
    <3>4. CallWindow => call'.fn = "window"
      BY DEF CallWindow
    <3> QED BY <1>4, <3>3, <3>4
  <2> QED BY <2>1 DEF AgentInputs
<1>5. CASE UNCHANGED call
  BY <1>5 DEF AgentInputs
<1> QED BY <1>1, <1>eval, <1>long, <1>2, <1>3, <1>4, <1>5 DEF CallNext

LEMMA AgentInputsInvariant == CallSpec => []AgentInputs
<1>1. CallInit => AgentInputs
  BY DEF CallInit, AgentInputs
<1> QED BY <1>1, AgentInputsStep, PTL DEF CallSpec

LEMMA AtLeastTwo == \A n \in Nat \ {0} : n # 1 => n \in Nat /\ n >= 2
OBVIOUS

LEMMA LimitedIs ==
  ASSUME call.tools \in Nat, call.modelMax \in Int, call.maxOutput \in Int
  PROVE  /\ Limited.modelMax \in Int /\ Limited.maxOutput \in Int
         /\ BudgetOf(call.tools, Limited.modelMax, Limited.maxOutput)
              = InputBudget(call.tools, Limited.modelMax, Limited.maxOutput)
         /\ InputBudget(call.tools, Limited.modelMax, Limited.maxOutput) \in Nat
<1> DEFINE limits == AgentLimits(call.modelMax, call.maxOutput)
<1>1. /\ limits.modelMax \in Nat \ {0} /\ limits.maxOutput \in Nat
      /\ BudgetOf(call.tools, limits.modelMax, limits.maxOutput)
           = InputBudget(call.tools, limits.modelMax, limits.maxOutput)
      /\ InputBudget(call.tools, limits.modelMax, limits.maxOutput) \in Nat
  BY LimitsOfAgent
<1>2. Limited = limits
  BY DEF Limited
<1> HIDE DEF limits
<1> QED BY <1>1, <1>2

(* For every history, every size of the tools and all limits, what is sent  *)
(* to the model is the system message with whole blocks from the end of the *)
(* history, or with a first part of its newest block.                       *)
THEOREM SentIsNewest == CallSpec => []FitSelectsFromEnd
<1>1. AgentInputs => FitSelectsFromEnd
  <2> SUFFICES ASSUME AgentInputs, call.fn = "fit" PROVE SelectsFromEnd(Sent, call.ms)
    BY DEF FitSelectsFromEnd
  <2>1. /\ call.ms \in Seq(AnyMessage) /\ call.ms # <<>> /\ call.tools \in Nat
        /\ call.modelMax \in Int /\ call.maxOutput \in Int
    BY DEF AgentInputs
  <2>2. /\ Limited.modelMax \in Int /\ Limited.maxOutput \in Int
        /\ BudgetOf(call.tools, Limited.modelMax, Limited.maxOutput) \in Int
    BY <2>1, LimitedIs
  <2> QED BY <2>1, <2>2, FitSelects DEF Sent
<1> QED BY <1>1, AgentInputsInvariant, PTL

(* It fits into the budget, but for what the messages of a cut block cost   *)
(* without their texts.                                                     *)
THEOREM BudgetIsKept == CallSpec => []FitStaysInBudget
<1>1. AgentInputs => FitStaysInBudget
  <2> SUFFICES ASSUME AgentInputs, call.fn = "fit" PROVE FitStaysInBudget
    BY DEF FitStaysInBudget
  <2>1. /\ call.ms \in Seq(AnyMessage) /\ call.ms # <<>> /\ call.tools \in Nat
        /\ call.modelMax \in Int /\ call.maxOutput \in Int
    BY DEF AgentInputs
  <2> DEFINE system == call.ms[1]
             least  == IF Len(call.ms) = 1 THEN <<>> ELSE NewestBlock(Tail(call.ms))
             room   == Budget
             most   == Allowed
  <2>2. /\ Limited.modelMax \in Int /\ Limited.maxOutput \in Int /\ room \in Nat
        /\ room = BudgetOf(call.tools, Limited.modelMax, Limited.maxOutput)
    BY <2>1, LimitedIs DEF Budget
  <2>3. /\ MessagesTokens(<<system>> \o least) <= room => MessagesTokens(Sent) <= room
        /\ MessageTokens(system) < room => MessagesTokens(Sent) <= room + Overrun(Sent)
        /\ \/ MessagesTokens(<<system>> \o least) <= room
           \/ MessageTokens(system) < room
           \/ MessagesTokens(Sent) <= Bare(system) + ModelTokens(most) + SuffixTokens + Drift
    BY <2>1, <2>2, FitFits DEF Sent, Allowed
  <2> HIDE DEF room, least, most, system
  <2>4. IF MessagesTokens(<<system>> \o least) <= room THEN MessagesTokens(Sent) <= room
        ELSE IF MessageTokens(system) < room THEN MessagesTokens(Sent) <= room + Overrun(Sent)
        ELSE MessagesTokens(Sent) <= Bare(system) + ModelTokens(most) + SuffixTokens + Drift
    BY <2>3, Zenon
  <2> QED BY <2>4 DEF FitStaysInBudget, room, least, most, system
<1> QED BY <1>1, AgentInputsInvariant, PTL

(* The user's message is sent whole with the system message whenever the    *)
(* agent does not hand it to the intent router.                             *)
THEOREM UserMessageIsSent == CallSpec => []FirstRoundIsWhole
<1>1. AgentInputs => FirstRoundIsWhole
  <2> DEFINE ms     == call.ms
             newest == ms[Len(ms)]
  <2> SUFFICES ASSUME AgentInputs, call.fn = "fit", newest.role = "user",
                      ~LatestExceeds(ms[1], newest, call.tools, Limited)
               PROVE  Len(Sent) >= 2 /\ Sent[1] = ms[1] /\ Sent[Len(Sent)] = newest
    BY DEF FirstRoundIsWhole
  <2>1. /\ ms \in Seq(AnyMessage) /\ ms # <<>> /\ ms[1].role = "system" /\ call.tools \in Nat
        /\ call.modelMax \in Int /\ call.maxOutput \in Int
    BY DEF AgentInputs
  <2>2. Len(ms) \in Nat /\ Len(ms) >= 2 /\ Len(ms) \in 1 .. Len(ms) /\ 1 \in 1 .. Len(ms)
    <3>1. Len(ms) \in Nat \ {0}
      BY <2>1, LenProperties, EmptySeq
    <3>2. ASSUME Len(ms) = 1 PROVE FALSE
      <4>1. newest = ms[1]
        BY <3>2
      <4>2. newest.role = "system"
        BY <2>1, <4>1
      <4> QED BY <4>2
    <3>3. Len(ms) # 1
      BY <3>2
    <3> HIDE DEF ms
    <3>4. Len(ms) \in Nat /\ Len(ms) >= 2
      BY <3>1, <3>3, AtLeastTwo
    <3> QED BY <3>4
  <2>3. ms[1] \in AnyMessage /\ newest \in AnyMessage
    BY <2>1, <2>2, LenProperties
  <2> DEFINE limits == AgentLimits(call.modelMax, call.maxOutput)
             max    == limits.modelMax
             out    == limits.maxOutput
             budget == InputBudget(call.tools, max, out)
             room   == max - out - call.tools - SafetyMargin
  <2>4. /\ max \in Nat \ {0} /\ out \in Nat /\ budget = BudgetOf(call.tools, max, out) /\ budget \in Nat
    BY <2>1, LimitsOfAgent
  <2>5. ~(room <= 0) /\ ~(MessagesTokens(<<ms[1], newest>>) > room)
    BY DEF LatestExceeds, Limited
  <2>6. budget = room
    BY <2>5 DEF InputBudget
  <2>7. MessagesTokens(<<ms[1], newest>>) = MessageTokens(ms[1]) + MessageTokens(newest)
    <3>1. <<ms[1], newest>> = Append(<<ms[1]>>, newest) /\ <<ms[1]>> \in Seq(AnyMessage)
      BY <2>3
    <3>2. MessagesTokens(<<ms[1]>>) = MessageTokens(ms[1])
      BY <2>3, TokensOfFew
    <3> QED BY <2>3, <3>1, <3>2, TokensAppend
  <2>8. Sent = FitMessages(ms, call.tools, max, out)
    BY DEF Sent, Limited
  <2> HIDE DEF budget, room, limits, ms
  <2>9. MessageTokens(ms[1]) \in Nat /\ MessageTokens(newest) \in Nat
    BY <2>3, MessageCosts
  <2>10. budget \in Nat \ {0} /\ MessageTokens(ms[1]) + MessageTokens(newest) <= budget
    BY <2>4, <2>5, <2>6, <2>7, <2>9
  <2>11. newest.role # "tool"
    OBVIOUS
  <2> QED BY <2>1, <2>2, <2>4, <2>8, <2>10, <2>11, FitKeepsNewest
<1> QED BY <1>1, AgentInputsInvariant, PTL

(* Every int64 arguments, in either order: a panic when the width of the    *)
(* range overflows, a refusal beyond the limit, else each number between.   *)
THEOREM RandomIsRight == CallSpec => []RandomIsInRange
<1>1. AgentInputs => RandomIsInRange
  <2> SUFFICES ASSUME AgentInputs, call.fn = "random" PROVE RandomIsInRange
    BY DEF RandomIsInRange
  <2> DEFINE range == Ordered(call.a, call.b)
             width == range[2] - range[1]
             drawn == RandomNumber(call.a, call.b)
  <2>1. call.a \in Int64 /\ call.b \in Int64
    BY DEF AgentInputs
  <2>2. /\ range[1] \in Int64 /\ range[2] \in Int64 /\ range[1] <= range[2]
        /\ drawn = IF Wrap(width) > RangeLimit THEN {TooWide} ELSE SecureRandInt(range[1], range[2])
    BY <2>1, RandomIsDrawn
  <2> HIDE DEF drawn, range
  <2>3. /\ width >= Half => drawn = {Panics}
        /\ width < Half /\ width > RangeLimit => drawn = {TooWide}
        /\ width <= RangeLimit => drawn = {Number(n) : n \in range[1] .. range[2]}
    BY <2>2, DrawnFrom
  <2>4. width \in Int /\ Half \in Int /\ RangeLimit \in Int
    BY <2>2, ToolsAssumption DEF Int64
  <2> HIDE DEF width
  <2>5. (width >= Half \/ width < Half) /\ (width > RangeLimit \/ width <= RangeLimit)
    BY <2>4
  <2>6. IF width >= Half THEN drawn = {Panics}
        ELSE IF width > RangeLimit THEN drawn = {TooWide}
        ELSE drawn = {Number(n) : n \in range[1] .. range[2]}
    BY <2>3, <2>5, Zenon
  <2> QED BY <2>6, Zenon DEF RandomIsInRange, width, range, drawn
<1> QED BY <1>1, AgentInputsInvariant, PTL

(* The calculator accepts what its grammar derives, of any length, and gives *)
(* it the value of the grammar.                                             *)
THEOREM CalculationIsRight == CallSpec => []CalculatorIsRight
<1>1. AgentInputs => CalculatorIsRight
  BY CalculatorAgrees DEF AgentInputs, CalculatorIsRight
<1> QED BY <1>1, AgentInputsInvariant, PTL

===============================================================================
