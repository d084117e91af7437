----------------------------- MODULE Conversation -----------------------------
(***************************************************************************)
(* The history of one conversation: the list that Redis keeps of it, the    *)
(* row that MySQL keeps of it, the batches that the persist queue still     *)
(* owes to MySQL, the ProcessMessage calls that read and extend it, the     *)
(* reset tool, the hourly cleanup, and a crash followed by the seeding of   *)
(* Redis.                                                                  *)
(*                                                                         *)
(* Batch <<r, 1>> is the user message of request r; <<r, n>> is its n-th   *)
(* batch, a tool round or the final reply.  The queue is what PersistQueue *)
(* shows it to be: workers hold a prefix of what was enqueued, so any of   *)
(* the first WorkerCount batches may be written next.                      *)
(***************************************************************************)
EXTENDS Naturals, Sequences, FiniteSets, SequencesExt, Selection

CONSTANTS Requests,      \* the ProcessMessage calls
          MaxRounds,     \* defaultMaxToolRounds
          WorkerCount,   \* workers of the queue
          MaxTries,      \* maxRetries, the attempts of a worker
          Capacity,      \* bufferSize of its channel
          Window,        \* 24 hours, in ticks: pruning and TTL
          MaxTime,       \* bound on the clock
          Disturbances   \* what may go wrong or interfere

(* "unsure": a write takes effect, but its answer is lost.                  *)
Troubles == {"redis", "mysql", "unsure", "late", "loss", "reset", "restart", "cleanup"}

ASSUME ConstantsAssumption == /\ MaxRounds \in Nat \ {0} /\ WorkerCount \in Nat \ {0}
                              /\ MaxTries \in Nat \ {0}
                              /\ Capacity \in Nat \ {0} /\ Window \in Nat \ {0}
                              /\ MaxTime \in Nat /\ Disturbances \subseteq Troubles

Batch == Requests \X (1 .. MaxRounds + 1)
Time  == 0 .. MaxTime
Entry == [batch : Batch, at : Time]
NoSweep == [busy |-> FALSE, cutoff |-> 0, read |-> <<>>]

VARIABLES
  list,         \* md:conv:...: the Redis list, <<>> when there is no key
  touched,      \* when its TTL was last set
  db,           \* agent_conversations.messages, <<>> when there is no row
  updated,      \* its updated_at
  queue,        \* batches owed by the queue, in channel order
  tried,        \* failed attempts at a batch, by the worker that holds it
  now,          \* the clock
  pc,           \* where each request is
  count,        \* number of its batch in hand
  final,        \* that batch is its reply
  late,         \* its context has ended
  saw,          \* the history it found
  began,        \* when it began
  sweep,        \* the cleanup: its cutoff and the row it has read
  mixed,        \* history: two refills of the list have overlapped
  born,         \* history: batches handed to the stores, and when
  before,       \* history: batches born before each request began
  unsure,       \* history: batches of which a worker's write has landed unanswered
  lost,         \* history: batches given up, swept or lost in a crash
  cleared       \* history: batches in the row when a reset cleared it

request == <<pc, count, final, late, saw, began, before>>
redis   == <<list, touched>>
mysql   == <<db, updated>>
owed    == <<queue, tried>>
past    == <<mixed, born, unsure, lost, cleared>>
vars    == <<redis, mysql, owed, now, request, sweep, past>>

Stages == {"new", "append", "enqueue", "sync", "exists", "range", "readDb", "refill", "fill",
           "ask", "clearList", "clearDb", "ended", "gone"}
Active(r) == pc[r] \notin {"new", "ended", "gone"}

Batches(entries) == [i \in DOMAIN entries |-> entries[i].batch]
Born             == {b \in Batch : born[b] <= MaxTime}
Unborn           == MaxTime + 1
InDb             == ToSet(Batches(db))
InList           == ToSet(list)

TypeOK ==
  /\ list \in Seq(Batch) /\ touched \in Time
  /\ db \in Seq(Entry) /\ updated \in Time
  /\ queue \in Seq(Batch) /\ Len(queue) <= Capacity + WorkerCount
  /\ tried \in [Batch -> 0 .. MaxTries - 1]
  /\ now \in Time
  /\ pc \in [Requests -> Stages]
  /\ count \in [Requests -> 1 .. MaxRounds + 1]
  /\ final \in [Requests -> BOOLEAN] /\ late \in [Requests -> BOOLEAN]
  /\ saw \in [Requests -> Seq(Batch)]
  /\ began \in [Requests -> Time]
  /\ sweep \in [busy : BOOLEAN, cutoff : Time, read : Seq(Entry)]
  /\ mixed \in BOOLEAN
  /\ born \in [Batch -> 0 .. Unborn]
  /\ before \in [Requests -> SUBSET Batch]
  /\ unsure \subseteq Batch /\ lost \subseteq Batch
  /\ cleared \subseteq Batch

Init ==
  /\ list = <<>> /\ touched = 0 /\ db = <<>> /\ updated = 0
  /\ queue = <<>> /\ tried = [b \in Batch |-> 0] /\ now = 0
  /\ pc = [r \in Requests |-> "new"]
  /\ count = [r \in Requests |-> 1]
  /\ final = [r \in Requests |-> FALSE] /\ late = [r \in Requests |-> FALSE]
  /\ saw = [r \in Requests |-> <<>>]
  /\ began = [r \in Requests |-> 0]
  /\ sweep = NoSweep
  /\ mixed = FALSE
  /\ born = [b \in Batch |-> Unborn]
  /\ before = [r \in Requests |-> {}]
  /\ unsure = {} /\ lost = {} /\ cleared = {}

-------------------------------------------------------------------------------
May(trouble) == trouble \in Disturbances

(* A Redis command of request r fails for certain once its context is over. *)
RedisWorks(r) == ~late[r]
RedisFails(r) == late[r] \/ May("redis")

Goto(r, stage) == pc' = [pc EXCEPT ![r] = stage]

Current(r) == <<r, count[r]>>

Cutoff == IF now < Window THEN 0 ELSE now - Window

(* pruneStoredMessages.                                                     *)
Prune(entries, cutoff) == Select(entries, {e \in Entry : e.at >= cutoff})

(* ConversationRepo.AppendMessages: one transaction on a locked row.  The   *)
(* batch is stamped with the time of the write.                            *)
AppendDb(b) == /\ db' = Prune(Append(db, [batch |-> b, at |-> now]), Cutoff)
               /\ updated' = now

(* Bug: the TTL is set when the list is created, not on every append.       *)
PushOnce(b) == /\ list' = Append(list, b)
               /\ touched' = IF list = <<>> THEN now ELSE touched

(* Bug: the list is replaced (the design's Get, append and Set, raced).     *)
PushAlone(b) == list' = <<b>> /\ touched' = now

(* RPUSH and EXPIRE.                                                        *)
Push(b) == list' = Append(list, b) /\ touched' = now

(* A message beyond the token budget is left to the intent router, which    *)
(* may reset the conversation; the others join the history.                *)
Begin(r) ==
  /\ pc[r] = "new"
  /\ \/ Goto(r, "append")
     \/ May("reset") /\ Goto(r, "clearList")
  /\ began' = [began EXCEPT ![r] = now]
  /\ before' = [before EXCEPT ![r] = Born]
  /\ UNCHANGED <<redis, mysql, owed, now, count, final, late, saw, sweep, past>>

(* cache.AppendMessages; an error may come although the push took effect.   *)
AppendToList(r) ==
  /\ pc[r] = "append"
  /\ \/ RedisWorks(r) /\ Push(Current(r)) /\ Goto(r, "enqueue")
     \/ RedisFails(r) /\ (Push(Current(r)) \/ UNCHANGED redis) /\ Goto(r, "sync")
  /\ born' = [born EXCEPT ![Current(r)] = now]
  /\ UNCHANGED <<mysql, owed, now, count, final, late, saw, began, before, sweep, mixed, unsure, lost, cleared>>

(* What follows a persisted batch.                                          *)
Continue(r) ==
  Goto(r, IF count[r] = 1 THEN "exists"
          ELSE IF final[r] \/ count[r] > MaxRounds THEN "ended" ELSE "ask")

(* Bug: a batch that the queue refuses stays in Redis only (Todo.md:194).   *)
EnqueueOrForget(r) ==
  /\ pc[r] = "enqueue"
  /\ \/ Len(queue) < Capacity + WorkerCount /\ queue' = Append(queue, Current(r))
     \/ (late[r] \/ Len(queue) >= Capacity) /\ UNCHANGED queue
  /\ Continue(r)
  /\ UNCHANGED <<redis, mysql, tried, now, count, final, late, saw, began, before, sweep, past>>

(* Bug: the limits of the channel and of the workers are off by one.        *)
EnqueueOverfills(r) ==
  /\ pc[r] = "enqueue"
  /\ Len(queue) <= Capacity + WorkerCount
  /\ queue' = Append(queue, Current(r))
  /\ Continue(r)
  /\ UNCHANGED <<redis, mysql, tried, now, count, final, late, saw, began, before, sweep, past>>

(* Bug: the end of the context is looked at after the send.                 *)
EnqueueBoth(r) ==
  /\ pc[r] = "enqueue"
  /\ Len(queue) < Capacity + WorkerCount
  /\ queue' = Append(queue, Current(r))
  /\ IF late[r] THEN Goto(r, "sync") ELSE Continue(r)
  /\ UNCHANGED <<redis, mysql, tried, now, count, final, late, saw, began, before, sweep, past>>

(* EnqueueConv: the channel is full for certain only when the workers hold  *)
(* as much as they can, and may be full as soon as it can be.              *)
Enqueue(r) ==
  /\ pc[r] = "enqueue"
  /\ \/ /\ Len(queue) < Capacity + WorkerCount
        /\ queue' = Append(queue, Current(r))
        /\ Continue(r)
     \/ /\ late[r] \/ Len(queue) >= Capacity
        /\ Goto(r, "sync")
        /\ UNCHANGED queue
  /\ UNCHANGED <<redis, mysql, tried, now, count, final, late, saw, began, before, sweep, past>>

(* The caller writes once: to lose the answer is the same as to get it.     *)
SyncWrite(r) ==
  /\ pc[r] = "sync"
  /\ \/ AppendDb(Current(r)) /\ UNCHANGED lost
     \/ May("mysql") /\ lost' = lost \cup {Current(r)} /\ UNCHANGED mysql
  /\ Continue(r)
  /\ UNCHANGED <<redis, owed, now, count, final, late, saw, began, before, sweep, mixed, born, unsure, cleared>>

-------------------------------------------------------------------------------
(* Reading the history: EXISTS, LRANGE, and MySQL if either fails.          *)

ReadExists(r) ==
  /\ pc[r] = "exists"
  /\ \/ RedisWorks(r) /\ list # <<>> /\ Goto(r, "range")
     \/ (RedisFails(r) \/ list = <<>>) /\ Goto(r, "readDb")
  /\ UNCHANGED <<redis, mysql, owed, now, count, final, late, saw, began, before, sweep, past>>

(* A list that was deleted since EXISTS reads as an empty history.          *)
ReadRange(r) ==
  /\ pc[r] = "range"
  /\ \/ RedisWorks(r) /\ saw' = [saw EXCEPT ![r] = list] /\ Goto(r, "ask")
     \/ RedisFails(r) /\ Goto(r, "readDb") /\ UNCHANGED saw
  /\ UNCHANGED <<redis, mysql, owed, now, count, final, late, began, before, sweep, past>>

ReadDb(r) ==
  /\ pc[r] = "readDb"
  /\ \/ saw' = [saw EXCEPT ![r] = Batches(Prune(db, Cutoff))]
     \/ May("mysql") /\ UNCHANGED saw          \* an empty history
  /\ Goto(r, "refill")
  /\ UNCHANGED <<redis, mysql, owed, now, count, final, late, began, before, sweep, past>>

(* Bug: SetMessages without its DEL.                                        *)
RefillOnTop(r) ==
  /\ pc[r] = "refill"
  /\ Goto(r, IF saw[r] = <<>> THEN "ask" ELSE "fill")
  /\ mixed' = (mixed \/ \E q \in Requests : pc[q] = "fill")
  /\ UNCHANGED <<redis, mysql, owed, now, count, final, late, saw, began, before, sweep, born, unsure, lost, cleared>>

(* cache.SetMessages: a pipeline, not a transaction, of DEL and, if there   *)
(* is anything, RPUSH and EXPIRE.                                          *)
Refill(r) ==
  /\ pc[r] = "refill"
  /\ \/ /\ RedisWorks(r)
        /\ list' = <<>>
        /\ Goto(r, IF saw[r] = <<>> THEN "ask" ELSE "fill")
     \/ /\ RedisFails(r)
        /\ Goto(r, "ask")
        /\ UNCHANGED list
  /\ mixed' = (mixed \/ \E q \in Requests : pc[q] = "fill")
  /\ UNCHANGED <<touched, mysql, owed, now, count, final, late, saw, began, before, sweep, born, unsure, lost, cleared>>

Fill(r) ==
  /\ pc[r] = "fill"
  /\ \/ list' = list \o saw[r] /\ touched' = now
     \/ RedisFails(r) /\ UNCHANGED redis
  /\ Goto(r, "ask")
  /\ UNCHANGED <<mysql, owed, now, count, final, late, saw, began, before, sweep, past>>

(* One round: the context, the model, and its tools.  The history is part   *)
(* of the messages from now on.                                            *)
Ask(r) ==
  /\ pc[r] = "ask"
  /\ saw' = [saw EXCEPT ![r] = <<>>]
  /\ \/ /\ Goto(r, "ended")                    \* timeout or model error
        /\ UNCHANGED <<count, final>>
     \/ /\ ~late[r]                            \* a reply, or a round of tools
        /\ count' = [count EXCEPT ![r] = @ + 1]
        /\ \E reply \in BOOLEAN : final' = [final EXCEPT ![r] = reply]
        /\ Goto(r, "append")
     \/ /\ ~late[r] /\ May("reset")            \* reset_conversation among them
        /\ Goto(r, "clearList")
        /\ UNCHANGED <<count, final>>
  /\ UNCHANGED <<redis, mysql, owed, now, late, began, before, sweep, past>>

(* resetConversation, with a context of its own.                            *)
ClearList(r) ==
  /\ pc[r] = "clearList"
  /\ \/ list' = <<>> /\ UNCHANGED touched
     \/ May("redis") /\ UNCHANGED redis
  /\ Goto(r, "clearDb")
  /\ UNCHANGED <<mysql, owed, now, count, final, late, saw, began, before, sweep, past>>

ClearDb(r) ==
  /\ pc[r] = "clearDb"
  /\ \/ /\ db' = <<>> /\ UNCHANGED updated
        /\ cleared' = cleared \cup InDb
     \/ May("mysql") /\ UNCHANGED <<mysql, cleared>>
  /\ Goto(r, "ended")
  /\ UNCHANGED <<redis, owed, now, count, final, late, saw, began, before, sweep, mixed, born, unsure, lost>>

(* The nine seconds are over.                                               *)
GetLate(r) ==
  /\ May("late") /\ Active(r) /\ ~late[r]
  /\ late' = [late EXCEPT ![r] = TRUE]
  /\ UNCHANGED <<redis, mysql, owed, now, pc, count, final, saw, began, before, sweep, past>>

Request(r) == \/ Begin(r) \/ AppendToList(r) \/ Enqueue(r) \/ SyncWrite(r)
              \/ ReadExists(r) \/ ReadRange(r) \/ ReadDb(r) \/ Refill(r) \/ Fill(r)
              \/ Ask(r) \/ ClearList(r) \/ ClearDb(r) \/ GetLate(r)

-------------------------------------------------------------------------------
(* Bug: the loop goes on after an attempt that has succeeded.               *)
WorkerTriesAll ==
  \E i \in 1 .. WorkerCount \cap DOMAIN queue : LET b == queue[i] IN
    /\ AppendDb(b)
    /\ IF tried[b] + 1 < MaxTries
         THEN tried' = [tried EXCEPT ![b] = @ + 1] /\ UNCHANGED queue
         ELSE queue' = RemoveAt(queue, i) /\ tried' = [tried EXCEPT ![b] = 0]
    /\ UNCHANGED <<redis, now, request, sweep, past>>

(* A worker tries one of the batches that the workers may hold.  A failed   *)
(* attempt may have taken effect; it is repeated until the last.            *)
WorkerTries ==
  \E i \in 1 .. WorkerCount \cap DOMAIN queue : LET b == queue[i] IN
    /\ \/ /\ AppendDb(b)
          /\ queue' = RemoveAt(queue, i) /\ tried' = [tried EXCEPT ![b] = 0]
          /\ UNCHANGED <<unsure, lost>>
       \/ /\ \/ May("mysql") /\ UNCHANGED <<mysql, unsure>>
             \/ May("unsure") /\ AppendDb(b) /\ unsure' = unsure \cup {b}
          /\ IF tried[b] + 1 < MaxTries
               THEN tried' = [tried EXCEPT ![b] = @ + 1] /\ UNCHANGED <<queue, lost>>
               ELSE /\ queue' = RemoveAt(queue, i) /\ tried' = [tried EXCEPT ![b] = 0]
                    /\ lost' = lost \cup {b}
    /\ UNCHANGED <<redis, now, request, sweep, mixed, born, cleared>>

(* CleanupExpiredMessages: the stale row goes, a row that is still in use   *)
(* is read, and later written back without what is too old.                *)
SweepStart ==
  /\ May("cleanup") /\ ~sweep.busy
  /\ IF updated < Cutoff
       THEN db' = <<>> /\ UNCHANGED sweep
       ELSE /\ Len(Prune(db, Cutoff)) < Len(db)
            /\ sweep' = [busy |-> TRUE, cutoff |-> Cutoff, read |-> db]
            /\ UNCHANGED db
  /\ UNCHANGED <<redis, updated, owed, now, request, past>>

(* The UPDATE or DELETE has no condition on what was read.                  *)
SweepWrite ==
  /\ sweep.busy
  /\ LET kept == Prune(sweep.read, sweep.cutoff)
     IN  /\ db' = IF db = <<>> THEN db ELSE kept
         /\ updated' = IF db = <<>> \/ kept = <<>> THEN updated ELSE now
         /\ lost' = lost \cup (InDb \ ToSet(Batches(kept)))
  /\ sweep' = NoSweep
  /\ UNCHANGED <<redis, owed, now, request, mixed, born, unsure, cleared>>

-------------------------------------------------------------------------------
(* Redis expires the key when its TTL is over.  No request and no cleanup   *)
(* lasts as long as the window.                                            *)
Tick ==
  /\ now < MaxTime
  /\ now' = now + 1
  /\ \A r \in Requests : Active(r) => now' < began[r] + Window
  /\ sweep.busy => Cutoff = sweep.cutoff
  /\ list' = IF now' >= touched + Window THEN <<>> ELSE list
  /\ UNCHANGED <<touched, mysql, owed, request, sweep, past>>

(* Redis restarts empty, or evicts the key.                                 *)
RedisLosesList ==
  /\ May("loss") /\ list # <<>>
  /\ list' = <<>>
  /\ UNCHANGED <<touched, mysql, owed, now, request, sweep, past>>

(* The process dies and starts again: seedCache loads Redis with the row as *)
(* it is, if it is recent, before the first request.                       *)
Restart ==
  /\ May("restart") /\ \E r \in Requests : pc[r] = "new"
  /\ pc' = [r \in Requests |-> IF Active(r) THEN "gone" ELSE pc[r]]
  /\ queue' = <<>> /\ tried' = [b \in Batch |-> 0] /\ sweep' = NoSweep
  /\ lost' = lost \cup ToSet(queue) \cup {Current(r) : r \in {q \in Requests : pc[q] \in {"enqueue", "sync"}}}
  /\ \/ /\ db # <<>> /\ updated >= Cutoff
        /\ list' = Batches(db) /\ touched' = now
     \/ (db = <<>> \/ updated < Cutoff \/ May("redis") \/ May("mysql")) /\ UNCHANGED redis
  /\ UNCHANGED <<mysql, now, count, final, late, saw, began, before, mixed, born, unsure, cleared>>

Next == \/ \E r \in Requests : Request(r)
        \/ WorkerTries \/ SweepStart \/ SweepWrite
        \/ Tick \/ RedisLosesList \/ Restart

Spec == Init /\ [][Next]_vars

-------------------------------------------------------------------------------
Recent(b) == born[b] <= now /\ now < born[b] + Window

(* The history of request r is complete, and it is about to ask the model.  *)
HasRead(r) == pc[r] \in {"range", "refill", "fill"} /\ pc'[r] = "ask"

(* No batch is twice in the row of MySQL, unless a write of it landed whose  *)
(* answer was lost, and the worker repeated it; and no other batch is twice *)
(* in the Redis list, unless two requests refilled it at the same time:     *)
(* pushing with a lost answer, falling back to a write of one's own,        *)
(* refilling and seeding repeat nothing.                                   *)
NoTwin == RepeatsOnly(Batches(db), unsure) /\ (mixed \/ RepeatsOnly(list, unsure))

(* Redis may be lost or wrong at any moment: a batch of the last 24 hours   *)
(* is in MySQL, owed by the queue or in the hands of its request, unless it *)
(* was reset, given up after its failures, lost with the process, or        *)
(* overwritten by the cleanup.                                             *)
NothingForgotten ==
  \A b \in Born : Recent(b) =>
    \/ b \in InDb \cup ToSet(queue) \cup lost \cup cleared
    \/ \E r \in Requests : pc[r] \in {"enqueue", "sync"} /\ b = Current(r)

(* While the cleanup is not running: what MySQL held when a reset cleared   *)
(* it comes back to MySQL only by the repetition of a write whose answer    *)
(* was lost, though batches that were still on their way may arrive later.  *)
ClearedRowIsGone == InDb \cap cleared \subseteq unsure

(* While Redis serves every command and nobody resets: each request asks    *)
(* the model with its own message and with every batch of the last 24 hours *)
(* that was there when it began, however far MySQL lags behind.             *)
SeesPast ==
  [][\A r \in Requests : HasRead(r) =>
       \A b \in before[r] \cup {<<r, 1>>} : Recent(b) => b \in ToSet(saw'[r])]_vars

(* Under the same conditions Redis is never behind MySQL, which is what     *)
(* allows it to be read first: no expiry of the key hides a recent row.     *)
ListCoversDb == \A b \in InDb : Recent(b) => b \in InList

-------------------------------------------------------------------------------
(* A claim of a comment that the code does not keep.                         *)

(* Comment on AppendMessages: concurrent writes are not lost.               *)
AppendsSurvive == \A b \in lost : ~Recent(b)
===============================================================================
