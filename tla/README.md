# A verification of the miaodi agent

The program is a Go web service. A chat platform posts every user message to a
callback; the agent answers it with a language model that may call tools
(binding an account, saving notes, resetting the conversation), keeps the
history of each conversation in Redis and MySQL, and writes to MySQL
asynchronously through a queue with workers, retries and dead letters. The
platform redelivers messages, so every message has a row that keeps it from
being processed twice.

## Inventory

| Part (source) | State | Operations | What is hard |
|---|---|---|---|
| Persist queue (`internal/persist/persist.go`) | buffered channel, `inFlight`, one task in the hands of each worker | `EnqueueConv`, `EnqueueLog`, `Run`, `process`, `Flush` | three workers on one channel, retries after unclear errors, a full channel, shutdown beside running workers |
| Dead letters (`repository/dead_letter.go`) | `persist_dead_letters` | `RecordConv`, `RecordLog` | the record of a failure may fail |
| Processed messages (`repository/processed_message.go`) | one row per message: status, reply, updated_at | `StartProcessing`, `MarkDone`, `MarkFailed` | redeliveries at the same time, a lapse, crashes, statements that fail after they took effect |
| Agent (`service/agent.go`) | history of a request, message list for the model | `ProcessMessage` | three stores for one history; tool rounds; a panic in a tool; a 9 s context |
| Conversation repository (`repository/conversation.go`) | `agent_conversations`, one JSON list per conversation | `AppendMessages` (transaction), `GetMessages`, `Clear`, `CleanupExpiredMessages`, `ListActiveSince` | read-prune-write without a lock in the cleanup; an append repeated after a lost answer |
| Redis cache (`cache/redis.go`) | message list, user record, recent logs, metrics snapshot, each with a TTL | get, set, append, clear | expiry between two commands; set against append; Redis failing for some commands only |
| Tool executor (`service/miaodi_tool.go`) | the user record of the request | 18 tools; `recordCall` | partial update in MySQL, whole record into Redis |
| User repository (`repository/user.go`) | `agent_users` | `GetOrCreate`, `UpdateAPIKeyAndStatus`, `UpdateEmailAndStatus`, `UpdateSavePath`, `ClearBinding`, `migrateLegacyDefaults` at every start | concurrent requests of one user |
| Call log (`repository/call_log.go`, recent logs in Redis) | `api_call_log`, list of the newest 20 | `Record`, `RecentByUser`, `ByDate`, `CleanupOlderThan` | three writers of one cached list; an INSERT without a key that may be repeated; whole seconds that do not order the rows |
| Metrics recorder (`metrics/metrics.go`) | `pending`, per-metric windows, stop channel | `Record`, `Flush`, `Run`, `Stop`, `Snapshot` | failed flush puts back and cuts; stop beside record |
| Token budget (`service/token_budget.go`) | none | `FitMessagesForTokenBudgetForModel` | which messages may be dropped; two tokenizers in one function |
| Lifecycle (`app/app.go`, `main.go`) | contexts, HTTP server | `Run`, `seedCache`, three hourly cleanups | order of stop, flush and shutdown; handlers that still enqueue after the flush |
| Webhook (`handler/callback.go`, `callback_auth.go`) | none | `handleCallback` | the 9 s context it gives to the agent |
| Intent router (`service/intent_router.go`) | none | `Route` | 21 rules in order on texts of any length |
| Common tools (`service/common_tools.go`) | none | calculator, random numbers, options, counts, dates | precedence, overflow |
| Statistics (`service/stats.go`, `handler/stats.go`) | none | `GetStats` | several reads of tables that change |
| LLM log, pending images, clients, configuration | | | not modelled, see below |

How they interact: the webhook calls `ProcessMessage` with a context of nine
seconds; the agent asks the row of the message whether to go on, loads the user
and the history from Redis or MySQL, and persists each batch first to Redis,
then to the queue, and by itself to MySQL when either refuses. Workers move
tasks from the queue to MySQL. `app.Run` starts all of it and, when the context
ends, stops the metrics, flushes the queue and shuts the server down.

What makes each part correct:

* queue: every write handed over ends in exactly one place, is never written
  twice of the queue's own accord, and is waited for by the shutdown;
* processed messages: redeliveries never call the tools twice without a reason,
  never all step back, and only ever replay real replies;
* history: the model sees the user's message and what was said in the last 24
  hours, tool results only with their call, and what a reset cleared stays away;
* user: no store has half a binding, and Redis and MySQL agree on it unless two
  requests of one user met or a write failed;
* call log: the cached list shows no call twice and leaves none out without a
  cause;
* metrics: samples are saved oldest first or dropped only beyond the cap, and the
  last flush overlooks none;
* shutdown: what was answered before it is kept, and it ends;
* functions: the model gets whole blocks within its budget, the calculator
  calculates, the router answers a question without changing what it asks about.

## Modules

| Module | Models |
|---|---|
| `PersistLedger` | abstract: the fate of one write, apart from goroutines and retries |
| `PersistQueue` | the channel, the workers, `process`, `Flush`, the contexts, and the requests that offer batches and fall back |
| `MCPersistQueue` | instances of it |
| `PersistQueueProofs` | theorems about it |
| `ProcessedMessages` | one message, its row, and the deliveries that carry it |
| `MCProcessedMessages` | instances of it |
| `Conversation` | the history of one conversation in Redis, MySQL and the queue, and the requests, resets, cleanups and restarts that touch it |
| `ConversationProofs` | theorems about it |
| `UserBinding` | the record of one user in MySQL, in Redis and in the hands of requests |
| `UserBindingProofs` | theorems about it |
| `RecentLogs` | the calls of one user in MySQL, in the queue and in the cached list |
| `RecentLogsProofs` | theorems about it |
| `Lifecycle` | `app.Run` with the handlers, composed with `PersistQueue` |
| `LifecycleProofs` | theorems about it |
| `SampleBuffer` | abstract: a buffer that saves from its oldest end and may only drop there |
| `MetricsRecorder` | pending samples, the flushes, the background loop and Stop |
| `Selection` | the loop that copies what it keeps of a slice, which the two histories share |
| `Sums` | the loop that adds up numbers |
| `SequenceLemmas` | lemmas on sequences and on these two loops, and induction over the natural numbers |
| `TokenBudget`, `CommonTools`, `IntentRouter`, `Statistics`, `MetricWindow`, `Calculator` | the functions, as operators, with what they are compared with |
| `Algorithms` | one call of any of them, on any input of a bounded size |
| `AgentProofs` | theorems about the agent's parts: `ProcessedMessages`, the token budget, the calculator and the random numbers |
| `MetricsProofs` | theorems about `MetricsRecorder`, the window and the statistics |
| `MC...` for the others | symmetry sets |

### PersistQueue

A task is a pair of a request and the number of its batch. A request offers its
batches in order, as `ProcessMessage` does (user message, tool rounds, reply)
and as `recordCall` does for the call log: `CacheRefuses` is an error of Redis,
after which the queue is not asked; `EnqueueAccepts` and `EnqueueRefuses` are the
branches of the `select` in `EnqueueConv`/`EnqueueLog`, where a send that is
possible competes with a context that is done; `SyncWrite` is the fallback,
tried once. `Take` is the receive and `EnterProcess` the `inFlight.Add(1)` of
`process`: they are two steps, because another goroutine can run between them.
`Attempt` is one turn of the retry loop; its outcome is `ok`, `failed` (no row)
or `unsure` (an error although the row landed, such as a commit whose answer was
lost). `BuryTask` is the dead letter, or the log line when that insert fails too.
The flusher is the goroutine of `app.Run`: it runs `process` itself, from either
of its two loops, and remembers in `resume` which one to go back to.

### ProcessedMessages

Rows of different messages never meet, so one message is enough. A delivery goes
through the statements of `StartProcessing` one by one: `Insert`, `SelectRow`,
`Claim` (the takeover `UPDATE`), each of which may fail when `Faults` is TRUE,
before or after it took effect. An error of the MySQL server on the `INSERT`
leads to the `SELECT`, any other error goes back to the agent, which then
processes the message without marking it. `Finish` and `Panic` are the two ways
out of the rest of `ProcessMessage`, `MarkDone` and `MarkFailed` its deferred
function. `Crash` takes every handler with it and leaves the row. The clock
matters only to the comparison of `now` with `updated_at`.

### Conversation

One conversation is enough: the stores keep each under a key of its own. A
batch is what `ProcessMessage` persists at once. Its steps are the commands
between which another goroutine can run: `AppendToList` (RPUSH and EXPIRE, which
one packet carries), `Enqueue`, `SyncWrite`, then `ReadExists`, `ReadRange` or
`ReadDb`, and `Refill` and `Fill`, the DEL and the RPUSH of a pipeline that is
not a transaction; then rounds of `Ask`. `ClearList` and `ClearDb` are
`reset_conversation`, which the intent router can also reach at once for a
message beyond the token budget. The queue is reduced to what `PersistQueue`
shows of it: the workers hold some of the oldest `WorkerCount` batches, and
`WorkerTries` is one attempt at one of them. It succeeds, fails, or lands with its
answer lost; a worker that knows of no success tries again, up to `MaxTries`
times, so that a batch may be in the row and still with the worker. `unsure`
remembers such batches. The caller's own write is tried once.
`SweepStart` and `SweepWrite` are the two halves of `CleanupExpiredMessages`.
`Restart` is a crash with the seeding of Redis, as long as a request is still to
come. Time runs in ticks, `Window` of them are the 24 hours. No request lasts
as long as that, and no cleanup longer than a tick.

`Disturbances` says what an instance lets happen: errors of Redis commands
(`redis`) or MySQL statements (`mysql`), writes of a worker that land without an
answer (`unsure`), the end of a request's nine seconds (`late`), a lost key (`loss`), resets, restarts and cleanups. The variables
called history in the module record what the properties compare; no action
looks at them, except that a request is bounded by its start.

### UserBinding

One user. A request loads its copy through `GetUser` (Redis, then `ReadRow`,
`InsertUser` on a missing row, `StoreUser`) and hands it to its tools. A tool that
binds or moves the path writes its columns to the row and changes the same
fields of its copy, which is a first step, and stores the whole copy in Redis,
which is a second; either may fail. `Restart` is what every start does: it moves
a row that still has the former default path (`LegacyPath`) to the present one
(`Migrated`), and seeds Redis from the row; the two may disagree on the path until
then. The
address that the bind-by-code tool is given reaches Redis and never MySQL, and a
bound user who asks for a code becomes a waiting one who keeps the key; the model
says so, and `SameBinding` therefore does not compare addresses. `outdated` and
`tainted` are history: which requests were overtaken, and whether the copy in
Redis has one of the causes that `WrongCacheHasCause` admits.

### RecentLogs

One user. `RecordCall`, `TrimLog`, `EnqueueLog` and `Record` are `recordCall` with
its three stores; `ListExists`, `ListRange` and `ListFromRows` are
`list_recent_notes`; `QueryByDate` is the tool of that name; `ClearLogs` and
`FillLogs` are the two halves of `SetRecentLogs`. A refill that fails to read is
quiet, and one that read nothing still deletes the list. The queue is
reduced as in `Conversation`, and each attempt that lands makes a row of its own
(`Insert`). A row has the second in which it was written and nothing else to order
it, so `Newest` is every order that `ORDER BY created_at DESC` may give; calls are
numbered by their LPUSH, and `Newer` says which of them MySQL orders as well.
`CleanupOlderThan` is the hourly DELETE. `hidden` is history: the calls that may be
missing before a listed one, put there by the step that made them so.

### Lifecycle

It instantiates `PersistQueue` with its own variables: a handler is a request of
the queue, `AwaitStop` is the moment Flush is called, `Signal` the end of the
application context, and the deadline is that of the queue's flusher. It adds the
phases of `Run`, the life of each handler (`Accept`, `Persist`, `Answer`), a
listener that fails, and `metrics.Stop`, which returns some time or never. No
goroutine moves once `Run` has returned.

### MetricsRecorder

`Record` is a sample; the one that fills `pending` makes its goroutine flush, and
the samples of others go on entering. A flush is `FlushTake` (flushMu, and the
swap of `pending`), `Save` (all or nothing, or an error after the rows landed) and
`PutBack`. The loop is `LoopTick` and `LoopEnds`. `Unsaved` is the batch in the
hands of a flush followed by `pending`: this is what the buffer of `SampleBuffer`
is mapped to. A fact the model shows without a property: when the context
ends, rather than Stop being called, the loop flushes and returns while handlers still record, and
what they record afterwards is flushed only when it fills `pending`.

### The functions

`TokenBudget` is `FitMessagesForTokenBudgetForModel` with what it calls, over
messages that are a role, a flag for tool calls and a number of tokens; the code
works in blocks and from the end, the reference (`SelectsFromEnd`) says what
comes out. The budget and the blocks are counted with the tokenizer of the model, but
a system message that leaves no room is cut with cl100k_base (`TruncateByCommon`):
`ModelTokens` converts between the two, at a ratio that the constants give. `Calculator` is the recursive descent of `evalExpression` on tokens: the parser
remembers nothing but its position and calls itself only further on, so what it finds at
each position is tabulated from the end of the text (`ParsesFrom`), and the loops of
`parseTerm` and `parseExpression`, which differ in their operators and operands only,
are one (`Turn`). The reference is the grammar read bottom up, turn by turn (`Charts`). `CommonTools` has the random
numbers in integers between `-Half` and `Half - 1`, where `Half` stands for 2^63:
`Max - Min` can wrap to a negative number, pass the check of the limit and panic in
`rand.Int`, and `RandomIsInRange` says exactly when. `IntentRouter` is the list of rules over the groups of words and
patterns they look for, a group for each set of words that some rule tells apart. `Statistics` is `GetStats` as a function of the moments at
which it reads. `MetricWindow` is the window of durations and its reload.

`Algorithms` makes one call of one of them: the state after `CallFit`, `CallEval`,
`CallRandom`, `CallRoute`, `CallStats` or `CallWindow` is the input, and the
invariants compare what the function returns for it with what it should. The
inputs are those the callers can pass: a history in which tool results follow a
call, a text that begins with a save keyword and so contains a note word, calls
that are not from the future.

## Runs

| Run | Asks | Bounds |
|---|---|---|
| `queue` | no loss, one holder, exact `inFlight`, order of the channel, duplicates and two ends only after a lost answer, meaning of a nil from Flush, refinement of `PersistLedger` | 1 request with 2 batches, 2 workers and the flusher, channel of 1, 2 attempts, all outcomes |
| `dedupe` | duplicates have a cause, somebody processes, replies are real, a wait is founded | 3 deliveries, timeout 1, clock to 3, faults, panics and crashes |
| `conv_healthy` | Redis is never behind MySQL, and each request sees the last 24 hours and its own message | 2 requests of 2 batches, 1 worker, channel of 1, window of 2, clock to 3, MySQL errors and cleanups |
| `conv_disturbed` | no repeated batch, no forgotten batch | the same with window and clock of 1, one attempt, errors of both stores, late requests, lost keys, resets, restarts |
| `conv_retried` | a batch is repeated, or back after a reset, only if a write of it landed unanswered | the same with two attempts, lost answers, late requests, resets, restarts |
| `user_binding` | no half binding, a wrong cache has a cause, notes go to the right account | 2 requests of 2 calls each, 2 keys, 1 address, 2 paths, one of them the former default, errors of both stores, crashes |
| `recent_logs` | no call twice, no gap without a cause | 2 requests, 2 calls, a list of 2, 2 days of one second, limits 1 and 2, two attempts, errors of both stores, lost answers, cleanups of the first day, restarts |
| `shutdown` | what was answered is kept, Run returns, accepted writes settle | 2 handlers, one of them with a batch, 2 workers, channel of 1, 2 attempts |
| `metrics` | bound of the buffer, the last flush, refinement of `SampleBuffer`, the loop returns | 2 goroutines, `maxPending` 1, 4 samples, all outcomes of a save |
| `algorithms` | the functions against what they should compute | every input up to the bounds of `Algorithms.cfg` |
| `queue_flush_claim`, `conv_append_claim` | two sentences of comments that do not hold | a small instance that shows each |

Why the bounds are enough. A batch can only be lost, doubled or overtaken
between two holders, and the flusher is a third; with a channel of 1, two batches
make full, empty and wrap-around all happen; two attempts have a first and a last.
For the deduplication, one delivery owns the row, a second takes over, and a third
can race with the takeover; a clock of three ticks with a timeout of one lets a
row lapse twice. For conversation, user and call log, two requests are enough for
one to come between any two steps of the other; the window and clock of
`conv_healthy` let entries and keys expire at different times. Of the call log, two
calls are enough for a gap, which is one listed and a newer one missing; a repeated
INSERT makes a third row, which cuts and refills the list of two, and two rows can be of one
second or of different days. Two attempts are a first that lands unanswered and a
last; for the conversation their repetition has a run of its own (`conv_retried`), since it
multiplies the states. The cleanup of conversations is not in `conv_retried`
because its unconditional write can bring a cleared row back, by the way
`AppendsSurvive` shows. The clock of `conv_disturbed` lets nothing be pruned early
or late; that stamps are never older than their batch is left to the theorem
`Remembered`. For the recorder, a batch of one, a limit of two and four
samples fill, put back and cut. The constants of `algorithms` are scaled down
together: a history of four messages has a call, its result and a message on
either side, and the limits make each branch of the choice happen; three tokens of the model
for two of cl100k_base make the two tokenizers differ, with a remainder; a `Half`
of 32 puts both ends of the integers within reach.

`CHECK_DEADLOCK FALSE` is given because all requests may be over and the process
may have stopped. Workers, requests and deliveries are interchangeable, so the
runs without liveness use symmetry; `shutdown` and `metrics` do not. Type
correctness is proved for every module that has state; `conv_disturbed` checks it too.

Fairness is stated in two modules. In `Lifecycle` (`FairSpec`): weak fairness of the
goroutine of `Run` and of the deadline; handlers, workers and the recorder owe
nothing and may hang, and `RunReturns` holds all the same. `AcceptedSettles`
itself assumes that each worker is run, because MySQL may be down for ever. In
`MetricsRecorder`: MySQL answers in the end, with an error if need be; strong fairness of taking flushMu,
since a Go mutex in starvation mode hands itself to the longest waiter; and
strong fairness of `LoopEnds`, since a `select` with two ready branches chooses at
random. Nobody has to record or to stop.

## What does not hold

Shown by a run:

* `FlushNilMeansSettled`: a worker increments `inFlight` after the receive, so
  Flush can see an empty channel and a zero counter while a worker holds a task
  and has not written it. What holds instead, and is proved, is
  `FlushNilLeavesOnlyUncounted`.
* `AppendsSurvive`: the cleanup writes back an old copy of the row.

Sentences of the repository that contradict its code in a way that needs no run:

* a comment in `ProcessMessage` says that `reset_conversation` has cleared the history;
  but when an earlier request has ended with its batch still in the queue, the worker
  appends the batch to the row after both stores were cleared. What holds instead is
  `ClearedRowIsGone`: what was in the row itself when it was cleared comes back only if
  a write of it had landed without an answer and is repeated;
* the design document says that when the application closes, Flush consumes what is left
  in the queue within five seconds; but Run flushes before it waits for the handlers, so
  a batch that a handler enqueues after the flush is lost with the process even when
  nothing times out. What holds instead is `AnsweredIsKept`: whoever had answered
  before the flush loses nothing to it;
* the comment on `FitMessagesForTokenBudgetForModel` promises the tokenizer of the model,
  where a system message that leaves no room is cut with cl100k_base, and what is kept
  may exceed the budget. What holds instead is the last case of `FitStaysInBudget`;
* the design document gives the queue a single worker and time order, where the
  code has three; only batches held at the same moment can pass each other
  (`HeldBeforeQueued`);
* it calls a repeated append idempotent, where a retry after a lost answer
  appends again (`DuplicatesOnlyIfUnsure` and `NoTwin` are what holds, and
  `NoLogTwice` for the call log);
* it says that `created_at` survives the queue, where `AppendMessages` stamps the
  time of the write (later, never earlier, so nothing is pruned too early,
  `NothingForgotten`);
* the comment on `StartProcessing` promises a wait while a takeover is fresh, and
  that a finished message is never processed again; but the takeover `UPDATE` has
  no condition on what the `SELECT` saw, so two redeliveries that read the lapsed
  row both take over, even from a finished one (`DuplicateHasCause`);
* the README promises 24 hours of history, where nothing prunes the Redis list and
  each append renews its TTL (`SeesPast` is the other side: nothing recent is
  missing);
* README and design promise MySQL as a fallback of Redis, where one failed append
  leaves a list that hides MySQL; MySQL still gets every batch (`NothingForgotten`);
* the statistics page calls the sum of N + 1 dates and a chart of N by the same
  number of days (`ChartIsTotalButOneDay`).

`query_notes_by_date` replacing the list of recent calls by those of one day is
allowed by the design of the cache; `GapHasCause` counts it as a cause.

## Proofs

All theorems are for any number of requests, workers, handlers, goroutines and
deliveries, any capacity, any number of attempts, any timeout. The assumptions are
the named ones beside the constants: sets that are counted are finite, bounds are
natural numbers, and special values (the flusher, nobody, none) are not members
of the sets they stand beside.

`PersistQueueProofs`. `NothingVanishes` is not inductive: a worker that lets go
of a task would lose it if another place still counted on it. `IInv` adds that a
task has one holder (`OneHolder`), that whatever the queue owes its request is
done with (`OwedIsPassed`, so that a new batch is fresh), and that `inFlight` is
the number of goroutines inside `process` (`InFlightExact`, by a lemma on how
one step changes a finite cardinality). The lemmas `PlacesStay`, `PlacesTake`
and `PlacesSettle` say what the three kinds of step do to the places a task can
be in; each action is then one of them. `FlushNil` is an action property: from
`FlushHasDrained` (what Flush owes is not in the channel again once it has been
seen empty) and `InFlightExact` at zero, what it owes and is not settled is in
the hands of a goroutine outside `process`, and that is a worker which has just
received it.

How a write ends, and in which order: a settled write is in nobody's hands
(`NothingVanishes` with `OneHolder`), so a second row or a second end can only
come from an attempt that was repeated (`OutcomeIsFinal`). For the order, the
invariant is that the channel holds the batches of a request in increasing order
and before all that is still to come (`ChannelInOrder`). The refinement
`QueueKeepsLedger` rests on all of these: an attempt is a write of the ledger
because the task it writes is held and not settled, and the steps of channel,
workers and Flush that only pass a task on leave its ledger alone.

`AgentProofs`, processed messages. `IInv` adds to the four invariants what the stage of
a delivery tells about it (`StageTells`) and what the row tells (`RowTells`). The
heart is `RunStep`: whoever starts processing does so on an absent row, on a row
that lapsed, or after a mishap; so without a mishap the deliveries that ran are
none, one, or two that began more than a timeout apart.

`UserBindingProofs`. That Redis agrees with MySQL depends on who writes it, so
`IInv` adds the same for the copy of each request (`CopyHasCause`), and that no
copy exists of a user without a row (`CopiesHaveRow`). `ToolIsUpdate` says what all
tools have in common: they keep row and copy well formed, and alike if they were
alike; the rest of the proof does not look at single tools again.

`MetricsProofs`, recorder. A goroutine that waits for its flush has added one sample
beyond the cap, which is what `PendingBounded` counts, again by cardinality. For
the last flush, `FInv`: once the loop has taken what was there, only new samples
and failed ones enter `pending`. `RecorderKeepsBuffer` shows the refinement: what
is mapped to the buffer is the batch being saved followed by `pending`, so the
swap and the put-back of a flush are stutters unless the put-back cuts, and the
cut takes from the oldest end.

`SequenceLemmas`. `NatSetInduction` derives induction from the well-founded order
of finite sets, for sets of numbers, which is the form these provers can use; a
recursive function on an interval is then within reach. `SelectPlaces` is what the
two proofs below need of the loop that filters a slice: an increasing map from the
places of the result to places of the original that meets every kept one, from which
no repetition, the order and the elements follow.

`RecentLogsProofs`. `IInv` says that a call is on its way to MySQL in one place, and
is a row, once, when it is not on its way any more; only the calls in `unsure`, with an
INSERT that landed unanswered, may be both or more than one row (`CallsOnce`), that two refills which have deleted the list and not
yet filled it have set `mixed` (`RefillsApart`), and that every list, the cached
one and those in the hands of requests, is sound: before each call it shows stand
all the newer ones that are not in `hidden`, so that each of its prefixes is sound too. A push keeps a list sound
because the new call is newer than all; a trim, because it takes from the old end; a
refill, because what the rows lack is still owed and goes into `hidden` then, and what
they have comes in the order of `created_at`, which is the one `Newer` speaks of.
The proof needs no case for two refills that overlap, so `GapHasCause` does
not excuse them; an earlier form of it did.

`ConversationProofs`. The heart is `PlacesInv`: a batch is on its way to MySQL in one
place, the queue or the hands of its request, or it is in the row or in the copy
that a cleanup will write back, and never both; a batch in `unsure`, of which a write
landed unanswered, is exempt. Every action is one of five kinds of
step for that (`Quiet`, `Birth`, `Delivery`, `Death`, `Clearing`), and the lemmas on
the kinds do not look at single actions again. `StampInv` (an entry is not older
than its batch, nor younger than the row) gives `Remembered`: what `AppendMessages`,
the read or the cleanup prunes is no longer recent. `RefillInv` gives the second half of
`NoTwin`. These hold whatever the disturbances. Three theorems have a hypothesis
on the constant `Disturbances`, the same as the run that checks the property:
`ClearedStaysAway` leaves out the cleanup, which writes back an old copy of the row;
`RedisLeads` and `PastIsSeen` admit failures of MySQL and the cleanup only, since a
Redis that fails or forgets is behind MySQL by itself. Their invariant, `HealthyInv`,
says that the list holds whatever is recent, since the key was touched after every
birth and lives as long as the window; that makes each read find the key, so that
no request ever takes the way to MySQL.

The functions. The theorems hold for every set of inputs `CallSpec` is given: histories
of any length, any limits, any bounds of a range and any length of a text. The inductive
invariants `AgentInputs` and `MetricsInputs` only say what an input is; the rest is
lemmas about the functions. Where a function loops, the loop is a recursive function
on positions, which a lemma first shows to exist, and what each turn keeps is an
induction by `NatSetInduction`.

* `SentIsNewest`, `BudgetIsKept`, `UserMessageIsSent`: `FitEnds` gives the five ways
  `FitMessages` can end, and the theorems go through them. `BudgetStep` is one turn of
  `truncateBlock`: a message costs no more than what is left of the budget and what it costs
  without its text; `CutBlock` adds these up over the block. `CutByCommon` is the cut of a
  system message that leaves no room, for any ratio of the two tokenizers. A model limit of one token leaves a budget of zero, which
  is why `FitStaysInBudget` then allows the safety margin (`Allowed`).
* `CalculationIsRight`: `ParsesAre` lets each parse be read off the table. That the parser
  computes what the grammar derives is `ParsesDerive`, from the end of the text, with `LoopDerives`
  for the loops; that it misses nothing is `ChartsAreRead`, from the short parts to the
  long ones. There a term may be longer than the grammar has it so far, so what the chart holds
  is only on the way of the loop (`Reached`), and an expression need not be even that while an
  operator of a term follows (`ExpressionRead`). Both values are the same fraction, by
  the same operations in the same order, so no arithmetic is needed, and the
  grammar is shown to be unambiguous on the way.
* `RandomIsRight`: `WrapIs` says what an overflow leaves of a difference of two int64s, and
  `DrawnFrom` that a draw meets each number of the range and no other.
* `ChartLacksOneDay`: `BarsAddUp` sums the bars of the chart over the days, each the number of
  calls of its day, and `MomentsAgree` says that the two reads see the same table when nothing
  happens in between.
* `RestartKeepsNewest`: `WindowsAre` describes a window by its length and its entries; of
  two sequences of rows the shorter has the shorter window (`RestoredIsNotLonger`), and when no
  two samples share a second, the rows read back are the last ones (`RowsAreLast`) and so is the
  window made from them (`RestoredIsEnd`).

`LifecycleProofs`. `ImplementsQueue` shows that each step of the application is a
step of the queue or leaves it alone; all theorems about the queue hold there.
`AnswersAreKept` needs more than the queue: the handlers that had answered offer
nothing any more (`HandlersInv`), so what Flush owes them does not come back into
the channel after it was seen empty (`AnsweredInv`).

Only model-checked: liveness (`RunReturns`, `AcceptedSettles`, `LoopReturns`), which
is outside the prover; and `AskingChangesNothing`, the order of the rules of the intent
router, which is a matter of its finitely many words. Every other property of a passing
run has its theorem.

## Not modelled

The LLM log, with its insert, whose error is ignored, and its own hourly cleanup;
`UserRepo.UpdateField`, which only a test calls; pending images (nothing writes
them any more); the HTTP clients, which make one request and do not retry;
configuration, data types and logging. In the agent: the text and cache of the
system prompt. In Redis: the snapshot of the metrics, a picture for the statistics
page that may be out of date. Of the tools: those that only format an answer,
the clock and the dates, the choice of an option and the counting of words. Of
the statistics: percentiles, pages, cookies and token.

Abstracted: a batch is a unit, without its messages and the older formats that
the repository still decodes. RPUSH (LPUSH) and EXPIRE are one step, so a key that
expires between them, or a Redis that stops there, is left out. The tokenizers are
tables, so the tokens of a text are a number, with a drift when a cut falls inside
a character, and the two that the code uses stand in a ratio that is the same
throughout a text. The calculator has exact fractions. The words and patterns of the
router are groups. The InnoDB deadlock that two first appends to one row can run
into is one of the failures of a statement.

## Plan

Done: all modules above with their runs, and a theorem for every property that is
neither a claim nor liveness, but for the order of the router's rules. Left: what the list above does not model; for the
model itself, liveness, once a prover can take fairness apart.
