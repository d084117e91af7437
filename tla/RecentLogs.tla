------------------------------ MODULE RecentLogs ------------------------------
(***************************************************************************)
(* The log of one user's tool calls: the rows of api_call_log, the calls    *)
(* that the persist queue still owes to them, and the list md:logs that     *)
(* Redis keeps of the newest ones.  recordCall writes all three;            *)
(* list_recent_notes reads the list, or refills it from the rows; and       *)
(* query_notes_by_date overwrites it with the rows of one day.              *)
(*                                                                         *)
(* Calls are numbered in the order of their LPUSH.  The clock counts whole  *)
(* seconds, as created_at does, so rows of one second have no order.        *)
(***************************************************************************)
EXTENDS Naturals, Sequences, FiniteSets, SequencesExt, Functions, Selection

CONSTANTS Requests,      \* the requests of the user
          Keep,          \* length of the list
          Limits,        \* what RecentByUser makes of the argument limit
          WorkerCount,   \* workers of the queue
          Capacity,      \* bufferSize of its channel
          MaxTries,      \* maxRetries
          DayLength,     \* seconds of a day
          Retention,     \* age at which the cleanup deletes a row
          MaxCalls,      \* bound on the calls
          MaxTime,       \* bound on the clock
          Disturbances   \* what may go wrong

ASSUME ConstantsAssumption == /\ Keep \in Nat \ {0} /\ Limits \subseteq 1 .. Keep
                              /\ WorkerCount \in Nat \ {0} /\ Capacity \in Nat \ {0}
                              /\ MaxTries \in Nat \ {0} /\ DayLength \in Nat \ {0}
                              /\ Retention \in Nat /\ MaxCalls \in Nat /\ MaxTime \in Nat
                              /\ Disturbances \subseteq
                                   {"redis", "mysql", "unsure", "cleanup", "restart"}

Call == 1 .. MaxCalls
Time == 0 .. MaxTime
Row  == [call : Call, at : Time, try : 0 .. MaxTries - 1]

VARIABLES
  list,     \* md:logs:..., the newest first; <<>> when there is no key
  rows,     \* api_call_log: a row for each INSERT that took effect
  queue,    \* calls the queue owes to it
  tried,    \* failed attempts of the worker that holds a call
  made,     \* calls recorded so far
  now,      \* the clock
  pc,       \* where each request is
  mine,     \* the call it records
  got,      \* the logs it puts into the list
  mixed,    \* history: two refills have overlapped
  unsure,   \* history: calls with an INSERT that landed and answered an error
  hidden    \* history: calls that the list may lack, each with a cause

owed == <<queue, tried>>
vars == <<list, rows, owed, made, now, pc, mine, got, mixed, unsure, hidden>>

Stages    == {"idle", "trim", "enqueue", "record",
              "exists", "range", "readRows", "clear", "fill"}
Refilling == {r \in Requests : pc[r] \in {"clear", "fill"}}
InRows    == {row.call : row \in rows}

(* Bug: ORDER BY created_at without DESC.                                   *)
Oldest(Q) ==
  {[i \in DOMAIN s |-> s[i].call] :
     s \in {o \in Bijection(1 .. Cardinality(Q), Q) :
              \A i, j \in DOMAIN o : i < j => o[i].at <= o[j].at}}

(* The calls of the rows Q by created_at DESC; ties come in any order.      *)
Newest(Q) ==
  {[i \in DOMAIN s |-> s[i].call] :
     s \in {o \in Bijection(1 .. Cardinality(Q), Q) :
              \A i, j \in DOMAIN o : i < j => o[i].at >= o[j].at}}

TypeOK ==
  /\ list \in Seq(Call) /\ rows \subseteq Row
  /\ queue \in Seq(Call) /\ Len(queue) <= Capacity + WorkerCount
  /\ tried \in [Call -> 0 .. MaxTries - 1]
  /\ made \in 0 .. MaxCalls /\ now \in Time
  /\ pc \in [Requests -> Stages]
  /\ mine \in [Requests -> 0 .. MaxCalls]
  /\ got \in [Requests -> Seq(Call)]
  /\ mixed \in BOOLEAN /\ unsure \subseteq Call /\ hidden \subseteq Call

Init ==
  /\ list = <<>> /\ rows = {} /\ queue = <<>> /\ tried = [c \in Call |-> 0]
  /\ made = 0 /\ now = 0
  /\ pc = [r \in Requests |-> "idle"] /\ mine = [r \in Requests |-> 0]
  /\ got = [r \in Requests |-> <<>>]
  /\ mixed = FALSE /\ unsure = {} /\ hidden = {}

-------------------------------------------------------------------------------
May(trouble) == trouble \in Disturbances
Goto(r, stage) == pc' = [pc EXCEPT ![r] = stage]

(* The request is through with its tool; what it held is forgotten.         *)
Leave(r) == /\ Goto(r, "idle")
            /\ mine' = [mine EXCEPT ![r] = 0] /\ got' = [got EXCEPT ![r] = <<>>]

(* A pruned prefix of the list: LTRIM and LRANGE 0 19.                      *)
First(s, n) == SubSeq(s, 1, IF Len(s) < n THEN Len(s) ELSE n)

(* recordCall, after a call of the Miaodi service: AppendLog is LPUSH, then  *)
(* LTRIM and EXPIRE.  An error sends the call to MySQL, though the push may *)
(* have taken effect.                                                      *)
RecordCall(r) ==
  /\ pc[r] = "idle" /\ made < MaxCalls
  /\ made' = made + 1
  /\ mine' = [mine EXCEPT ![r] = made']
  /\ \/ list' = <<made'>> \o list /\ Goto(r, "trim")
     \/ May("redis") /\ Goto(r, "record") /\ list' \in {list, <<made'>> \o list}
  /\ hidden' = IF pc'[r] = "record" \/ Refilling # {} THEN hidden \cup {made'} ELSE hidden
  /\ UNCHANGED <<rows, owed, now, got, mixed, unsure>>

TrimLog(r) ==
  /\ pc[r] = "trim"
  /\ list' = First(list, Keep)
  /\ Goto(r, "enqueue")
  /\ UNCHANGED <<rows, owed, made, now, mine, got, mixed, unsure, hidden>>

(* EnqueueLog; the context is the background, so only a full channel        *)
(* refuses.                                                                *)
EnqueueLog(r) ==
  /\ pc[r] = "enqueue"
  /\ \/ /\ Len(queue) < Capacity + WorkerCount
        /\ queue' = Append(queue, mine[r]) /\ Leave(r)
     \/ /\ Len(queue) >= Capacity
        /\ Goto(r, "record") /\ UNCHANGED <<queue, mine, got>>
  /\ UNCHANGED <<list, rows, tried, made, now, mixed, unsure, hidden>>

(* CallLogRepo.Record stamps the row with the time of the write; every      *)
(* attempt that lands makes a row of its own.                              *)
Insert(c) == rows' = rows \cup {[call |-> c, at |-> now, try |-> tried[c]]}

Record(r) ==
  /\ pc[r] = "record"
  /\ Insert(mine[r]) \/ (May("mysql") /\ UNCHANGED rows)
  /\ Leave(r)
  /\ UNCHANGED <<list, owed, made, now, mixed, unsure, hidden>>

-------------------------------------------------------------------------------
(* listRecentNotes: EXISTS, LRANGE, and the rows if there is no list.       *)
ListExists(r) ==
  /\ pc[r] = "idle"
  /\ \/ list # <<>> /\ Goto(r, "range")
     \/ (list = <<>> \/ May("redis")) /\ Goto(r, "readRows")
  /\ UNCHANGED <<list, rows, owed, made, now, mine, got, mixed, unsure, hidden>>

(* The answer is what LRANGE finds, whatever the limit says.                *)
ListRange(r) ==
  /\ pc[r] = "range"
  /\ Goto(r, "idle") \/ (May("redis") /\ Goto(r, "readRows"))
  /\ UNCHANGED <<list, rows, owed, made, now, mine, got, mixed, unsure, hidden>>

(* What a refill will put in the place of the list.                         *)
Fetch(r, logs) ==
  /\ got' = [got EXCEPT ![r] = logs]
  /\ Goto(r, "clear")
  /\ mixed' = (mixed \/ Refilling # {})

(* RecentByUser cannot know what the queue still owes.                      *)
ListFromRows(r) ==
  /\ pc[r] = "readRows"
  /\ \/ \E logs \in Newest(rows), limit \in Limits : Fetch(r, First(logs, limit))
     \/ May("mysql") /\ Goto(r, "idle") /\ UNCHANGED <<got, mixed>>
  /\ hidden' = hidden \cup ((1 .. made) \ InRows)
  /\ UNCHANGED <<list, rows, owed, made, now, mine, unsure>>

(* The rows of a day.                                                       *)
RowsOf(day) == {row \in rows : row.at \div DayLength = day}

(* queryNotesByDate: ByDate has no limit, and its rows replace the list.    *)
QueryByDate(r) ==
  /\ pc[r] = "idle"
  /\ \/ \E day \in 0 .. MaxTime \div DayLength : \E logs \in Newest(RowsOf(day)) : Fetch(r, logs)
     \/ May("mysql") /\ UNCHANGED <<pc, got, mixed>>
  /\ hidden' = hidden \cup ((1 .. made) \ ToSet(got'[r]))
  /\ UNCHANGED <<list, rows, owed, made, now, mine, unsure>>

(* SetRecentLogs, a pipeline of DEL and, if there is anything, LPUSH from   *)
(* the oldest on and EXPIRE.                                               *)
ClearLogs(r) ==
  /\ pc[r] = "clear"
  /\ \/ /\ list' = <<>>
        /\ IF got[r] = <<>> THEN Leave(r) ELSE Goto(r, "fill") /\ UNCHANGED <<mine, got>>
     \/ May("redis") /\ Leave(r) /\ UNCHANGED list
  /\ UNCHANGED <<rows, owed, made, now, mixed, unsure, hidden>>

FillLogs(r) ==
  /\ pc[r] = "fill"
  /\ list' = got[r] \o list \/ (May("redis") /\ UNCHANGED list)
  /\ Leave(r)
  /\ UNCHANGED <<rows, owed, made, now, mixed, unsure, hidden>>

Request(r) == \/ RecordCall(r) \/ TrimLog(r) \/ EnqueueLog(r) \/ Record(r)
              \/ ListExists(r) \/ ListRange(r) \/ ListFromRows(r) \/ QueryByDate(r)
              \/ ClearLogs(r) \/ FillLogs(r)

-------------------------------------------------------------------------------
(* Bug: the loop goes on after an INSERT that has succeeded.                *)
WorkerTriesAll ==
  \E i \in 1 .. WorkerCount \cap DOMAIN queue : LET c == queue[i] IN
    /\ Insert(c)
    /\ IF tried[c] + 1 < MaxTries
         THEN tried' = [tried EXCEPT ![c] = @ + 1] /\ UNCHANGED queue
         ELSE queue' = RemoveAt(queue, i) /\ tried' = [tried EXCEPT ![c] = 0]
    /\ UNCHANGED <<list, made, now, pc, mine, got, mixed, unsure, hidden>>

(* A worker tries a call that it holds.  A failed INSERT may have taken     *)
(* effect; it is repeated until the last attempt.                          *)
WorkerTries ==
  \E i \in 1 .. WorkerCount \cap DOMAIN queue : LET c == queue[i] IN
    /\ \/ /\ Insert(c) /\ UNCHANGED unsure
          /\ queue' = RemoveAt(queue, i) /\ tried' = [tried EXCEPT ![c] = 0]
       \/ /\ \/ May("mysql") /\ UNCHANGED <<rows, unsure>>
             \/ May("unsure") /\ Insert(c) /\ unsure' = unsure \cup {c}
          /\ IF tried[c] + 1 < MaxTries
               THEN tried' = [tried EXCEPT ![c] = @ + 1] /\ UNCHANGED queue
               ELSE queue' = RemoveAt(queue, i) /\ tried' = [tried EXCEPT ![c] = 0]
    /\ UNCHANGED <<list, made, now, pc, mine, got, mixed, hidden>>

(* The hourly DELETE of what is older than 30 days.                         *)
CleanupOlderThan ==
  /\ May("cleanup")
  /\ rows' = {row \in rows : row.at + Retention >= now}
  /\ hidden' = hidden \cup {row.call : row \in rows \ rows'}
  /\ UNCHANGED <<list, owed, made, now, pc, mine, got, mixed, unsure>>

Tick == /\ now < MaxTime /\ now' = now + 1
        /\ UNCHANGED <<list, rows, owed, made, pc, mine, got, mixed, unsure, hidden>>

(* The TTL passes, or Redis evicts the key or loses its data.               *)
ListIsLost == /\ list # <<>> /\ list' = <<>>
              /\ UNCHANGED <<rows, owed, made, now, pc, mine, got, mixed, unsure, hidden>>

(* The process dies and starts again; seedCache leaves the list alone.      *)
Restart == /\ May("restart")
           /\ queue' = <<>> /\ tried' = [c \in Call |-> 0]
           /\ pc' = [r \in Requests |-> "idle"]
           /\ mine' = [r \in Requests |-> 0] /\ got' = [r \in Requests |-> <<>>]
           /\ UNCHANGED <<list, rows, made, now, mixed, unsure, hidden>>

Next == \/ \E r \in Requests : Request(r)
        \/ WorkerTries \/ CleanupOlderThan \/ Tick \/ ListIsLost \/ Restart

Spec == Init /\ [][Next]_vars

-------------------------------------------------------------------------------
(* No call is listed twice, whatever was pushed with its answer lost,       *)
(* refilled or overwritten, unless two refills overlapped, or the answer to *)
(* an INSERT of it was lost and the worker repeated it: a refill deletes    *)
(* what it replaces, and a call is pushed before it can be a row.           *)
NoLogTwice == mixed \/ RepeatsOnly(list, unsure)

(* d came after c, and MySQL, if it has both, says so too: created_at puts   *)
(* every row of d into a later second than every row of c.                  *)
Newer(d, c) ==
  d > c /\ \A p, q \in rows : p.call = c /\ q.call = d => p.at < q.at

(* The list has no gap without a cause: a call that is newer than a listed  *)
(* one is listed too, unless Redis refused it, it was still owed to MySQL   *)
(* when the list was refilled, it was pushed while a refill was under way,  *)
(* the rows of another day replaced the list, or the cleanup deleted a row  *)
(* of it.  The trimming, the limit, the order of two writers, a repeated    *)
(* INSERT, two overlapping refills and a restart make none, but of calls    *)
(* written in one second the limit may keep either.                        *)
GapHasCause ==
  \A c \in ToSet(list), d \in 1 .. made : Newer(d, c) => d \in ToSet(list) \cup hidden

===============================================================================
