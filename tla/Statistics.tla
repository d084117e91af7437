----------------------------- MODULE Statistics -----------------------------
(***************************************************************************)
(* The statistics page: GetStats of internal/service/stats.go with the      *)
(* queries of the repositories.  It issues its queries one after the other, *)
(* each on what the tables hold at that moment, so a moment is the contents *)
(* of the tables and the day, and GetStats takes one moment for each read.  *)
(* Days are numbered.  The three kinds of daily counts (calls, calls of the *)
(* model, messages) are read and drawn alike; one of them stands for all.   *)
(***************************************************************************)
EXTENDS Integers, Sequences, FiniteSets, Sums

CONSTANT Days      \* the length of the window: 7 and 30 in the program

ASSUME DaysAssumption == Days \in Nat \ {0}

\* A moment: users, those of them whose status is bound, the calls as a
\* sequence of records of a day and a user, and the day it is.
CountTotal(m) == Cardinality(m.users)

CountByStatus(m) == Cardinality(m.bound)

\* created_at >= DATE_SUB(CURDATE(), INTERVAL days DAY)
Recent(m) == {i \in 1 .. Len(m.calls) : m.calls[i].day >= m.day - Days}

TotalCalls(m) == Cardinality(Recent(m))

ActiveUsers(m) == Cardinality({m.calls[i].user : i \in Recent(m)})

\* One row for each day that has calls.
DailyStats(m) ==
  [d \in {m.calls[i].day : i \in Recent(m)} |->
     Cardinality({i \in Recent(m) : m.calls[i].day = d})]

\* Bug: the chart ends yesterday.
FillMissingWithoutToday(stats, today) ==
  [k \in 1 .. Days |->
     LET d == today - Days + k - 1 IN IF d \in DOMAIN stats THEN stats[d] ELSE 0]

\* The last Days days up to today, oldest first, with zero where no row is.
FillMissingDates(stats, today) ==
  [k \in 1 .. Days |->
     LET d == today - Days + k IN IF d \in DOMAIN stats THEN stats[d] ELSE 0]

\* The reads in their order: users, bound users, calls, active users, the
\* rows of the chart, and the clock that the chart is drawn by.
Reads == 1 .. 6

GetStats(at) ==
  LET total == CountTotal(at[1])
      bound == CountByStatus(at[2])
  IN  [totalUsers   |-> total,
       boundUsers   |-> bound,
       unboundUsers |-> total - bound,
       calls        |-> TotalCalls(at[3]),
       active       |-> ActiveUsers(at[4]),
       daily        |-> FillMissingDates(DailyStats(at[5]), at[6].day)]
-----------------------------------------------------------------------------
(* What can happen to the tables while the page is computed.                *)

Calls(m, u)   == [m EXCEPT !.users = @ \cup {u}, !.calls = Append(@, [day |-> m.day, user |-> u])]
Midnight(m)   == [m EXCEPT !.day = @ + 1]

Moved(m, move) ==
  CASE move.kind = "calls"    -> Calls(m, move.user)
    [] move.kind = "midnight" -> Midnight(m)

\* The moment of read r, when each of the moves was made before one of the reads.
MomentsUntil(start, moves, r) ==
  LET moment[i \in 0 .. Len(moves)] ==
        IF i = 0 THEN start
        ELSE IF moves[i].before <= r THEN Moved(moment[i - 1], moves[i]) ELSE moment[i - 1]
  IN  moment

MomentAt(start, moves, r) == MomentsUntil(start, moves, r)[Len(moves)]

ChartSum(stats) == Total(stats.daily)
=============================================================================
