---------------------------- MODULE PersistLedger ----------------------------
(***************************************************************************)
(* What the asynchronous persistence layer promises for one write, apart   *)
(* from goroutines, channels and retries: a write offered by a request is  *)
(* either taken over by the queue or handed back to its caller, and it     *)
(* then ends in exactly one way - stored in MySQL, kept as a dead letter,  *)
(* or dropped with nothing but a log line.  A failed attempt may leave a   *)
(* row behind (a commit whose answer was lost), so the rows are a sequence *)
(* and not a set.                                                          *)
(***************************************************************************)
EXTENDS Sequences

CONSTANT Task       \* the writes the requests may offer

VARIABLES fate,     \* how far the promise about each write has got
          rows      \* the rows MySQL holds, in the order they landed

vars == <<fate, rows>>

Open  == {"queued", "caller"}
Ended == {"stored", "deadLetter", "dropped"}

TypeOK == /\ fate \in [Task -> {"unoffered"} \cup Open \cup Ended]
          /\ rows \in Seq(Task)

Init == /\ fate = [t \in Task |-> "unoffered"]
        /\ rows = <<>>

Become(t, from, to) == /\ fate[t] \in from
                       /\ fate' = [fate EXCEPT ![t] = to]

(* The queue takes the write over, or the caller keeps it.                 *)
Accept(t) == Become(t, {"unoffered"}, "queued") /\ UNCHANGED rows
Refuse(t) == Become(t, {"unoffered"}, "caller") /\ UNCHANGED rows

(* A row lands but its writer is told of an error and will try again.      *)
LandUnsure(t) == /\ fate[t] = "queued"
                 /\ rows' = Append(rows, t)
                 /\ UNCHANGED fate

Store(t) == Become(t, Open, "stored") /\ rows' = Append(rows, t)
Bury(t)  == Become(t, {"queued"}, "deadLetter") /\ UNCHANGED rows

(* Giving a write up; the caller's single attempt may still have landed.   *)
Drop(t) == \/ Become(t, Open, "dropped") /\ UNCHANGED rows
           \/ Become(t, {"caller"}, "dropped") /\ rows' = Append(rows, t)

Next == \E t \in Task : \/ Accept(t) \/ Refuse(t) \/ LandUnsure(t)
                        \/ Store(t) \/ Bury(t) \/ Drop(t)

Spec == Init /\ [][Next]_vars
==============================================================================
