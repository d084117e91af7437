----------------------------- MODULE SampleBuffer -----------------------------
(***************************************************************************)
(* What the metrics recorder promises about its samples, apart from its     *)
(* goroutines and mutexes: they wait in the order they were recorded, the   *)
(* oldest are saved first, and only when more than Limit are waiting may    *)
(* the oldest be given up, never so many that fewer than Limit remain.      *)
(***************************************************************************)
EXTENDS Naturals, Sequences, Functions

CONSTANT Limit

VARIABLES made,       \* samples recorded so far, numbered from 1
          unsaved,    \* those that wait, oldest first
          stored      \* those that are in MySQL

vars == <<made, unsaved, stored>>

Oldest(k)   == SubSeq(unsaved, 1, k)
AllBut(k)   == SubSeq(unsaved, k + 1, Len(unsaved))

Init == made = 0 /\ unsaved = <<>> /\ stored = {}

RecordOne == /\ made' = made + 1
             /\ unsaved' = Append(unsaved, made')
             /\ UNCHANGED stored

SaveOldest == \E k \in 1 .. Len(unsaved) :
                /\ stored' = stored \cup Range(Oldest(k))
                /\ unsaved' = AllBut(k)
                /\ UNCHANGED made

(* The rows landed, but the answer was lost: they will be saved again.      *)
SaveUnsure == \E k \in 1 .. Len(unsaved) :
                /\ stored' = stored \cup Range(Oldest(k))
                /\ UNCHANGED <<made, unsaved>>

GiveUpOldest == /\ Len(unsaved) > Limit
                /\ unsaved' = AllBut(Len(unsaved) - Limit)
                /\ UNCHANGED <<made, stored>>

Next == RecordOne \/ SaveOldest \/ SaveUnsure \/ GiveUpOldest

Spec == Init /\ [][Next]_vars
===============================================================================
