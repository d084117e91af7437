------------------------------- MODULE Selection -------------------------------
(***************************************************************************)
(* The loop that copies what it keeps of a slice to the end of a new one,   *)
(* and what a sequence repeats.                                            *)
(***************************************************************************)
EXTENDS Naturals, Sequences

(* What has been kept after each turn of the loop over s.                   *)
KeptAfter(s, K) ==
  LET kept[i \in 0 .. Len(s)] ==
        IF i = 0 THEN <<>>
        ELSE IF s[i] \in K THEN Append(kept[i - 1], s[i]) ELSE kept[i - 1]
  IN  kept

(* The elements of s that are in K, in their order.                         *)
Select(s, K) == KeptAfter(s, K)[Len(s)]

(* Only elements of K are in s more than once.                              *)
RepeatsOnly(s, K) == \A i, j \in DOMAIN s : i # j /\ s[i] = s[j] => s[i] \in K
===============================================================================
