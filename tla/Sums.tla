--------------------------------- MODULE Sums ---------------------------------
(***************************************************************************)
(* The loop that adds up a sequence of numbers.                             *)
(***************************************************************************)
EXTENDS Integers, Sequences

(* The sum after each turn of the loop over ns.                             *)
SumsOf(ns) ==
  LET sum[i \in 0 .. Len(ns)] == IF i = 0 THEN 0 ELSE sum[i - 1] + ns[i]
  IN  sum

Total(ns) == SumsOf(ns)[Len(ns)]
===============================================================================
