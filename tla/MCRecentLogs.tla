----------------------------- MODULE MCRecentLogs -----------------------------
(* Instances of RecentLogs for TLC.                                        *)
EXTENDS RecentLogs, TLC

Symmetry == Permutations(Requests)
===============================================================================
