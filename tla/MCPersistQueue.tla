---------------------------- MODULE MCPersistQueue ----------------------------
(* Instances of PersistQueue for TLC.                                      *)
EXTENDS PersistQueue, TLC

Symmetry == Permutations(Workers) \cup Permutations(Requests)
===============================================================================
