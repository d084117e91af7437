------------------------- MODULE MCProcessedMessages -------------------------
(* Instances of ProcessedMessages for TLC.                                 *)
EXTENDS ProcessedMessages, TLC

Symmetry == Permutations(Deliveries)
===============================================================================
