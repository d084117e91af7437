---------------------------- MODULE MCUserBinding ----------------------------
(* An instance of UserBinding for TLC.                                     *)
EXTENDS UserBinding, TLC

Symmetry == Permutations(Requests) \cup Permutations(Keys)
===============================================================================
