-------------------------- MODULE MCMetricsRecorder --------------------------
(* An instance of MetricsRecorder for TLC.                                 *)
EXTENDS MetricsRecorder, TLC
===============================================================================
