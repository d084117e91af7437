---------------------------- MODULE MetricWindow ----------------------------
(***************************************************************************)
(* The window of the newest durations that internal/metrics/metrics.go      *)
(* keeps of one metric in memory, and the window that a restart reads back  *)
(* from the samples in MySQL.                                              *)
(***************************************************************************)
EXTENDS Integers, Sequences, SequencesExt

CONSTANT MaxSamples     \* maxSamples

ASSUME WindowAssumption == MaxSamples \in Nat \ {0}

\* record: one more duration, the oldest given up when the window is full.
RecordDuration(window, d) ==
  Append(IF Len(window) >= MaxSamples THEN Tail(window) ELSE window, d)

\* A sample is the name of its metric, its duration and its second t.  What
\* LoadRecent may return: the newest MaxSamples of all metrics together, the
\* newest first, in any order within a second.
LoadRecent(samples) ==
  LET n == IF Len(samples) < MaxSamples THEN Len(samples) ELSE MaxSamples
      At(i) == samples[i].t
  IN  {[k \in 1 .. n |-> samples[q[k]]] :
         q \in {p \in [1 .. n -> 1 .. Len(samples)] :
                 /\ \A j, k \in 1 .. n : j < k => p[j] # p[k] /\ At(p[j]) >= At(p[k])
                 /\ \A i \in 1 .. Len(samples) :
                      (\A k \in 1 .. n : p[k] # i) => \A k \in 1 .. n : At(i) <= At(p[k])}}

\* The window of one metric after each of these samples, and after all.
WindowsOf(samples, name) ==
  LET window[i \in 0 .. Len(samples)] ==
        IF i = 0 THEN <<>>
        ELSE IF samples[i].name = name THEN RecordDuration(window[i - 1], samples[i].d)
        ELSE window[i - 1]
  IN  window

WindowAfter(samples, name) == WindowsOf(samples, name)[Len(samples)]

\* Bug: the rows are replayed as they are read.
RestoredNewestFirst(samples, name) == {WindowAfter(q, name) : q \in LoadRecent(samples)}

\* The windows that the next process may have: Init replays the rows from the
\* last one to the first.
RestoredWindows(samples, name) == {WindowAfter(Reverse(q), name) : q \in LoadRecent(samples)}
=============================================================================
