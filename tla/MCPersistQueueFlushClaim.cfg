SPECIFICATION Spec
CONSTANTS
  Requests = {r1}
  Workers = {w1, w2}
  Flusher = flusher
  None = none
  MaxCalls = 1
  Capacity = 1
  MaxRetries = 2
  Outcomes = {"ok", "failed"}
INVARIANT FlushNilMeansSettled
CHECK_DEADLOCK FALSE
