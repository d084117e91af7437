SPECIFICATION FairSpec
CONSTANTS
  Handlers = {r1, h1}
  Requests = {r1}
  Workers = {w1, w2}
  Flusher = flusher
  None = none
  MaxCalls = 1
  Capacity = 1
  MaxRetries = 2
  Outcomes = {"ok", "failed"}
INVARIANT AnsweredIsKept
PROPERTIES
  RunReturns
  AcceptedSettles
CHECK_DEADLOCK FALSE
