SPECIFICATION Spec
CONSTANTS
  Requests = {r1}
  Workers = {w1, w2}
  Flusher = flusher
  None = none
  MaxCalls = 2
  Capacity = 1
  MaxRetries = 2
  Outcomes = {"ok", "failed", "unsure"}
INVARIANTS
  NothingVanishes
  OneHolder
  InFlightExact
  DuplicatesOnlyIfUnsure
  EndsOneWay
  HeldBeforeQueued
PROPERTIES
  FlushNilLeavesOnlyUncounted
  ImplementsLedger
SYMMETRY Symmetry
CHECK_DEADLOCK FALSE
