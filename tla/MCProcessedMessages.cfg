SPECIFICATION Spec
CONSTANTS
  Deliveries = {d1, d2, d3}
  None = none
  Timeout = 1
  MaxTime = 3
  Faults = TRUE
INVARIANTS
  DuplicateHasCause
  SomebodyProcesses
  RepliesAreReal
  WaitHasWorker
SYMMETRY Symmetry
CHECK_DEADLOCK FALSE
