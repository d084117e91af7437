SPECIFICATION Spec
CONSTANTS
  Requests = {r1, r2}
  Keep = 2
  Limits = {1, 2}
  WorkerCount = 1
  Capacity = 1
  MaxTries = 2
  DayLength = 1
  Retention = 0
  MaxCalls = 2
  MaxTime = 1
  Disturbances = {"redis", "mysql", "unsure", "cleanup", "restart"}
INVARIANTS
  
  GapHasCause
SYMMETRY Symmetry
CHECK_DEADLOCK FALSE
