SPECIFICATION Spec
CONSTANTS
  Requests = {r1, r2}
  MaxRounds = 1
  WorkerCount = 1
  MaxTries = 1
  Capacity = 1
  Window = 1
  MaxTime = 1
  Disturbances = {"redis", "mysql", "late", "loss", "reset", "restart"}
INVARIANTS
  TypeOK
  
  NothingForgotten
SYMMETRY Symmetry
CHECK_DEADLOCK FALSE
