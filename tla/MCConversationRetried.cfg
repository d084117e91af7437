SPECIFICATION Spec
CONSTANTS
  Requests = {r1, r2}
  MaxRounds = 1
  WorkerCount = 1
  MaxTries = 2
  Capacity = 1
  Window = 1
  MaxTime = 1
  Disturbances = {"unsure", "late", "reset", "restart"}
INVARIANTS
  NoTwin
  ClearedRowIsGone
SYMMETRY Symmetry
CHECK_DEADLOCK FALSE
