SPECIFICATION Spec
CONSTANTS
  Requests = {r1, r2}
  MaxRounds = 1
  WorkerCount = 1
  MaxTries = 2
  Capacity = 1
  Window = 2
  MaxTime = 3
  Disturbances = {"cleanup"}
INVARIANTS
  AppendsSurvive
SYMMETRY Symmetry
CHECK_DEADLOCK FALSE
