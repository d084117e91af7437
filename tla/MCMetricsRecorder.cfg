SPECIFICATION FairSpec
CONSTANTS
  Recorders = {g1, g2}
  Loop = loop
  Nobody = nobody
  MaxPending = 1
  MaxMade = 4
  SaveOutcomes = {"ok", "failed", "unsure"}
INVARIANTS
  PendingBounded
  LastFlushCovers
PROPERTIES
  ImplementsBuffer
  LoopReturns
CHECK_DEADLOCK FALSE
