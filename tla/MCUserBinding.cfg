SPECIFICATION Spec
CONSTANTS
  Requests = {r1, r2}
  Keys = {k1, k2}
  Emails = {e1}
  Paths = {home, legacy}
  DefaultPath = home
  LegacyPath = legacy
  None = none
  MaxCalls = 2
  Disturbances = {"redis", "mysql", "crash"}
INVARIANTS
  BindingConsistent
  WrongCacheHasCause
PROPERTIES
  NoteGoesHome
SYMMETRY Symmetry
CHECK_DEADLOCK FALSE
