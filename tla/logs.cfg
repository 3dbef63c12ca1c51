SPECIFICATION Spec
CONSTANTS
  v1 = v1  v2 = v2
  Viewer = {v1}
  Outcomes = {"ok", "lost", "unknown"}
  InsertFits = TRUE
  Happens = {"crash", "abort"}
  MaxAttempts = 2
  MaxLines = 3
INVARIANTS LinesInOrder LiveIsStored EveryLineIsPersisted
CHECK_DEADLOCK FALSE
