CONSTANTS
  Producers = {p1}
  MAX_CONN = 2
  MaxLogs = 2
  MaxAccepts = 2
SPECIFICATION Spec
CHECK_DEADLOCK FALSE
INVARIANTS
  StreamComplete
  OwnIncarnation
PROPERTIES
  StreamKept
  LostWakeHarmless
  DeadReaped
