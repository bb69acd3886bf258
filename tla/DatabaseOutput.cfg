CONSTANTS
  Receivers = {r1, r2}
  MAX_QUEUE_SIZE = 3
  Half = 2
  Quarter = 1
  MaxHour = 2
  MaxMessages = 4
SPECIFICATION Spec
CHECK_DEADLOCK FALSE
INVARIANTS
  WrittenOnce
  NewestKept
  StatsExact
PROPERTIES
  Drained
