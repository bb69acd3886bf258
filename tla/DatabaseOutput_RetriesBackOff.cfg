CONSTANTS
  Receivers = {r1}
  MAX_QUEUE_SIZE = 3
  Half = 2
  Quarter = 1
  MaxHour = 1
  MaxMessages = 2
SPECIFICATION Spec
CHECK_DEADLOCK FALSE
INVARIANT RetriesBackOff
