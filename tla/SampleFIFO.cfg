CONSTANTS
  BLOCK_SIZE = 2
  N_BLOCKS = 3
  MaxPush = 3
  MaxBytes = 11
SPECIFICATION FifoSpec
CHECK_DEADLOCK FALSE
INVARIANTS
  FifoTypeOK
  HeldIntact
  EndDrained
PROPERTIES
  HaltIsFinal
  NoThreadStuck
  EndIsReported
