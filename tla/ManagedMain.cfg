CONSTANTS
  RETRY_DELAY_FIRST = 5
  RETRY_DELAY_MAX = 10
  MaxCommands = 2
  MaxSaves = 1
SPECIFICATION Spec
CHECK_DEADLOCK FALSE
INVARIANTS
  TypeOK
  StopNotLost
  BackoffRespected
  NoScanDuringSession
  ViewerDetached
  ViewerConfigFresh
PROPERTIES
  StopHonoured
  ShutdownServed
  StartServed
