SPECIFICATION CsvSpec
CONSTANTS
  Key = {k1, k2, k3}
  Capacity = 2
  MaxMerged = 6
  MaxStarts = 3
  DiskMayFail = TRUE
SYMMETRY Symmetry
INVARIANTS
  CsvTypeOK
  CleanOnDisk
PROPERTY
  RestartExact
CHECK_DEADLOCK FALSE
