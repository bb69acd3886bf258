CONSTANTS
  nships = 2
  block_cap = 3
  BLOCK_SIZE = 2
  HORIZON = 0
  GRANULARITY = 1
  DWELL_GAP = 1
  DWELL_MAX = 2
  MaxTime = 1
  Late = {0}
SPECIFICATION Spec
INVARIANTS
  CheckClean
PROPERTIES
  RefinesTracks
