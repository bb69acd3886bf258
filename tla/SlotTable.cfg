CONSTANTS
  nrecords = 4
  nbuckets = 2
  Key = {1, 2, 3, 4, 5}
SPECIFICATION Spec
INVARIANTS
  ValidateClean
PROPERTIES
  RefinesLRUMap
