SPECIFICATION Spec
CONSTANTS
  Message <- MCMessage
  MaxNumber = 3
  MaxQueue = 3
  MaxAge = 1
  MayBeDamaged <- MCMayBeDamaged
INVARIANTS
  UndisturbedSent
  ErrorExact
PROPERTY
  ImplementsReassembly
