CONSTANTS
  Receiver = {r1, r2}
  Mmsi = {m1, m2, m3}
  Slot = {s1, s2}
  N = 2
  INTERVAL = 1
  MaxTime = 3
  MaxLag = 1
  MaxMessages = 4
SPECIFICATION Spec
SYMMETRY Symmetry
INVARIANTS
  RecentComplete
  ReplayComplete
  TrackOwned
  RingOrdered
