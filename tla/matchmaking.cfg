SPECIFICATION Spec
CONSTANTS
  p1 = p1
  p2 = p2
  p3 = p3
  Players = {p1, p2, p3}
  Elo <- Ladder
  Calls = {c1, c2, c3, c4}
  None = None
  InitialBand = 1
  BandPerSec = 1
  MaxBand = 3
  QueueTTL = 2
  MaxTime = 2
  MaxFailed = 1
SYMMETRY Interchangeable
INVARIANTS
  OneGamePerEntry
  NoMissedPair
  WaitsForSomething
CHECK_DEADLOCK FALSE
