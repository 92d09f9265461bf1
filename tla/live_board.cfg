SPECIFICATION BoardFairSpec
CONSTANTS
  Games = {g1, g2}
  First = g1
  None = None
  Buffer = 1
  MaxFrames = 1
  MaxInFlight = 2
  MaxMoves = 2
  MaxOpens = 2
  MaxDrops = 1
  MaxFaults = 1
INVARIANTS
  BehindOnlyBy
PROPERTIES
  StaysServed
CHECK_DEADLOCK FALSE
