SPECIFICATION RelayFairSpec
CONSTANTS
  Relays = {g1, g2}
  Batch = 2
  MaxRows = 3
  MaxFailed = 2
INVARIANTS
  StreamInOrder
  MarkedIsInStream
  RepeatsBounded
PROPERTIES
  EveryRowStreamed
CHECK_DEADLOCK FALSE
