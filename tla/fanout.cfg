SPECIFICATION FairSpec
CONSTANTS
  Relays = {g1}
  Batch = 2
  MaxRows = 2
  MaxFailed = 1
  Replicas = {f1}
  Viewers = {v1}
  SendBuffer = 1
  Burst = 2
  MaxLeaves = 1
INVARIANTS
  NothingMissed
  DoubledOnlyByLag
PROPERTIES
  EveryMoveShown
CHECK_DEADLOCK FALSE
