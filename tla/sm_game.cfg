SPECIFICATION FairSpec
CONSTANTS
  Initial = 1
  Increment = 1
  Grace = 1
  TTLInProgress = 3
  TTLFinished = 2
  Outsiders = {guest}
  Requests <- MixedRequests
  MaxTime = 4
  MaxMoves = 2
  MaxQueued = 2
  MaxCrashes = 1
  MaxLostSaves = 1
INVARIANTS
  TimeConserved
  TimersArmed
  FlagJust
  AckedMovesSurvive
PROPERTIES
  ResultStable
  ImplementsContract
  GameEnds
CHECK_DEADLOCK FALSE
