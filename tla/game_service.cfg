SPECIFICATION Spec
CONSTANTS
  Calls = {c1, c2, c3, c4}
  White = ann
  Others = {bob, cy}
  None = None
  Kinds = {"human", "open", "engine"}
  Rated = {TRUE}
  MaxFailed = 1
SYMMETRY Interchangeable
INVARIANTS
  OutboxInOrder
  OneGame
  EffectsOnce
  EndIsFollowedUp
PROPERTIES
  BoardResultStands
CHECK_DEADLOCK FALSE
