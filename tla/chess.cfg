SPECIFICATION Spec
CONSTANTS
  Starts <- MCStarts
INVARIANTS
  AttackAgrees
  RightsSound
  SANTellsMoves
  ThreefoldIsCurrent
CHECK_DEADLOCK FALSE
