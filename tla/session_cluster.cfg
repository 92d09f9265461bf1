SPECIFICATION Spec
CONSTANTS
  n1 = n1
  n2 = n2
  c2 = c2
  Nodes = {n1, n2}
  Founders = {n1, n2}
  Weight <- Hashes
  Calls = {c1, c2}
  Mover <- Sides
  None = None
  MaxStarts = 4
  MaxJoins = 1
  MaxDeaths = 2
  MaxTimeouts = 1
INVARIANTS
  OneProcess
  ForkHeals
  AckedIsDurable
  OneFaultLosesNothing
CHECK_DEADLOCK FALSE
