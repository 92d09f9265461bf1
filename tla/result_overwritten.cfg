SPECIFICATION Spec
CONSTANTS
  Calls = {c1, c2, c3}
  White = ann
  Others = {bob}
  None = None
  Kinds = {"human"}
  Rated = {TRUE}
  MaxFailed = 0
PROPERTIES
  ResultStands
CHECK_DEADLOCK FALSE
