SPECIFICATION FairSpec
CONSTANTS
  p1 = p1
  p2 = p2
  g1 = g1
  g2 = g2
  bad = bad
  Workers = {w1, w2}
  Partitions = {p1, p2}
  Log <- MCLog
  Line <- MCLine
  Garbled = {bad}
  None = None
  MaxFailed = 2
INVARIANTS
  LostOnlyByFailure
  NoveltyIsFirst
PROPERTIES
  EveryRequestSettled
CHECK_DEADLOCK FALSE
