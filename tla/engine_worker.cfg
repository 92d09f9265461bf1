SPECIFICATION FairSpec
CONSTANTS
  a1 = a1
  a2 = a2
  m1 = m1
  p1 = p1
  p2 = p2
  Calls = {a1, a2, m1}
  Positions = {p1, p2}
  Fen <- Fens
  Play = {m1}
  Seed = {p2}
  None = None
  MaxInfo = 1
  MaxDeaths = 1
INVARIANTS
  AnswerIsOwn
  CacheIsSound
PROPERTIES
  EveryCallReturns
CHECK_DEADLOCK FALSE
