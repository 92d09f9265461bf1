SPECIFICATION Spec
CONSTANTS
  Browsers = {b1}
  Calls = {c1, c2, c3, c4}
  Users = {u1, u2, u3}
  Tokens = {t1}
  Spellings <- MCSpellings
  Mails <- MCMails
  Fold <- MCFold
  None = None
  MaxFailed = 1
SYMMETRY Symmetry
INVARIANTS
  OneAccountPerIdentifier
  SessionsEarned
CHECK_DEADLOCK FALSE
