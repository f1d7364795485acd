\* One user, one tab with two calls at once, and sign-ins by code.
CONSTANTS
  Issues = {i1, i2}
  Guesses = {g1, g2}
  SignIns = {g1, g2}
  MaxAttempts = 2
  MaxChallenges = 2
  Tabs = {t1}
  Slots = {c1, c2}
  Transport = "cookie"
  MaxSessions = 2
  MaxMinted = 3
  MaxTroubles = 1
SYMMETRY Symmetry
SPECIFICATION Spec
INVARIANTS TypeOK CodesSpentOnce
PROPERTY SignedInWhileValid
CHECK_DEADLOCK FALSE
