\* One call of a tab whose tokens travel in headers, no trouble at all.
CONSTANTS
  Issues = {i1}
  Guesses = {g1}
  SignIns = {g1}
  MaxAttempts = 2
  MaxChallenges = 1
  Tabs = {t1}
  Slots = {c1}
  Transport = "bearer"
  MaxSessions = 1
  MaxMinted = 2
  MaxTroubles = 0
SPECIFICATION Spec
PROPERTY SignedInWhileValid
CHECK_DEADLOCK FALSE
