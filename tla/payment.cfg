SPECIFICATION FairSpec
CONSTANTS
  Days = {1, 2}
  Whole = whole
  MaxRequests = 2
  Interval = 1
  MaxProofs = 2
  MaxHolds = 1
  MaxClock = 5
  MaxTroubles = 1
INVARIANTS
  TypeOK
  LedgerAgrees
  RequestsTruthful
  RemindersSpaced
PROPERTIES
  RemindersNotLost
CHECK_DEADLOCK FALSE
