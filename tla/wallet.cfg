SPECIFICATION FairSpec
CONSTANTS
  TopUps = {t1}
  Payouts = {w1}
  Postings = {p1, p2}
  Deposit = 1
  Amounts = {1}
  Cost = 2
  BalanceAtStart <- SmallBalances
  MaxTries = 1
  MaxCrashes = 1
CHECK_DEADLOCK FALSE
INVARIANTS
  TypeOK
  MoneyAccountedFor
  RefundedOrTransferred
PROPERTIES
  SubmittedOnce
  TransfersReconciled
  PaidTopUpsCredited
