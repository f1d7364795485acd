SPECIFICATION FairSpec
CONSTANTS
  support = support
  finance = finance
  w1 = w1
  Apps = {w1}
  MaxPositions = 1
  Salaries = {2}
  Extras = {0, 1}
  Proposals = {1}
  WalletAtStart <- MixedWallet
  TopUp = 1
  PostingFee = 1
  MaxDisputed = 1
  PartialClaims = TRUE
  Appeals = TRUE
  Investigators = {support}
  Proposers = {finance}
  MaxCalls = 2
CHECK_DEADLOCK FALSE
INVARIANTS
  PaidOnce
PROPERTIES
  RequestsAnswered
  HeldUntilDecided
