SPECIFICATION Spec
CONSTANTS
  support = support
  finance = finance
  w1 = w1
  w2 = w2
  Apps = {w1, w2}
  MaxPositions = 1
  Salaries = {2}
  Extras = {0}
  Proposals = {1}
  WalletAtStart <- MixedWallet
  TopUp = 0
  PostingFee = 1
  MaxDisputed = 1
  PartialClaims = FALSE
  Appeals = FALSE
  Investigators = {support}
  Proposers = {finance}
  MaxCalls = 1
SYMMETRY Workers
CHECK_DEADLOCK FALSE
INVARIANTS
  CaseDecidable
