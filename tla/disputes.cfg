SPECIFICATION Spec
CONSTANTS
  support = support
  finance = finance
  w1 = w1
  w2 = w2
  Apps = {w1, w2}
  MaxPositions = 2
  Salaries = {2}
  Extras = {0, 1}
  Proposals = {}
  WalletAtStart <- MixedWallet
  TopUp = 1
  PostingFee = 1
  MaxDisputed = 1
  PartialClaims = FALSE
  Appeals = FALSE
  Investigators = {support}
  Proposers = {finance}
  MaxCalls = 2
SYMMETRY Workers
CHECK_DEADLOCK FALSE
INVARIANTS
  Solvent
  PaidOnce
  OnlyAssignments
  MoneyConserved
PROPERTIES
  OutcomesKept
  AccountKept
  HeldUntilDecided
