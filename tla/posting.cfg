SPECIFICATION Spec
CONSTANTS
  support = support
  finance = finance
  w1 = w1
  w2 = w2
  Apps = {w1, w2}
  MaxPositions = 2
  Salaries = {2}
  Extras = {1}
  Proposals = {2}
  WalletAtStart <- MixedWallet
  TopUp = 2
  PostingFee = 1
  MaxDisputed = 0
  PartialClaims = FALSE
  Appeals = FALSE
  Investigators = {support}
  Proposers = {finance}
  MaxCalls = 1
SYMMETRY Workers
CHECK_DEADLOCK FALSE
INVARIANTS
  TypeOK
  Solvent
  ExtrasRefundable
  CapacityRespected
  PaidOnce
  MoneyConserved
  NothingLeftBehind
  CancellationCanFinish
PROPERTIES
  OutcomesKept
  AccountKept
