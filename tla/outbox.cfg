SPECIFICATION FairSpec
CONSTANTS
  run = run
  request = request
  receipt = receipt
  fanout = fanout
  Fanout = fanout
  Deliverers = {run, request}
  Runs = {run}
  None = none
  Keys <- KeysOfEach
  Receipts = {receipt}
  LastWorker = 2
  Matching = {2}
  BatchSize = 1
  MaxTries = 2
  MaxTroubles = 2
INVARIANTS
  TypeOK
  NobodySkipped
  DeliveredReached
  RepeatsExplained
PROPERTIES
  DeliveredStays
  EventuallyDelivered
CHECK_DEADLOCK FALSE
