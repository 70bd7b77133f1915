SPECIFICATION FairSpec
CONSTANTS
  Pages = {p1, p2}
  Parallelism = 1
  MaxRetries = 2
  Tokens = {1}
  Estimate = 100
  MaxBatches = 2
  MaxOthers = 1
INVARIANT TypeOK
INVARIANT InFlightBounded
INVARIANT BatchAllOrNothing
INVARIANT UsageAccounted
INVARIANT NobodyStuck
PROPERTY CallsEnd
CHECK_DEADLOCK FALSE
