SPECIFICATION AggregatorSpec
CONSTANTS
  m1 = m1
  Histories <- MCHistories
  Minute = 2
  MaxAttempts = 2
  MaxAmbiguous = 0
  MaxCrashes = 0
INVARIANT CandlesAreTrue
CHECK_DEADLOCK FALSE
