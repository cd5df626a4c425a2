SPECIFICATION AggregatorFairSpec
CONSTANTS
  m1 = m1
  Histories <- MCHistories
  Minute = 2
  MaxAttempts = 2
  MaxAmbiguous = 1
  MaxCrashes = 1
INVARIANTS AggregatorTypeOK BucketsSummarize TradesAccountedFor
PROPERTY TradesSettle
\* Trades come to their end.
CHECK_DEADLOCK FALSE
