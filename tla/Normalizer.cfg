SPECIFICATION FairSpec
CONSTANTS
  Direct <- MCDirect
  N <- MCN
  Changes <- MCChanges
  MaxAttempts = 2
  MaxFailures = 2
INVARIANTS EventsAccountedFor DuplicatesExplained
PROPERTIES EveryEventSettled TradesAreFound
\* The topics come to their end.
CHECK_DEADLOCK FALSE
