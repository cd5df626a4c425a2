CONSTANTS
  N = 4
  WebSocketRPC = {0}
  Reliable = {3}
  Dead = {1}
  Frozen = {2}
  Cooldown = 4
  MaxErrors = 3
  Back = 1
  Span = 2
  Lag = 1
  StartHead = 5
  MaxHead = 9
SPECIFICATION FairSpec
INVARIANT CycleInOrder
PROPERTIES ReplayBounded OnlyFrozenStops
\* The indexer may be stopped.
CHECK_DEADLOCK FALSE
