CONSTANTS
  N = 2
  WebSocketRPC = {}
  Reliable = {1}
  Dead = {}
  Frozen = {0}
  Cooldown = 4
  MaxErrors = 3
  Back = 1
  Span = 2
  Lag = 1
  StartHead = 5
  MaxHead = 8
SPECIFICATION FairSpec
PROPERTY IngestionContinues
\* The indexer may be stopped.
CHECK_DEADLOCK FALSE
