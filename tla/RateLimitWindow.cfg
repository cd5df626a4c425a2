SPECIFICATION LimiterFairSpec
CONSTANTS
  HttpRequest = {r1, r2}
  Limits = {1, 2}
  MaxLimit = 2
  Window = 3
  MaxCount = 5
  MaxFaults = 2
INVARIANT TwiceTheLimit
PROPERTY UndisturbedExpires
