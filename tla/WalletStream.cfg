SPECIFICATION StreamFairSpec
CONSTANTS
  c1 = c1
  t1 = t1
  t2 = t2
  Client = {c1}
  Trade = {t1, t2}
  Address <- MCAddress
  Lower <- MCLower
  Trim <- MCTrim
  Maker <- MCMaker
  Taker <- MCTaker
  FollowLists <- MCFollowLists
  MaxLogs = 1
  MaxRequests = 2
  MaxFailures = 1
INVARIANT InboxIsActivity
PROPERTIES TrackedAsAsked WatchedTradeIsShown
\* Trades and requests come to their end.
CHECK_DEADLOCK FALSE
