SPECIFICATION Spec
CONSTANTS
  yes = yes
  no = no
  Token = {yes, no}
  Price = {1, 2, 3}
  Feed <- MCFeed
  Trade <- MCTrade
  Day = 1
  KeyLife = 1
  MaxEvents = 2
  MaxTrades = 2
  MaxFaults = 1
INVARIANTS TypeOK BookMatchesEvents CachedIsSnapshot VolumeCountsWindow NoOlderThanBoth
CHECK_DEADLOCK FALSE
