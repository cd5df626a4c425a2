SPECIFICATION FairSpec
CONSTANTS
  markets = markets
  events = events
  Crawl = {markets}
  m1 = m1
  m2 = m2
  yes1 = yes1
  no1 = no1
  yes2 = yes2
  no2 = no2
  Market = {m1, m2}
  TwoTokens = {m2}
  Lists <- MCLists
  Tokens <- MCTokens
  Pairs <- MCPairs
  Limit = 1
  MaxAttempts = 2
  MaxPending = 1
  MaxChanges = 1
  MaxFailures = 2
  MaxBackoff = 2
  MaxConns = 2
  MaxCrashes = 1
INVARIANTS TypeOK CrawlComplete EveryTokenAskedFor StreamedTokensResolve
PROPERTY EveryMarketStreamed
\* The worker may be stopped.
CHECK_DEADLOCK FALSE
