CONSTANTS
  c1 = c1
  Client = {c1}
  Market = {"m1", "m2"}
  NoMarket = ""
  Address <- MCAddress
  Lower <- MCLower
  NoWallet = ""
  MarketLists <- MCMarketLists
  WalletLists <- MCWalletLists
  SendCap = 1
  BroadcastCap = 1
  WalletCap = 1
  SubscribeCap = 2
  MaxMsgs = 2
  MaxCmds = 2
SPECIFICATION FairSpec
INVARIANTS ChannelSafety DrainNeverBlocks PublicationOrder
PROPERTIES ImplementsFanOut ConnectionReclaimed BufferedIsDelivered CommandTakesEffect
\* Connections end for good and the broadcasters run out of messages.
CHECK_DEADLOCK FALSE
