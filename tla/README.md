# PMAxis: specifications, model checks and proofs

PMAxis (`src/pmaxis`) is a data platform for prediction markets: five Go services
(`discovery`, `ingestion`, `processor`, `storage`, `api`) around Kafka, Redis,
ClickHouse and Postgres. This directory holds TLA+ modules of the parts of it whose
correctness depends on the order in which goroutines, handlers, retries and restarts
meet, TLC configurations that check them on small instances, and proofs that TLAPS
checks for every value of the constants.

Line numbers are those of the files under `src/pmaxis`. A path without directory,
such as `hub.go:105`, is a file of the component under discussion.

## 1. The system

```
 Polymarket REST --> discovery --tokens.extracted--> ingestion: stream workers <-- Polymarket WebSocket
                         |                                |
                         v (Redis: token -> market)       v ws.raw
 Polygon RPC ---> ingestion: indexer              storage: normalizer --> ClickHouse trades, events_raw
                         |                                |                       | (materialized view)
                         v trades.onchain                 v trades.live           v
                  processor: wallet tracker       ingestion: aggregator --> market_metrics, price_history_1m
                         |  (wallet.activity, table wallet_activity)
                         v
                  api: broadcasters, wallet handlers
                                                  processor: price, analyzer --> Redis, prices, signals
                                                          |
                                api: broadcasters --> hub --> WebSocket clients
                                api: Auth -> RateLimit -> REST handlers   (Redis, Postgres, ClickHouse)
```

### Inventory

| Component | State it keeps | Operations | What is hard | What makes it correct |
|---|---|---|---|---|
| WebSocket hub and pumps (`api/ws`) | client map, two filters per client, five bounded channels, a send channel per client | register, unregister, subscribe, fan-out, drop of slow clients, read and write pumps | three parties close or use one channel; a count taken before a blocking receive; dropping under load | no send on a closed channel, no skipped message, order, reclaimed connections |
| On-chain indexer and RPC rotator (`ingestion`) | index and bench times of the pool, last block, error counter | pick, bench, subscribe or poll, chunked log queries | endpoints that fail, lag or freeze, retried ranges | consecutive blocks, once; ingestion goes on |
| Stream workers (`ingestion`) | tokens, client, subscribed, backoff | dial, subscribe, add token, reconnect | two goroutines, fields written without the mutex | every token is asked for on the live connection |
| Aggregator (`ingestion`) | two maps of buckets under a mutex, two flush goroutines | add a trade, swap, flush with retries | swap against add, ambiguous inserts, a second writer of the same table | no trade lost or counted twice, buckets are candles |
| Discovery (`discovery`) | offset and page of two crawls, Redis keys | poll, page, publish tokens | lists that change while paged, retries | nothing listed is skipped for good |
| Normalizer (`storage`) | shared buffer, flush with retries, Kafka offsets, market names | five consumers, resolution of market ids, ticker flush | commit before work, ambiguous inserts, a mutex held over retries, events of several trades, names that change | nothing committed is lost between consumer, buffer and table; no trade is stored or published twice; queries find what is stored |
| API keys (`api/handlers/keys.go`, `api/middleware/auth.go`) | table `api_keys`, Redis entry per key | register, create, update, revoke, activate, delete, rotate | two stores without a transaction, overlapping admins, Redis that comes back empty | Auth decides by what the table says; a revocation holds; plans only for keys of the table |
| Rate limiter (`api/middleware/ratelimit.go`) | counter and expiry in Redis | Incr, Expire, an admin's deletions | two calls, a crash between them, requests that passed Auth before the key was deleted | bounded admissions, counters that end |
| Order-book and price engines (`processor`) | levels per token, a price state per market under a mutex, two Redis keys per market | apply an event, publish, overwrite the book; take a trade or a book update, overwrite the price | values sent after the unlock, partitions out of order, keys that expire, restarts that empty the memory | what is cached and what browsers are sent is one state of the market, not older than what both goroutines have done |
| Trade engine, analyzer (`processor`) | EMA in Redis | one read and one write per trade | - | - |
| Wallet tracker, watched wallets (`processor`, `api/handlers/rest.go`, `api/ws`) | Redis set of wallets, table `wallet_activity` | watch, unwatch, track, summarize, broadcast | two reads of a set that users change, two spellings, four calls per side that may fail, restarts between them | a side is reported if asked for, never twice, and reaches the browsers that follow the wallet |
| Market listing (`api/handlers/rest.go`, GetMarkets) | a cached page per offset | three queries, a cursor | tables that change between queries and pages, pages of different age, the seam of two queries, an order with ties | no page repeats a market; walks by category, tag or series neither skip nor repeat |
| Other REST queries (`api/handlers/rest.go`) | response caches | read-only SQL | - | - |
| Storage schema, backfill ticker | none | DDL | - | - |
| Libraries, CLI, routing, headers | none | wrappers | - | - |

`PROJECT.json` lists the components with their status and every hazard at its line.

## 2. The modules

| Module | Models | Extended by |
|---|---|---|
| `StreamFanOut` | abstract: what a WebSocket client is promised | |
| `StreamHub` | `hub.go`, `client.go`, `handler.go`, `broadcaster.go` | `MCStreamHub`, `StreamHubProofs` |
| `RpcIndexer` | `rpcRotator`, `startIndexerComponent`, `runIndexerCycle` | `MCRpcIndexer`, `IngestionProofs` |
| `Discovery` | `discoverMarkets`, `discoverEvents`, `processMarket` | `MarketStreaming` |
| `StreamWorker` | `StreamWorker.Start/connect/readLoop/AddToken` and the manager | `MarketStreaming` |
| `MarketStreaming` | both, joined by the topic `pmaxis.tokens.extracted` | `MCMarketStreaming`, `MarketStreamingProofs` |
| `Normalizer` | `startNormalizerComponent`, `processWebsocketEvent`, `resolveCanonicalMarketID`, `flushBatch`, the direct consumers, `retry.Do`, `TypedConsumer.Fetch`; what the API's market queries find | `MCNormalizer`, `NormalizerProofs` |
| `WalletTracker` | `WatchWallet`, `UnwatchWallet`, `startWalletTracker`; what the API's wallet queries count | `WalletStream` |
| `WalletStream` | the tracker, its topic, the broadcaster and the hub (as `StreamFanOut`) | `MCWalletStream`, `WalletStreamProofs` |
| `Aggregator` | `startAggregatorComponent`, `updateBucket`, `flushMetrics`, `price_history_1m` and its view | `MCAggregator`, `IngestionProofs` |
| `ApiKeys` | every handler that writes a key, and what Auth reads | `MCApiKeys`, `ApiProofs` |
| `RateLimit` | the `RateLimit` middleware and the admin handlers that reset counters | `MCRateLimit`, `ApiProofs` |
| `PriceEngine` | `startOrderbookEngine`, `applyLevels`, `getTopLevels`, `startPriceEngine`, and their Redis keys | `MCPriceEngine`, `PriceEngineProofs` |
| `MarketListing` | `GetMarkets`, its three queries, cursor and cache | `MCMarketListing`, `ApiProofs` |
| `Lists` | no code of its own: the filter that `Discovery`, `Aggregator` and `MarketListing` use | the three, `DataLemmas` |
| `DataLemmas` | no code: lemmas on sequences, filters, lists laid flat, sums and finite sets | `MarketStreamingProofs`, `PriceEngineProofs`, `IngestionProofs`, `ApiProofs` |

A module's properties come with mutated forms of some of its operators (plausible
bugs), at the start of its body or marked "Mutated". They are used by no specification; each is put in place of its
original to confirm that a property notices the bug.

**StreamHub.** The hub's `select` is one action per case; a fan-out is a single step,
because while the hub visits its clients only the pumps touch the channels, each its
own. `readPump` is the variable `reader` (registering, reading, handing over a command,
leaving, closing), `writePump` is `writer` (idle, framing, draining, stopping). A send on
or a second close of a closed channel sets `panicked`. `drain` is the `n := len(c.send)` of
`client.go:109`. A message is an identity with a scope, wallet addresses come in two
spellings so that the lower-casing of `hub.go:92` and `hub.go:151` matters.
`StreamFanOut` states the promise with no pump or socket: when a message's turn in its
topic has come, it extends the inbox of every member whose filters admit it, or the member
is dropped, never skipped and kept. The mapping reads the topics as the hub's two channels
and an inbox as received, framed and buffered messages.

**RpcIndexer.** `stage` is where the indexer goroutine is. Time is counted only for
benches; endpoints may be dead, frozen (they answer every call, with a head that never moves),
reliable, or fail and recover. A block stands for its logs. `start`, `cycle` and
`highest` record where a cycle began and what it did.

**Discovery, StreamWorker, MarketStreaming.** The lists at Polymarket are sequences of
items (one market, or an event with its markets) that open and close while a crawl pages
over them by offset. A market first gets its Redis keys, then its tokens are published,
as in `processMarket`. The worker's `Connect` and `AddToken` overlap: `connect` assigns
`client` and `subscribed` without the mutex (`main.go:214-215`), so AddToken, while the
worker is connecting, sees either value of either field. `asked` is what the server was
asked for on the latest connection.

**Normalizer.** Kafka's `ReadMessage` commits before it returns, so `ReadMessage` and
`Commit` precede the work. A WebSocket event has one or more trades (`Changes`); `part` is the
one in hand, and each is published, inserted and appended in turn. Backfilled events are only
appended; the topics in `Direct` (discovered markets, on-chain trades, order books) are
inserted as they come, and a Fetch that fails makes those consumers insert a zero row. The
flush holds the mutex from its first to its last attempt; an insert may fail after taking
effect. An event keeps the market reference its resolution gave it: the id if the condition
was mapped, the condition if not (`marketID`). At the end of the module are the API's queries, as
the sets of stored trades they find, and what they know of a market when they are asked.

**WalletTracker.** Users write an address in several ways; `Lower` and `Trim` are what the handlers
do to them. Each call of the tracker's loop is a step: two reads of the set, the market's
key, then per side a publication and an insert; a call may fail, and a publication or an insert
that fails may have taken effect. `connected` says whether the processor found ClickHouse
when it started. History variables say what users asked for: `asked` and `doubted` (the
answer was an error), and for the log in hand the wallets that have been asked for since it
was fetched (`steady`) and those that were at any time since (`seen`). A DELETE whose path has spaces around the
address is answered like any other, but names no wallet that can be watched (`Named`): in
the model, as in the code, it stops nothing.

**WalletStream.** The tracker composed with the broadcaster and with the hub, which stands here with
the promise it is proved to keep: `INSTANCE StreamFanOut`. The broadcaster takes activities in
any order, because the topic has three partitions.

**Aggregator.** `Update` adds a trade to both maps under the mutex. `Tick` swaps a map out,
`Send` and `SendFails` work on the swapped one while trades go on arriving. Trades may
be fetched in any order, because the topic has six partitions and the producer's
balancer ignores keys. `InsertTrade` is the view's row for the trade the normalizer
inserts, `MergeRows` the table engine.

**ApiKeys.** Each store call of a handler is a step; two handlers run at once. A call may
fail, with or without effect. Requests may name any string (`Stranger`), not only keys of the table:
an activation of such a string writes an entry. `tainted` collects keys for which something went
wrong since the last clean update; `alone` those whose latest request overlapped no other; `revoked`
those revoked by such a request and not asked to be activated since.

**RateLimit.** Auth, Incr, Expire and the usage counters are separate steps of concurrent
requests, so that a request may count itself after its key was deleted; the three Dels of the
deletion are separate too. `ages` are the ages of the latest admissions; a request that is served
because Incr failed is none.

**PriceEngine.** One market with its tokens. The order-book engine's loop is `FetchRaw`,
`PublishBook`, `SetBook`; a `price_changes` event passes quotes on without touching the
levels, as in the code. Each goroutine of the price engine is a fetch with its locked section
(`FetchTrade`, `FetchUpdate`), a publication to `pmaxis.prices` (`PublishPrice`) and a write to
Redis (`SetPrice`), both from a copy. `ws/broadcaster.go:97` sends browsers what is published, as
it is. Redis drops each of the two keys two hours after its last write (`left`, `Alive`).
`history` numbers the states there have been, so that what was sent can be compared with them,
and `mine` has the number of each goroutine's last one. The choice of the market id is left out.

**MarketListing.** `tables` is every state the two tables have had; a page remembers which
of them its queries saw (`asOf`). `walker` follows `next_cursor`, `visitor` asks for any
offset and so puts pages of any age into the cache. The order by activity is by minute: each
query may give ids of one minute in another order (`Orders`), and an id drops out when its last
trade is seven days old (`WeekPasses`). A query that fails is an empty
answer, and one that loses the metadata of some markets leaves those out. `ListingBounds`
asks that the lower bound on the rows of a query is not above the upper one: 100 and 500, 50
and 200 in the code (`rest.go:291-297`, `415-419`).

## 3. What the runs check

Times are those of two workers on an otherwise idle machine.

| Run | Instance | Shows |
|---|---|---|
| `StreamHub` | 1 connection, 2 messages, 2 commands that may queue up behind each other, 2 markets, two spellings of an address, channels of capacity 1, 2 for market commands; 196,000 states, 2 minutes | `ChannelSafety`, `DrainNeverBlocks`, `PublicationOrder`; the hub implements `StreamFanOut`; `ConnectionReclaimed`, `BufferedIsDelivered`, `CommandTakesEffect` |
| `RpcIndexerCycles` | 4 endpoints: one with subscriptions, one dead, one frozen, one reliable; 9 blocks in chunks of up to 3 (`Span` 2); 27,000 states | `CycleInOrder`, `ReplayBounded`, `OnlyFrozenStops`
| `RpcIndexerFrozen` | 2 endpoints: one frozen, one reliable | **violated**: `IngestionContinues`, see finding 1 |
| `MarketStreaming` | 2 markets, listed one by one or in one event, one of them without two tokens; one change, two failures, two connections, one restart of each process | `CrawlComplete`, `EveryTokenAskedFor`, `StreamedTokensResolve`, `EveryMarketStreamed` |
| `Normalizer` | a WebSocket event with two trades, a backfilled event, the market's metadata; 2 attempts, 2 failures or restarts; 91,000 states, 1 minute | `EventsAccountedFor`, `DuplicatesExplained`, `EveryEventSettled`, `TradesAreFound` |
| `WalletStream` | two wallets, one of them written in three ways; a log that is a trade between both or of one with itself; 2 requests, 1 failure or restart, 1 browser; 408,000 states, 2.5 minutes | `InboxIsActivity`, `TrackedAsAsked`, `WatchedTradeIsShown` |
| `AggregatorFlush` | 2 trades: of one second, one minute, two minutes; 2 attempts, 1 ambiguous insert, 1 restart, ClickHouse there or not | `BucketsSummarize`, `TradesAccountedFor`, `TradesSettle` |
| `AggregatorCandles` | the same, nothing fails | **violated**: see finding 2 |
| `ApiKeysAgree` | 2 keys and a string that is none, 2 handlers, 4 requests, 1 failure, 1 wipe of Redis; 411,000 states | `EntriesAgreeWithRows`, `PlansComeFromRows`, `RevocationHolds` |
| `RateLimitWindow` | 2 requests in flight, limits 1 and 2, a window of 3 units, 2 failures or restarts, one deletion of the key; 293,000 states | `TwiceTheLimit`, `UndisturbedExpires` |
| `PriceEngine` | 2 tokens, 2 raw events of three kinds, 2 trades, a day and a key's life of one tick each, 1 failure or restart; 1.6 million states, 75 seconds | `BookMatchesEvents`, `CachedIsSnapshot`, `VolumeCountsWindow`, `NoOlderThanBoth` |
| `MarketListing` | 4 markets, one not admitted, one traded under two ids, two traded in one minute, or fewer with the order of two changed; 2 a page, offsets 0 to 2, 1 change of the tables, 1 other request, 1 failure; 205,000 states, 52 seconds | `PagesListMarketsOnce`, `FilteredWalkIsExact` |

Type correctness is proved for every component (section 4). The runs of `MarketStreaming`,
`AggregatorFlush`, `PriceEngine` and `MarketListing` check it too.

**Why the bounds are enough for the cases that matter.** Channels of capacity 1 fill
with the second message, so drops, refused commands and blocked broadcasters all occur.
With two places in the channel of market commands, a browser's second command waits behind its first;
that this also holds with the commands of other browsers in between is not run: it follows
from the order of the channel. That several connections cannot get in each other's way on the channels is
proved for every set of connections (section 4), and so is the refinement, by which no command
sets another client's filter. Four endpoints let a benched one be skipped, let the whole
pool be benched, and bring the indexer to the frozen one by rotation; nine blocks give several
chunks, a short last one and a lagging head
after a rotation. Two failures exhaust two attempts, so the path that gives a batch up
and the one that retries both occur. Two trades are what it takes to have one arrive
during the flush of the other, to have two in one bucket, and to have a late one. Two
handlers with one key are what it takes for requests to overlap; four requests for a
key that is created, revoked, and then met by two others that overlap. The model's `Limit` is 1 instead of 100 so
that a list of two items has a seam. In `MarketStreaming` one crawl at a time is run
(over lists of either shape): crawls share nothing but Redis keys with the same values
and the topic, and the poll waits for all of them. One worker is run: workers share
nothing. In `PriceEngine` a trade and a book update in flight together are what it takes for
an old price to overwrite a new one, two updates to have them fetched in the wrong order, two
ticks of a one-tick day for a trade to expire, and one for a key to. In `Normalizer` an event of two trades can be
interrupted between them, the other consumer's append can meet its flush, and the market may be
mapped before, between or after. In `WalletStream` one log has two sides, so that one may be
reported and the other not, and a self-trade has both for one wallet; two requests change the
set before, between and after the tracker's two reads, in another spelling. Several logs meet
only in the reader's offsets; that no side is reported twice, and that what users ask decides,
is proved for every number of logs, requests and failures. In `MarketListing` a list of three
markets has a full page, a seam and a short last page, one change can fall between any
two queries or pages, one other request puts an older page into the cache, and two ids of one
minute can come in either order.

**What a property excludes, and why.** `EntriesAgreeWithRows` speaks of keys that are not
tainted, because the code has no transaction over its two stores; the taint ends with
the next undisturbed update, which the property therefore has to repair.
`DuplicatesExplained` allows a duplicate per insert that failed after taking effect.
`ReplayBounded` speaks of endpoints that are not frozen. `TrackedAsAsked` speaks of logs during
which no call failed and no restart came, since the tracker ignores errors; `WatchedTradeIsShown`
allows for a failure, a restart, a user who unwatches and a browser that turns away or is
dropped. `TradesAreFound` allows for the loss of all the market's metadata. `RevocationHolds`
speaks of revocations that overlapped no other request for the key when they came and whose Set succeeded: the code locks
nothing, so a creation or an update that is under way may write an active entry after them. `TwiceTheLimit`
counts what the limiter admits by its count, not what is served because Redis failed.
`NoOlderThanBoth` speaks of states in which both goroutines wait and neither's last write was lost: the
code writes after the unlock, so that the older of two prices may stay, but not one older than both; it
says nothing of a key that has expired, nor that the two keys agree, which they need not when
updates are fetched out of order. `FilteredWalkIsExact` speaks of walks by category, tag or series
whose pages were computed from the same tables (`Undisturbed`), because a cursor is an offset; a
walk by activity has no such property, because the order it counts in has ties.
`OnlyFrozenStops` names the one kind of endpoint that does stop ingestion (finding 1).

**Fairness.** Weak fairness on a goroutine's own steps: Go schedules a runnable goroutine,
and tickers fire. `StreamHub` has no fairness on failures, on browsers or on publishing;
a goroutine that waits for a channel is waiting for a step of another one that is fair.
Strong fairness stands where a step competes: a dial that is repeated until it succeeds
(the network is not down for ever), and an append that waits for a mutex that is free
again and again (Go's mutexes do not starve a waiter). In `WalletStream` the
tracker, the broadcaster and the hub's `select` are weakly fair, users and browsers are not; in
`Normalizer` discovery's write of the mapping is too. No liveness property assumes
that a store call succeeds: failures are bounded by a constant in `Normalizer`, `WalletStream`, `ApiKeys`
and `MarketStreaming`, and unbounded in `Aggregator`, where a flush gives up after its
attempts.

### Findings

1. **A provider that never moves stops ingestion** (`ingestion/main.go:479`, run
   `RpcIndexerFrozen`). A header that is not newer than the last block is skipped with `continue`: no error is
   counted, the cycle does not end and the endpoint is never benched, although another one is up.
   `rpc-failover-design.md:112-113` says that "a single bad provider can never permanently stop ingestion".
   `OnlyFrozenStops` shows that nothing else does.
2. **Candles that are sums** (`storage/main.go:278`, run `AggregatorCandles`).
   `price_history_1m` is a SummingMergeTree. The rows of one minute are merged by adding up open,
   high, low and close; the trace has two single-row inserts through `v_price_history_1m`, and the
   row gives prices nobody traded at. (The aggregator inserts rows for the same minutes,
   `ingestion/main.go:608`, so that a trade may be counted in both; the trace does not show that.)

Seen while modelling, and not given a run of their own:
- `keys.go:181` and `keys.go:267`: a creation, or an update that read the row before a revocation, writes
  its active entry to Redis after the revocation has written its own, and the key works again;
  `key-management.md:84` says that a revoked key "stops working immediately". `RevocationHolds` is what holds.
- `keys.go:298-313`: activating any string writes an active entry for it, without a plan, since an
  UPDATE of no row is no error: it passes Auth. So does a deleted key. After Redis was
  wiped the entry an activation writes has no tier and no limit (`PlansComeFromRows` is what holds).
- `rest.go:2446` lowers the address of an unwatch request but does not trim it, as `rest.go:2434`
  does when it is watched: with a space around it the answer is `"watching": false`
  (`api-reference.md:917-925`) and the wallet stays watched. `TrackedAsAsked` takes such a request for what it
  does: it names no watched wallet.
- `processor/main.go:326`, `:373`: when two writes of `live:price` cross, the older price stays until the next
  update or for two hours; `pmaxis.prices` may have the two in the wrong order as well.
  When book updates are fetched out of order, `live:price` and `pmaxis:orderbook` disagree until the next.
- `rest.go:305`: ORDER BY last_seen sorts minutes (`storage/main.go:289`) with no second column; two
  pages of a walk by activity may order a minute's markets differently, and so skip or repeat
  one although no table has changed. `next_cursor` is an offset in base64 (`rest.go:1826`), so that tables that change
  between two pages have the effect `api-improvements.md:9` describes as that of the old offsets.
- The indexer replays blocks after every reconnection, and nobody removes the copies: the tracker
  reports a replayed log again, and wallet summaries and `onchain_trades` count it again.
- A trade of a wallet with itself is a sell and a buy for the tracker, but one 'sell' in
  `GetWalletOnchain` (`rest.go:2547`).
- Until the rows stored under a condition are old, `GetTopMarkets` may list a market twice
  (it groups by the stored name and resolves afterwards), and `GetCandles` may give two bars
  for the minute in which the market was mapped. `GetRecentTrades` asks for one name only.
- `GetMarketPriceHistory` with resolution 5m reads a table nothing creates (`rest.go:788`), and with
  1s a column `close` that `market_metrics` does not have (`rest.go:798`).
- A failed Fetch makes the consumers of metadata, on-chain trades and order books insert a row of
  zero values (`storage/main.go:142-163`).
- `processor/main.go:117` ignores the error of SETNX; the trade is taken for a duplicate. Nothing
  but a log line depends on it.
- `keys.go:335` deletes without repeating the check of `keys.go:330`: a key activated in between
  is deleted while active, although `keys.go:320` calls the check a safety guard.
- `keys.go:291` drops the error of the Redis write: the answer is "key revoked" while Redis
  still holds an active entry.
- `keys.go:341-343` leave `usage:daily:*` behind; `key-management.md:86` says all Redis keys go.
- `ratelimit.go:53-56`: when Incr fails the request is served; one that took effect all the same counts, and
  if it was the first of its counter nobody gives the counter an expiry.
- `ratelimit.go:58`: if the one Expire fails, or the process stops before it, the counter never
  ends and the key stays blocked until an admin resets it; `key-management.md:172` gives the
  counter a TTL of about 60 s.
- `rest.go:267`: the latest markets are read without the offset. In a walk without category, tag
  and series, once the markets by activity are used up, every further page gives the same
  newest markets, `has_more` stays true, and older markets are never given;
  `api-improvements.md:9` and `:47` present the cursor as the cure for duplicates and
  `has_more: false` as the end.
- A query of the listing that fails is answered, and cached for 30 s, as the end of the list.
- Both tokens of a market write the same `pmaxis:orderbook` and `live:price` keys
  (`processor/main.go:245`, `:373`): the quotes there are those of the token that moved last.
  `price_changes` overwrite the whole book with one level per side, and leave the levels
  kept in memory as they were. A level of size "0.00" is not deleted.
- `rest.go:1489` and `:1494` read `price:` and `orderbook:` keys that nothing writes.
- The limiter's window is fixed; `api-growth-plan.md:8` calls it sliding. `TwiceTheLimit` is
  the bound that does hold.
- `ingestion/main.go:487` asks for 41 blocks; the comment at line 482 says 40.
- `ingestion/main.go:383` returns, when all endpoints are benched, perhaps the one that has
  just failed.
- A trade whose Fetch fails at its commit, or whose insert fails, is skipped with its error
  discarded, in every consumer (`storage/main.go:417`, `ingestion/main.go:619`).

## 4. What is proved

Proofs hold for every value of the constants that satisfies the modules' assumptions.

| Theorem | Module | Statement |
|---|---|---|
| `TypeCorrect` | `StreamHubProofs` | `Spec => []TypeOK` |
| `ChannelsAreSafe` | `StreamHubProofs` | `Spec => []ChannelSafety` |
| `DrainIsSafe` | `StreamHubProofs` | `Spec => []DrainNeverBlocks` |
| `OrderIsKept` | `StreamHubProofs` | `Spec => []PublicationOrder` |
| `PromiseIsKept` | `StreamHubProofs` | `Spec => ImplementsFanOut` |
| `TypeCorrect` | `IngestionProofs` | `Spec => []TypeOK` |
| `CycleIsInOrder` | `IngestionProofs` | `Spec => []CycleInOrder` |
| `BenchIsRespected` | `IngestionProofs` | `Spec => PicksFree` |
| `ReplaysAreShort` | `IngestionProofs` | `Spec => ReplayBounded` |
| `BucketsTypeCorrect` | `IngestionProofs` | `AggregatorSpec => []AggregatorTypeOK` |
| `EveryTradeCounts` | `IngestionProofs` | `AggregatorSpec => []TradesAccountedFor` |
| `BucketsAreSummaries` | `IngestionProofs` | `AggregatorSpec => []BucketsSummarize` |
| `TypesHold` | `MarketStreamingProofs` | `Spec => []TypeOK` |
| `CrawlsAreComplete` | `MarketStreamingProofs` | `Spec => []CrawlComplete` |
| `StreamedResolve` | `MarketStreamingProofs` | `Spec => []StreamedTokensResolve` |
| `TokensAreAskedFor` | `MarketStreamingProofs` | `Spec => []EveryTokenAskedFor` |
| `TypeCorrect` | `NormalizerProofs` | `Spec => []TypeOK` |
| `NothingIsLost` | `NormalizerProofs` | `Spec => []EventsAccountedFor` |
| `NothingStoredTwice` | `NormalizerProofs` | `Spec => []DuplicatesExplained` |
| `TypeCorrect` | `WalletStreamProofs` | `Spec => []TypeOK` |
| `NeverReportedTwice` | `WalletStreamProofs` | `Spec => []ReportedOnce` |
| `ReportsWhatUsersAsk` | `WalletStreamProofs` | `Spec => TrackedAsAsked` |
| `InboxesAreActivity` | `WalletStreamProofs` | `StreamSpec => []InboxIsActivity` |
| `TypesHold` | `PriceEngineProofs` | `Spec => []TypeOK` |
| `LevelsAreRight` | `PriceEngineProofs` | `Spec => []BookMatchesEvents` |
| `VolumeIsRight` | `PriceEngineProofs` | `Spec => []VolumeCountsWindow` |
| `CachedIsOneState` | `PriceEngineProofs` | `Spec => []CachedIsSnapshot` |
| `OneIsTheLast` | `PriceEngineProofs` | `Spec => []NoOlderThanBoth` |
| `TypeCorrect` | `ApiProofs` | `Spec => []TypeOK` |
| `PlansAreFromRows` | `ApiProofs` | `Spec => []PlansComeFromRows` |
| `EntriesAgree` | `ApiProofs` | `Spec => []EntriesAgreeWithRows` |
| `RevokedStaysRevoked` | `ApiProofs` | `Spec => []RevocationHolds` |
| `LimiterTypeCorrect` | `ApiProofs` | `LimiterSpec => []LimiterTypeOK` |
| `AtMostTwice` | `ApiProofs` | `LimiterSpec => []TwiceTheLimit` |
| `ListingTypeCorrect` | `ApiProofs` | `ListingSpec => []ListingTypeOK` |
| `NoMarketTwice` | `ApiProofs` | `ListingSpec => []PagesListMarketsOnce` |
| `FilteredWalks` | `ApiProofs` | `ListingSpec => []FilteredWalkIsExact` |

*Channels.* `ChannelSafety` alone is not inductive: a registration could bring back a client
whose channel is closed. `Lifecycle` adds that a client is registered at most once, that
is, that the hub's map and the closed flag follow the position of the client's reader:
nobody is in the map, and no channel is closed, before the hub has taken the client, and
whoever is in the map has an open channel. `DrainIsSafe` needs only that the pump's own
receives shorten its buffer, and that the hub only ever appends to it.

*The promise.* `PromiseIsKept` is the refinement. `Delivery` is what the mapping needs beyond
the types: each of the two channels carries the messages it is for, and `writePump` has no
frame open when it takes the first message of the next, nor runs before the hub took the
client. The pumps then map to stuttering steps, because moving the oldest buffered message
to the end of the frame leaves their concatenation as it was; a broadcaster's send maps to
Publish, and each case of the `select` to Join, Leave, SetMarkets, SetWallets, Deliver, or,
for a client that is gone, to nothing.

*Order.* An inbox alone would not say that what comes next is newer. `OrderInv` therefore follows the
ids from the counter on: each hub channel rises up to the last id published, and what of a
kind is still in its channel is newer than all of that kind in any inbox (`NewerThan`).
Taking a message from the channel to the inboxes keeps both halves.

*Blocks.* `CycleInOrder` says that the blocks processed since the start of the cycle are
`start + 1 .. lastBlock`. `CycleInv` adds what the goroutine knows between its calls: the
range in flight starts right after the last block, and ends at or before the head it was
computed from, also after a failed call. The step that finishes a chunk is then the
concatenation of two adjacent ranges, stated as a lemma on sequences. Type correctness
is part of the same invariant.

*Replays.* How far a cycle reaches back depends on the head its endpoint reported and on the highest block
ever processed; `ProcessedExist` says that this is a block the chain has.

*The bench.* `pick` walks the pool once; the lemma `OnceAround` says that the offsets from any
index reach every endpoint, so that finding none free means that all are benched.

*Tokens.* `ConnectionInv` says that nothing is connected outside `connect` and `readLoop`, that
`AddToken` asks a connection being set up for tokens of the worker only, and that the
client `readLoop` reads from is the latest connection. Then `Connect` asks for all the tokens,
and an `AddToken` after it for its own.

*The trail.* A token is streamed long after its market was mapped. `TrailInv` says, for every stop on
the way (a crawl about to publish, the topic, the manager's list, the worker's tokens, those asked for on
the wire), that the market of what is there is mapped, or a Redis call for it has failed.

*Crawls.* `CrawlInv`: while a list does not change and nothing fails, what a crawl has met and what is left
of its page are the items before its offset (the page in hand included), laid flat; and a
crawl ends only behind the last item. A page is a segment of the list, and `FlattenSeq` of two
adjacent segments is the concatenation of both (`FlattenParts`).

*Plans.* `PlansComeFromRows` speaks of Redis and of the keys ever inserted; between the INSERT and
the Set only the handler's local variables link the two. `Jobs` says what they hold: keys
that were issued, or strings an admin typed; a plan the table admits, where a row is about to be
written from it; a plan for Redis only with an issued key; and, for a rotation about to write its new entry,
the old key. `Exec`, `Set` and a handler's move get a lemma each, so that every action is a short instance of them.

*Agreement.* That Redis agrees with the table holds only between handlers. `AgreeInv` says of
every untainted key that at most one handler works on it (`Unharmed`), that row and entry
match when none does, and, when one does, what its code counts on at the call it is at
(`Right`): before the Set, that the row is the one it writes. A second handler on the key
taints it, and so does a call that fails. A rotation works on two keys, which must differ (`TwoKeys`).

*Revocations.* `RevokedInv` says of a revoked key that its row is off as well as its entry, and that no handler
that works on it holds an active row or entry for it (`Quiet`): what began before the revocation
is over, since the revocation was alone with the key, and what begins later reads a row that is
off. Of a revocation under way (`Revoking`) it says that, alone with its key, it has switched the row off.

*Reports.* `ReaderInv` says that the log in hand was taken and is committed, so that a reader that
starts again never hands it out again; `ReportsInv` that whatever was reported was committed, and
that no report is there twice; `SidesInv` that the sides still to be reported are distinct. With
`Unreported` (a side still to come has not been published) every append keeps "once". What users
ask is `AskInv` (where nothing is in doubt, the set in Redis is what was asked for) and `HandInv`:
the wallets steadily asked for are in the set at both reads, those that are not `seen` at neither,
and, as long as the log is undisturbed, each steady side is among those to come or among the
reports, under the market's id if it was known. `TrackedAsAsked` is that at the step that finishes the
log.

*Inboxes.* `StreamInv` says that whatever is in the hub's topic or an inbox was made of an activity the
broadcaster was handed and did not skip, and that no message is on its way twice: in the
topic, in an inbox, or in both. The activity it was made of is then one report of the tracker.

*Types of the normalizer and of the limiter.* The parts of the types that are not immediate: `part`
is a trade of the event in hand only because it is 1 while no event is, and `ambiguous` is bounded only
because it never exceeds the failures. For the limiter that no expiry outlives its counter.

*Events.* `EventsAccountedFor` speaks of the committed events only, and a commit adds more than one
when an earlier one had failed. `Passed` says that every event the reader has passed is
committed, missed, or in the hand that is about to commit it, so that the new ones are the one in
hand, which its consumer then holds, and missed ones. `BatchIsBuffer` says that a flush writes, and
then clears, the same events, since the mutex kept the buffer as it was; `DirectApart` that an
event that must be in its own table is never among them. Then every step but a commit keeps what
is `Held` (in flight, buffered, given up or stored), which is one lemma for all of them.

*Once.* `DuplicatesExplained` counts rows, which go up after the event has left the reader. `CommitFirst` says
that an event is committed before anything is done with it and never read again after;
`StoredOnce`, of each trade, that what is still to be appended, inserted or published has not been,
and that of a trade in the buffer, which is there once, only inserts that failed after taking effect
have stored anything.

*Windows.* `Counted(a, b)` says that the latest `a` admissions were counted on the counter there is and the
`b` before them on the one before, neither more than the limit. What is older than the counter is
as old as its expiry has been running; so when the expiry is over, all that is a minute old, and
the counter becomes the one before. A late Expire of an earlier window only starts that span
again.

*Prices.* `Typed` needs to know that the volume is the sum of the points kept, or it might not be a number.
`WindowInv`: the points kept are the last ones of all trades, oldest first, and those taken out are
older than a day. `SnapshotInv`: what a worker holds between its unlock and its write is one
state there was, so what it publishes and writes is too. `BothInv`: a worker holds its last update until it
is written or lost, and as long as there is a price in Redis, one of the two last updates is there, or is
still held, or was lost. The constant `Price` is assumed finite: prices are floating-point numbers.

*Buckets.* `FlushInv` is the types, the balance of `TradesAccountedFor` (in the maps, in flight, in the tables, given up;
less what ambiguous inserts stored again), and what makes counts add up: no two buckets of a map or of a
flush have one key, and a bucket's count is a number. An update, a swap of the maps and an insert then
move summands, which are lemmas on sums over finite sets. `SummaryInv`: a bucket in the map
stands for the trades of its key from some one to the last, a bucket in a flush for consecutive ones; its
open, high, low, close, volume and count are those of that segment, which one more trade extends.

*Pages.* `ListingInv` is the types with two facts more: the rows of `market_metadata` have no market
twice, which a row stored again keeps because it moves, and a request has no page before its first
query. A filter, a prefix and a suffix keep a list free of repetitions; the ids of the trades
become markets at their first place only; and the latest markets are appended without those of the page.

*Walks.* `ExactInv` says of each page of a walk by category, tag or series, cached, on its way or got by the
walker, that if its query saw the tables `asOf`, it is the page of these tables at its offset (`Filtered`); that the
walker asks for the offset behind the pages it has; and of a walk whose pages all have the same `asOf`,
that it has given the first `Cursor` of the markets admitted. The page at the cursor then extends a
prefix (`TakeThenMore`). After a change no walk that has begun is one of the
new tables, since its pages are older.

*Data.* The library's induction theorems cannot be used (their operator parameter cannot be
instantiated by the provers), so `DataLemmas` does induction over sets of numbers: a number
missing from a set that has 0 and all successors would have a least one. The recursive functions inside `Filter`,
`FlattenSeq` and `SumFunctionOnSet` are reached by showing that a function with their equation exists, and
that two such functions agree. `Filter` and the lists of `MarketListing` are therefore written as recursive functions.

**Only model-checked:** the liveness properties, since fairness and ENABLED are out of the prover's reach:
`ConnectionReclaimed`, `BufferedIsDelivered`, `CommandTakesEffect`, `OnlyFrozenStops`,
`EveryMarketStreamed`, `EveryEventSettled`, `TradesAreFound`, `WatchedTradeIsShown`, `TradesSettle` and
`UndisturbedExpires`. Every other property of a passing run is a theorem. That a queued command of one
browser takes effect whatever other browsers have in the queue is neither run nor proved.

## 5. What is not modelled, and why

- The trade engine does nothing after its SETNX but write a log line; the analyzer keeps one
  average per market, read and written by one goroutine, and compares numbers with thresholds.
- The other REST queries (events, search, health, lists of tags): read-only SQL and JSON, with
  cache entries that are filled and expire as those of GetMarkets.
- The API's broadcasters restart with the API: browsers are disconnected then, and the hub is empty.
- Retries inside the Kafka writer, which may publish a message twice although the call succeeds.
- Payloads, JSON, hashes, IP parsing, headers, logging and DDL: no state or no property
  about them. Kafka, Redis, Postgres, ClickHouse, Polymarket and the RPC providers are
  modelled by what the code observes of them (an order, a commit, a result that may be
  an error after taking effect).
- SIGTERM is a restart: no component flushes on it.
- Several replicas of a service: the compose files run one of each.

## 6. Plan

1. *Done:* hub, indexer, workers with discovery, normalizer with its direct consumers and the market
   queries, aggregator, keys, limiter, order-book and price engines, market listing, wallet
   tracker and its way to the browser.
2. *Done:* a proof of every safety property the passing runs check, and of the refinement.
   Left are the safety facts that liveness rests on (while nothing failed a counter has an expiry or a
   request about to set it; a trade that is stored under a condition is found once its market is mapped).
3. Composition of normalizer and aggregator along `pmaxis.trades.live`, and an abstract
   specification of a price cache that `PriceEngine` implements.
