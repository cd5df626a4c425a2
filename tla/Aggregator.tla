----------------------------- MODULE Aggregator -----------------------------
(***************************************************************************)
(* The aggregator of services/ingestion: a consumer of the live trades     *)
(* adds every trade to a one-second and to a one-minute bucket under a     *)
(* mutex, and for either map a goroutine swaps the map for an empty one    *)
(* under the mutex and flushes the old one outside it, with retries.  The  *)
(* normalizer of services/storage inserts the same trades into the table   *)
(* trades, whose materialized view writes to price_history_1m as well.     *)
(*                                                                         *)
(* A table is a bag of rows.  A tick may come at any time.                 *)
(***************************************************************************)
EXTENDS Lists, FiniteSets, Bags, FiniteSetsExt, SequencesExt

CONSTANTS
  Histories,     \* sequences of trades that may happen: records market,
                 \* second, price, size
  Minute,        \* seconds per minute (60)
  MaxAttempts,   \* DefaultOptions().MaxAttempts (3)
  MaxAmbiguous,  \* bound: inserts that fail and take effect all the same
  MaxCrashes     \* bound: times the process restarts

Table == {"market_metrics", "price_history_1m"}

Fields == {"market", "second", "price", "size"}

Trade     == UNION {ToSet(h) : h \in Histories}
MaxTrades == Max({Len(h) : h \in Histories})

ASSUME TradeAssumption ==
  /\ Histories # {} /\ IsFiniteSet(Histories) /\ Histories \subseteq Seq(Trade)
  /\ \A tr \in Trade : /\ DOMAIN tr = Fields
                       /\ tr.second \in Nat /\ tr.price \in Nat \ {0} /\ tr.size \in Nat \ {0}
ASSUME BoundAssumption == /\ Minute \in Nat \ {0} /\ MaxTrades \in Nat
                          /\ MaxAttempts \in Nat \ {0}
                          /\ MaxAmbiguous \in Nat /\ MaxCrashes \in Nat

VARIABLES
  published,  \* pmaxis.trades.live
  inserted,   \* number of them the normalizer has tried to insert into trades
  fetched,    \* those of them the aggregator has fetched
  hand,       \* the one its loop works on; 0 for none
  connected,  \* ch # nil
  live,       \* per table, its map: buckets or agg1m
  flight,     \* per table, current: the buckets being flushed
  attempt,    \* per table, attempt of retry.Do; 0 while its goroutine waits
  rows,       \* per table, its rows
  crashes,
  counted,    \* history: the trades added to the maps, in order
  viewed,     \* history: trades the view has written
  extra,      \* history: per table, trades in rows of inserts that failed
  lost        \* history: per table, trades in buckets given up

source  == <<published, inserted, viewed>>
loop    == <<fetched, hand, counted>>
flusher == <<flight, attempt, extra, lost>>
aggregatorVars == <<source, loop, connected, live, flusher, rows, crashes>>

\* The trades that a set of buckets, and a bag of rows, stand for.
Count(bs) == SumFunction([b \in bs |-> b.count])
CountBag(bag) == SumFunction([r \in BagToSet(bag) |-> bag[r] * r.count])

Buckets(t) == {live[t][k] : k \in DOMAIN live[t]}

CountRows(t) == CountBag(rows[t])

AggregatorTypeOK ==
  /\ published \in Seq(Trade) /\ Len(published) <= MaxTrades
  /\ inserted \in 0..Len(published)
  /\ fetched \subseteq 1..Len(published)
  /\ hand \in fetched \cup {0}
  /\ connected \in BOOLEAN
  /\ \A t \in Table : /\ \A k \in DOMAIN live[t] : live[t][k].key = k
                      /\ \A b, c \in flight[t] : b.key = c.key => b = c
                      /\ IsABag(rows[t])
  /\ attempt \in [Table -> 0..MaxAttempts]
  /\ \A t \in Table : attempt[t] = 0 <=> flight[t] = {}
  /\ crashes \in 0..MaxCrashes
  /\ counted \in Seq(Trade)
  /\ viewed \in 0..MaxTrades
  /\ extra \in [Table -> Nat] /\ lost \in [Table -> Nat]

AggregatorInit ==
  /\ published = <<>>
  /\ inserted = 0
  /\ fetched = {}
  /\ hand = 0
  /\ connected \in BOOLEAN
  /\ live = [t \in Table |-> <<>>]
  /\ flight = [t \in Table |-> {}]
  /\ attempt = [t \in Table |-> 0]
  /\ rows = [t \in Table |-> EmptyBag]
  /\ crashes = 0
  /\ counted = <<>>
  /\ viewed = 0
  /\ extra = [t \in Table |-> 0]
  /\ lost = [t \in Table |-> 0]

---------------------------------------------------------------------------
(* Buckets                                                                 *)

Duration(t) == IF t = "market_metrics" THEN 1 ELSE Minute

Key(t, tr) == <<tr.market, tr.second \div Duration(t)>>

\* Mutated: a new bucket whose Low is not set
LowUnset(t, tr) ==
  [key |-> Key(t, tr), open |-> tr.price, high |-> tr.price, low |-> 0,
   close |-> 0, count |-> 0, volume |-> 0, weighted |-> 0]

\* The bucket of updateBucket for a key it meets first.
NewBucket(t, tr) ==
  [key |-> Key(t, tr), open |-> tr.price, high |-> tr.price, low |-> tr.price,
   close |-> 0, count |-> 0, volume |-> 0, weighted |-> 0]

Added(b, tr) ==
  [b EXCEPT !.count = @ + 1, !.volume = @ + tr.size, !.weighted = @ + tr.price * tr.size,
            !.high = IF tr.price > @ THEN tr.price ELSE @,
            !.low = IF tr.price < @ THEN tr.price ELSE @,
            !.close = tr.price]

UpdateBucket(m, t, tr) ==
  LET k == Key(t, tr)
      b == IF k \in DOMAIN m THEN m[k] ELSE NewBucket(t, tr)
  IN [l \in DOMAIN m \cup {k} |-> IF l = k THEN Added(b, tr) ELSE m[l]]

\* What a row holds of a bucket: the average price as its numerator, and no
\* weight in a candle.
RowOf(t, b) ==
  IF t = "market_metrics"
  THEN [key |-> b.key, count |-> b.count, volume |-> b.volume, weighted |-> b.weighted]
  ELSE [key |-> b.key, count |-> b.count, volume |-> b.volume,
        open |-> b.open, high |-> b.high, low |-> b.low, close |-> b.close]

RowsOf(t) == SetToBag({RowOf(t, b) : b \in flight[t]})

---------------------------------------------------------------------------
(* The normalizer and the tables                                           *)

\* The normalizer publishes a trade, once it is done with the one before.
TradeHappens(tr) ==
  /\ inserted = Len(published)
  /\ \E h \in Histories : IsPrefix(Append(published, tr), h)
  /\ published' = Append(published, tr)
  /\ UNCHANGED <<inserted, viewed, loop, connected, live, flusher, rows, crashes>>

\* v_price_history_1m of one inserted trade: its volume is size times price.
ViewRow(tr) ==
  [key |-> Key("price_history_1m", tr), count |-> 1, volume |-> tr.size * tr.price,
   open |-> tr.price, high |-> tr.price, low |-> tr.price, close |-> tr.price]

\* INSERT INTO trades, whose error is ignored.
InsertTrade ==
  /\ inserted < Len(published)
  /\ inserted' = inserted + 1
  /\ \/ /\ rows' = [rows EXCEPT !["price_history_1m"] = @ (+) SetToBag({ViewRow(published[inserted + 1])})]
        /\ viewed' = viewed + 1
     \/ UNCHANGED <<rows, viewed>>
  /\ UNCHANGED <<published, loop, connected, live, flusher, crashes>>

\* Two rows that are summed: price_history_1m is a SummingMergeTree ordered by
\* market_id and timestamp, so that every other column is added up.
Summed(r, s) ==
  [key |-> r.key, count |-> r.count + s.count, volume |-> r.volume + s.volume,
   open |-> r.open + s.open, high |-> r.high + s.high,
   low |-> r.low + s.low, close |-> r.close + s.close]

MergeRows ==
  \E r, s \in BagToSet(rows["price_history_1m"]) :
     LET pair == SetToBag({r}) (+) SetToBag({s})
     IN /\ r.key = s.key
        /\ pair \sqsubseteq rows["price_history_1m"]
        /\ rows' = [rows EXCEPT !["price_history_1m"] = (@ (-) pair) (+) SetToBag({Summed(r, s)})]
        /\ UNCHANGED <<source, loop, connected, live, flusher, crashes>>

---------------------------------------------------------------------------
(* The aggregator's loop                                                   *)

\* The topic has several partitions, and the producer's balancer spreads trades
\* over them: they may come in another order.  The offset is committed; a
\* failed commit makes the loop skip the trade.
Fetch ==
  /\ hand = 0
  /\ \E i \in DOMAIN published \ fetched :
       /\ fetched' = fetched \cup {i}
       /\ hand' \in {0, i}
  /\ UNCHANGED <<source, counted, connected, live, flusher, rows, crashes>>

Update ==
  /\ hand # 0
  /\ live' = [t \in Table |-> UpdateBucket(live[t], t, published[hand])]
  /\ counted' = Append(counted, published[hand])
  /\ hand' = 0
  /\ UNCHANGED <<source, fetched, connected, flusher, rows, crashes>>

---------------------------------------------------------------------------
(* The flush goroutine of a table                                          *)

\* Mutated: a connection looked for before the swap
DiscardNothing(t) ==
  /\ attempt[t] = 0 /\ live[t] # <<>> /\ ~connected
  /\ UNCHANGED aggregatorVars

\* Without a connection the buckets are swapped out and forgotten.
Discard(t) ==
  /\ attempt[t] = 0 /\ live[t] # <<>> /\ ~connected
  /\ live' = [live EXCEPT ![t] = <<>>]
  /\ lost' = [lost EXCEPT ![t] = @ + Count(Buckets(t))]
  /\ UNCHANGED <<source, loop, connected, flight, attempt, extra, rows, crashes>>

Tick(t) ==
  /\ attempt[t] = 0 /\ live[t] # <<>> /\ connected
  /\ flight' = [flight EXCEPT ![t] = Buckets(t)]
  /\ live' = [live EXCEPT ![t] = <<>>]
  /\ attempt' = [attempt EXCEPT ![t] = 1]
  /\ UNCHANGED <<source, loop, connected, extra, lost, rows, crashes>>

\* Mutated: a map that is emptied once its buckets are stored
SendThenEmpty(t) ==
  /\ attempt[t] > 0
  /\ rows' = [rows EXCEPT ![t] = @ (+) RowsOf(t)]
  /\ live' = [live EXCEPT ![t] = <<>>]
  /\ flight' = [flight EXCEPT ![t] = {}]
  /\ attempt' = [attempt EXCEPT ![t] = 0]
  /\ UNCHANGED <<source, loop, connected, extra, lost, crashes>>

Send(t) ==
  /\ attempt[t] > 0
  /\ rows' = [rows EXCEPT ![t] = @ (+) RowsOf(t)]
  /\ flight' = [flight EXCEPT ![t] = {}]
  /\ attempt' = [attempt EXCEPT ![t] = 0]
  /\ UNCHANGED <<source, loop, connected, live, extra, lost, crashes>>

\* Mutated: one attempt too many
NeverLast(t) == FALSE

LastAttempt(t) == attempt[t] >= MaxAttempts

\* PrepareBatch or Send fails, the latter perhaps after the rows are in; the
\* last failure is logged.
SendFails(t) ==
  /\ attempt[t] > 0
  /\ \/ UNCHANGED <<rows, extra>>
     \/ /\ extra["market_metrics"] + extra["price_history_1m"] < MaxAmbiguous
        /\ rows' = [rows EXCEPT ![t] = @ (+) RowsOf(t)]
        /\ extra' = [extra EXCEPT ![t] = @ + Count(flight[t])]
  /\ IF LastAttempt(t)
     THEN /\ flight' = [flight EXCEPT ![t] = {}]
          /\ lost' = [lost EXCEPT ![t] = @ + Count(flight[t])]
          /\ attempt' = [attempt EXCEPT ![t] = 0]
     ELSE /\ attempt' = [attempt EXCEPT ![t] = @ + 1]
          /\ UNCHANGED <<flight, lost>>
  /\ UNCHANGED <<source, loop, connected, live, crashes>>

---------------------------------------------------------------------------

\* The process restarts, and finds ClickHouse or not; on SIGTERM nothing is
\* flushed either.
Restart ==
  /\ crashes < MaxCrashes
  /\ crashes' = crashes + 1
  /\ hand' = 0
  /\ connected' \in BOOLEAN
  /\ live' = [t \in Table |-> <<>>]
  /\ flight' = [t \in Table |-> {}]
  /\ attempt' = [t \in Table |-> 0]
  /\ lost' = [t \in Table |-> lost[t] + Count(Buckets(t)) + Count(flight[t])]
  /\ UNCHANGED <<source, fetched, counted, extra, rows>>

Loop == Fetch \/ Update

Flush(t) == Discard(t) \/ Tick(t) \/ Send(t) \/ SendFails(t)

AggregatorNext ==
  \/ \E tr \in Trade : TradeHappens(tr)
  \/ InsertTrade
  \/ MergeRows
  \/ Loop
  \/ \E t \in Table : Flush(t)
  \/ Restart

AggregatorSpec == AggregatorInit /\ [][AggregatorNext]_aggregatorVars

\* The tickers tick and the goroutines keep running; a call to ClickHouse
\* returns, with whatever result.
AggregatorFairSpec == AggregatorSpec /\ \A t \in Table : WF_aggregatorVars(Flush(t))

---------------------------------------------------------------------------
(* Properties                                                              *)

\* The trades of s that belong to a bucket's key, in order.
Of(s, t, k) == Filter(s, {tr \in Trade : Key(t, tr) = k})

\* What a bucket says of its trades, in the order they arrived.
Summarizes(b, s) ==
  /\ s # <<>>
  /\ b.open = Head(s).price
  /\ b.close = Last(s).price
  /\ b.high = Max({s[i].price : i \in DOMAIN s})
  /\ b.low = Min({s[i].price : i \in DOMAIN s})
  /\ b.count = Len(s)
  /\ b.volume = SumFunction([i \in DOMAIN s |-> s[i].size])
  /\ b.weighted = SumFunction([i \in DOMAIN s |-> s[i].size * s[i].price])

\* A bucket, in the map or on its way to the table, holds the open, high, low,
\* close, volume and count of consecutive trades of its market and window,
\* wherever a flush or a restart cut them off from the ones before.
BucketsSummarize ==
  \A t \in Table : \A b \in Buckets(t) \cup flight[t] :
     LET s == Of(counted, t, b.key)
     IN \E i, j \in DOMAIN s : i <= j /\ Summarizes(b, SubSeq(s, i, j))

\* Neither the swap, nor a flush outside the mutex, nor a retry loses a trade
\* or counts it again: what was added to the maps is in the table, in the map,
\* in a flush, or in a batch given up, once for either table.
TradesAccountedFor ==
  \A t \in Table :
     Len(counted) + extra[t] + (IF t = "price_history_1m" THEN viewed ELSE 0)
       = CountRows(t) + Count(Buckets(t)) + Count(flight[t]) + lost[t]

\* The trades of a table that are stored or given up.
Settled(t) ==
  CountRows(t) + lost[t] - extra[t] - (IF t = "price_history_1m" THEN viewed ELSE 0)

\* Neither a missing connection nor a flush that keeps failing holds buckets up
\* for ever: every trade added to the maps is stored in the end, or given up.
TradesSettle ==
  \A t \in Table : \A n \in 1..MaxTrades : Len(counted) >= n ~> Settled(t) >= n

\* "1-Minute OHLCV Candles" (storage/main.go:266): a row of price_history_1m
\* gives prices its market was traded at in its minute, and counts no more
\* trades than there were.
CandlesAreTrue ==
  \A r \in BagToSet(rows["price_history_1m"]) :
     LET s == Of(published, "price_history_1m", r.key)
     IN /\ {r.open, r.high, r.low, r.close} \subseteq {s[i].price : i \in DOMAIN s}
        /\ r.count <= Len(s)

===========================================================================
