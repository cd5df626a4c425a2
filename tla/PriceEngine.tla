---------------------------- MODULE PriceEngine ----------------------------
(***************************************************************************)
(* The processor's order-book and price engines for one market, and the    *)
(* two Redis keys the API serves from them: services/processor/main.go.    *)
(*                                                                         *)
(* The order-book engine is one goroutine: it keeps the levels of every    *)
(* token, publishes an update and then overwrites the book key.  The price *)
(* engine is two goroutines, one for trades and one for book updates.      *)
(* They share the market's price state under a mutex, but publish a price  *)
(* to pmaxis.prices, which ws/broadcaster.go fans out to browsers, and     *)
(* overwrite the price key after unlocking, from what they copied.         *)
(*                                                                         *)
(* Kafka: a consumer commits before it works, and the topics have six      *)
(* partitions filled without regard to keys, so updates may be fetched in  *)
(* any order.  Redis drops a key two hours after it was written.  Prices   *)
(* are positive integers, finitely many as between 0 and 1 in ticks; 0     *)
(* stands for a quote that is missing, and a mid price is kept doubled.    *)
(***************************************************************************)
EXTENDS Integers, Sequences, FiniteSets, SequencesExt

CONSTANTS
  Token,       \* the market's tokens
  Price,       \* prices
  Feed,        \* the raw events the exchange may send
  Trade,       \* the trades that may happen, records of a price and a size
  Day,         \* the 24 hours of Volume24h, in ticks
  KeyLife,     \* the 2 hours Redis keeps a key, in ticks
  MaxEvents,   \* bound: raw events
  MaxTrades,   \* bound: trades
  MaxFaults    \* bound: publishes and Redis writes that fail, and restarts

Change == [Price -> {"absent", "set", "gone"}]
LevelsEvent == [kind : {"levels"}, token : Token, reset : BOOLEAN, bids : Change, asks : Change]
Quote == [token : Token, bid : Price \cup {0}, ask : Price \cup {0}]
ChangesEvent == [kind : {"changes"}, quotes : Seq(Quote)]

ASSUME PriceAssumption == Price \subseteq Nat \ {0} /\ IsFiniteSet(Price)
ASSUME FeedAssumption  == Feed \subseteq LevelsEvent \cup ChangesEvent
ASSUME TradeAssumption == Trade \subseteq [price : Price, size : Nat]
ASSUME BoundAssumption == KeyLife \in Nat \ {0} /\ {Day, MaxEvents, MaxTrades, MaxFaults} \subseteq Nat

Worker == {"trader", "quoter"}   \* the goroutines of the price engine
Key == {"book", "price"}

VARIABLES
  book,      \* obs: the levels of every token
  handled,   \* the raw events handled since the last restart
  sending,   \* the updates the order-book engine has still to get rid of
  stored,    \* whether the first of them has been published
  newest,    \* number of book updates so far
  updates,   \* topic pmaxis.orderbook.updates: what the price engine has not fetched
  bookKey,   \* Redis pmaxis:orderbook:{market}, <<>> or one quote
  left,      \* what each of the two keys has left to live, 0 if it is gone
  quote,     \* MarketPriceState.BestBid and BestAsk
  last,      \* MarketPriceState.LastTradePrice
  volume,    \* MarketPriceState.Volume24h
  points,    \* MarketPriceState.trades
  traded,    \* every trade since the last restart, with its age
  history,   \* the price states there have been, one per locked section
  pricing,   \* the update each worker holds, <<>> when it is about to fetch
  published, \* the workers that have published the update they hold
  prices,    \* topic pmaxis.prices: all that was published
  priceKey,  \* Redis live:price:{market}, <<>> or one update
  mine,      \* the version of the last update of each worker, 0 before the first
  unwritten, \* the workers whose last update a failure or a crash kept from Redis
  events, trades, faults    \* counters

engineVars == <<book, handled, sending, stored, newest, bookKey>>
stateVars  == <<quote, last, volume, points, traded, history>>
priceVars  == <<pricing, published, prices, priceKey, mine, unwritten>>
counters   == <<events, trades, faults>>
vars == <<engineVars, stateVars, updates, left, priceVars, counters>>

NoQuote == [bid |-> 0, ask |-> 0]
EmptyBook == [t \in Token |-> [bids |-> {}, asks |-> {}]]

Init ==
  /\ book = EmptyBook /\ handled = <<>> /\ sending = <<>> /\ stored = FALSE
  /\ newest = 0 /\ updates = {} /\ bookKey = <<>> /\ left = [k \in Key |-> 0]
  /\ quote = NoQuote /\ last = 0 /\ volume = 0 /\ points = <<>> /\ traded = <<>>
  /\ history = <<>>
  /\ pricing = [w \in Worker |-> <<>>] /\ published = {} /\ prices = {} /\ priceKey = <<>>
  /\ mine = [w \in Worker |-> 0] /\ unwritten = {}
  /\ events = 0 /\ trades = 0 /\ faults = 0

---------------------------------------------------------------------------
(* Mutated forms of definitions below: plausible bugs, each used in place  *)
(* of its original to show that a property would notice it.                *)

\* a snapshot merged into the levels instead of replacing them
KeptLevels(e) == book[e.token]

\* a window that forgets a trade at 24 hours instead of after them
ExpiredEarly(ps) == {i \in DOMAIN ps : \A j \in 1..i : ps[j].age >= Day}

\* best bid and ask read again after the unlock
ReadAgain(w) == <<[pricing[w][1] EXCEPT !.bid = quote.bid, !.ask = quote.ask]>>

\* a quote that has one of its sides taken for one that has both
OneSided(q) == q.bid > 0 \/ q.ask > 0

\* a price that is written only if there is none, SETNX for SET
FirstOnly(w) == IF priceKey = <<>> THEN pricing[w] ELSE priceKey

---------------------------------------------------------------------------
(* The order-book engine.                                                  *)

\* applyLevels on one side: size 0 deletes a level, another size sets it.
ApplyLevels(levels, change) ==
  {p \in Price : change[p] = "set" \/ (p \in levels /\ change[p] = "absent")}

\* The maps a "book" or "snapshot" event starts from are new ones.
StartLevels(e) == IF e.reset THEN [bids |-> {}, asks |-> {}] ELSE book[e.token]

\* getTopLevels: the first of the bids, sorted downwards, and of the asks, upwards.
BestBid(levels) == IF levels = {} THEN 0 ELSE Max(levels)
BestAsk(levels) == IF levels = {} THEN 0 ELSE Min(levels)

\* The changes one by one: one without a bid and an ask is skipped.
Quoted(quotes) ==
  LET quoted[i \in 0..Len(quotes)] ==
        IF i = 0 THEN <<>>
        ELSE IF quotes[i].bid = 0 /\ quotes[i].ask = 0 THEN quoted[i - 1]
        ELSE Append(quoted[i - 1], quotes[i])
  IN  quoted[Len(quotes)]

\* An event with price_changes passes quotes on and leaves the levels alone.
FetchChanges(e) ==
  /\ e.kind = "changes"
  /\ sending' = Quoted(e.quotes)
  /\ UNCHANGED book

\* Any other event changes the levels of its token and passes on the best ones.
FetchLevels(e) ==
  /\ e.kind = "levels"
  /\ LET start == StartLevels(e)
         bids  == ApplyLevels(start.bids, e.bids)
         asks  == ApplyLevels(start.asks, e.asks)
     IN  /\ book' = [book EXCEPT ![e.token] = [bids |-> bids, asks |-> asks]]
         /\ sending' = <<[token |-> e.token, bid |-> BestBid(bids), ask |-> BestAsk(asks)]>>

FetchRaw ==
  /\ sending = <<>> /\ events < MaxEvents
  /\ \E e \in Feed : /\ FetchChanges(e) \/ FetchLevels(e)
                     /\ handled' = Append(handled, e)
  /\ events' = events + 1
  /\ UNCHANGED <<stored, newest, updates, bookKey, left, stateVars, priceVars, trades, faults>>

MayFail == faults < MaxFaults /\ faults' = faults + 1

\* producer.Publish and rdb.Set, whose errors are ignored
PublishBook ==
  /\ sending # <<>> /\ ~stored
  /\ stored' = TRUE
  /\ newest' = newest + 1
  /\ \/ /\ updates' = updates \cup {[id |-> newest', quote |-> Head(sending)]}
        /\ UNCHANGED faults
     \/ (MayFail /\ UNCHANGED updates)
  /\ UNCHANGED <<book, handled, sending, bookKey, left, stateVars, priceVars, events, trades>>

SetBook ==
  /\ sending # <<>> /\ stored
  /\ stored' = FALSE
  /\ sending' = Tail(sending)
  /\ \/ bookKey' = <<Head(sending)>> /\ left' = [left EXCEPT !["book"] = KeyLife] /\ UNCHANGED faults
     \/ MayFail /\ UNCHANGED <<bookKey, left>>
  /\ UNCHANGED <<book, handled, newest, updates, stateVars, priceVars, events, trades>>

---------------------------------------------------------------------------
(* The price engine.                                                       *)

Idle(w) == pricing[w] = <<>>
AllIdle == \A w \in Worker : Idle(w)

Mid(bid, ask, price) == IF bid > 0 /\ ask > 0 THEN bid + ask ELSE 2 * price

\* A locked section: the state it leaves is the next version, and the worker
\* goes on with a copy.
Locked(w) ==
  LET state == [bid |-> quote'.bid, ask |-> quote'.ask, last |-> last', volume |-> volume']
  IN  /\ history' = Append(history, state)
      /\ pricing' = [pricing EXCEPT ![w] =
           <<[version |-> Len(history'), bid |-> state.bid, ask |-> state.ask, last |-> last',
              volume |-> volume', mid |-> Mid(state.bid, state.ask, last')]>>]
      /\ mine' = [mine EXCEPT ![w] = Len(history')]
      /\ unwritten' = unwritten \ {w}

\* what the first i of the trades add up to, for every i
Totals(ps) ==
  LET total[i \in 0..Len(ps)] == IF i = 0 THEN 0 ELSE total[i - 1] + ps[i].value
  IN  total
Sum(ps) == Totals(ps)[Len(ps)]

\* the trades at the front that are older than a day
Expired(ps) == {i \in DOMAIN ps : \A j \in 1..i : ps[j].age > Day}

FetchTrade ==
  /\ Idle("trader") /\ trades < MaxTrades
  /\ \E t \in Trade :
       LET all  == Append(points, [age |-> 0, value |-> t.price * t.size])
           cut  == Cardinality(Expired(all))
       IN  /\ last' = t.price
           /\ points' = SubSeq(all, cut + 1, Len(all))
           /\ volume' = (volume + t.price * t.size) - Sum(SubSeq(all, 1, cut))
           /\ traded' = Append(traded, [age |-> 0, value |-> t.price * t.size])
  /\ UNCHANGED quote
  /\ Locked("trader")
  /\ trades' = trades + 1
  /\ UNCHANGED <<engineVars, updates, left, published, prices, priceKey, events, faults>>

TwoSided(q) == q.bid > 0 /\ q.ask > 0

\* An update without a bid or without an ask is dropped.
FetchUpdate ==
  /\ Idle("quoter")
  /\ \E u \in updates :
       /\ updates' = updates \ {u}
       /\ IF TwoSided(u.quote)
          THEN /\ quote' = [bid |-> u.quote.bid, ask |-> u.quote.ask]
               /\ UNCHANGED <<last, volume, points, traded>>
               /\ Locked("quoter")
          ELSE UNCHANGED <<stateVars, pricing, mine, unwritten>>
  /\ UNCHANGED <<engineVars, left, published, prices, priceKey, counters>>

\* Both the topic and the key get what the worker copied.
Written(w) == pricing[w]

PublishPrice(w) ==
  /\ ~Idle(w) /\ w \notin published
  /\ published' = published \cup {w}
  /\ \/ prices' = prices \cup Range(Written(w)) /\ UNCHANGED faults
     \/ MayFail /\ UNCHANGED prices
  /\ UNCHANGED <<engineVars, stateVars, updates, left, pricing, priceKey, mine, unwritten, events, trades>>

\* What Redis is given for the price key.
Cached(w) == Written(w)

SetPrice(w) ==
  /\ w \in published
  /\ published' = published \ {w}
  /\ pricing' = [pricing EXCEPT ![w] = <<>>]
  /\ \/ priceKey' = Cached(w) /\ left' = [left EXCEPT !["price"] = KeyLife] /\ UNCHANGED <<faults, unwritten>>
     \/ MayFail /\ unwritten' = unwritten \cup {w} /\ UNCHANGED <<priceKey, left>>
  /\ UNCHANGED <<engineVars, stateVars, updates, prices, mine, events, trades>>

---------------------------------------------------------------------------
(* Time and restarts.                                                      *)

Older(ps) == [i \in DOMAIN ps |-> [ps[i] EXCEPT !.age = IF @ > Day THEN @ ELSE @ + 1]]

\* A key is gone when its time is up.
Alive(key, name) == IF left[name] <= 1 THEN <<>> ELSE key

Tick ==
  /\ points' = Older(points) /\ traded' = Older(traded)
  /\ left' = [k \in Key |-> IF left[k] = 0 THEN 0 ELSE left[k] - 1]
  /\ bookKey' = Alive(bookKey, "book") /\ priceKey' = Alive(priceKey, "price")
  /\ UNCHANGED <<book, handled, sending, stored, newest, quote, last, volume, history, updates,
                 pricing, published, prices, mine, unwritten, counters>>

\* What the processor keeps in memory is gone, and so are the event, the trade
\* and the update it was working on: their offsets are committed.
Crash ==
  /\ MayFail
  /\ book' = EmptyBook /\ handled' = <<>> /\ sending' = <<>> /\ stored' = FALSE
  /\ quote' = NoQuote /\ last' = 0 /\ volume' = 0 /\ points' = <<>> /\ traded' = <<>>
  /\ unwritten' = unwritten \cup {w \in Worker : ~Idle(w)}
  /\ pricing' = [w \in Worker |-> <<>>] /\ published' = {}
  /\ UNCHANGED <<newest, updates, bookKey, left, history, prices, priceKey, mine, events, trades>>

Next ==
  \/ FetchRaw \/ PublishBook \/ SetBook
  \/ FetchTrade \/ FetchUpdate
  \/ \E w \in Worker : PublishPrice(w) \/ SetPrice(w)
  \/ Tick \/ Crash

Spec == Init /\ [][Next]_vars

---------------------------------------------------------------------------
(* Properties.                                                             *)

State == [bid : Price \cup {0}, ask : Price \cup {0}, last : Price \cup {0}, volume : Nat]
Update == [version : 1..Len(history), bid : Price \cup {0}, ask : Price \cup {0},
           last : Price \cup {0}, volume : Nat, mid : Nat]
Point == [age : 0..(Day + 1), value : Nat]
AtMostOne(S) == {s \in Seq(S) : Len(s) <= 1}

\* Every variable has its type; a market has both quotes or none.
TypeOK ==
  /\ book \in [Token -> [bids : SUBSET Price, asks : SUBSET Price]]
  /\ handled \in Seq(Feed) /\ sending \in Seq(Quote) /\ stored \in BOOLEAN
  /\ newest \in Nat
  /\ \A u \in updates : u.id \in 1..newest /\ u.quote \in Quote
  /\ bookKey \in AtMostOne(Quote)
  /\ left \in [Key -> 0..KeyLife]
  /\ quote \in {NoQuote} \cup [bid : Price, ask : Price]
  /\ last \in Price \cup {0} /\ volume \in Nat
  /\ points \in Seq(Point) /\ traded \in Seq(Point)
  /\ history \in Seq(State)
  /\ pricing \in [Worker -> AtMostOne(Update)] /\ published \in SUBSET Worker
  /\ prices \in SUBSET Update /\ priceKey \in AtMostOne(Update)
  /\ mine \in [Worker -> 0..Len(history)] /\ unwritten \in SUBSET Worker
  /\ events \in 0..MaxEvents /\ trades \in 0..MaxTrades
  /\ faults \in 0..MaxFaults

Sets(e, t, side, p)   == e.kind = "levels" /\ e.token = t /\ e[side][p] = "set"
Clears(e, t, side, p) == /\ e.kind = "levels" /\ e.token = t
                         /\ e[side][p] = "gone" \/ (e.reset /\ e[side][p] = "absent")

\* The levels kept for a token are those some event since the restart set and
\* no later event took away, by size 0 or by a snapshot without them; the
\* events of the market's other token have no part in it (main.go:211-227).
BookMatchesEvents ==
  \A t \in Token, side \in {"bids", "asks"}, p \in Price :
    p \in book[t][side] <=>
      \E i \in DOMAIN handled :
        /\ Sets(handled[i], t, side, p)
        /\ \A j \in (i + 1)..Len(handled) : ~Clears(handled[j], t, side, p)

IsSnapshot(u) ==
  LET s == history[u.version]
  IN  /\ <<u.bid, u.ask, u.last, u.volume>> = <<s.bid, s.ask, s.last, s.volume>>
      /\ u.mid = Mid(s.bid, s.ask, s.last)

\* What live:price holds, and whatever went to pmaxis.prices, is one state of
\* the market: bid, ask, last price, volume and mid belong together, though it
\* was sent after the unlock while the other goroutine went on (main.go:291-326,
\* 350-373).
CachedIsSnapshot == \A u \in prices \cup Range(priceKey) : IsSnapshot(u)

\* Volume24h is what the kept trades add up to; only trades older than a day
\* have been taken out, and right after a trade all of those have (main.go:293-302).
VolumeCountsWindow ==
  /\ volume = Sum(points)
  /\ LET cut == Len(traded) - Len(points)
     IN  /\ points = SubSeq(traded, cut + 1, Len(traded))
         /\ \A i \in 1..cut : traded[i].age > Day
  /\ points # <<>> /\ Last(points).age = 0 => \A i \in DOMAIN points : points[i].age <= Day

\* A goroutine may overwrite the newer price of the other one, and live:price
\* then stays behind the market; but when both wait for input and neither lost
\* its last write, what is left of it is the last price of one of the two: no
\* price is served that both have gone past (main.go:303-326, 350-373).
NoOlderThanBoth ==
  AllIdle /\ unwritten = {} /\ priceKey # <<>> => \E w \in Worker : priceKey[1].version = mine[w]
===========================================================================
