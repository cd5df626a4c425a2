----------------------------- MODULE Normalizer -----------------------------
(***************************************************************************)
(* The normalizer of services/storage: the consumer of raw WebSocket       *)
(* events, which resolves the market's id, publishes the event's trades,   *)
(* inserts them into the table trades and appends them to a buffer; the    *)
(* consumer of backfilled events, which only appends; the consumers that   *)
(* insert what they read directly (discovered markets, on-chain trades,    *)
(* order books); and the goroutine that flushes the buffer to events_raw,  *)
(* with retries (libs/retry-utils), holding the buffer's mutex all the     *)
(* while.  At the end, what the API's queries find of a market.            *)
(*                                                                         *)
(* A consumer group delivers a partition in order and restarts from its    *)
(* committed offset; one partition of each topic is modelled.  The events  *)
(* are those of one market, and its trades have a price and a size.        *)
(***************************************************************************)
EXTENDS Integers, Sequences, FiniteSets

CONSTANTS
  Direct,        \* topics whose events are inserted as they come
  N,             \* per topic, its events
  Changes,       \* per WebSocket event, its trades: price_changes, or one
  MaxAttempts,   \* DefaultOptions().MaxAttempts (3)
  MaxFailures    \* bound: calls that fail, and restarts

Topic == {"ws", "backfill"} \cup Direct

ASSUME TopicAssumption == "ws" \notin Direct /\ "backfill" \notin Direct
ASSUME EventAssumption == /\ N \in [Topic -> Nat]
                          /\ Changes \in [1..N["ws"] -> Nat \ {0}]
ASSUME BoundAssumption == MaxAttempts \in Nat \ {0} /\ MaxFailures \in Nat

\* What there is to store of an event, one part per trade.  Event 0 is the zero
\* value that a failed Fetch returns.
Parts(t, i) == IF t = "ws" /\ i > 0 THEN Changes[i] ELSE 1
PartsOf(t)  == UNION {{<<t, i, k>> : k \in 1..Parts(t, i)} : i \in 0..N[t]}
Item        == UNION {PartsOf(t) : t \in Topic}
Trades      == PartsOf("ws")

VARIABLES
  next,        \* per topic, the number of the reader's next event
  committed,   \* per topic, events the group has committed
  hand,        \* per topic, the event its consumer goroutine works on
  step,        \* per topic, what it does next
  part,        \* the trade of the WebSocket event in hand
  mapped,      \* condition:{id}:market_id exists
  marketID,    \* per WebSocket event, the market it was resolved to
  buffer,      \* buffer
  batch,       \* argument of flushBatch
  attempt,     \* attempt of retry.Do; 0 while nobody flushes
  raw,         \* rows of events_raw, per item
  own,         \* rows per item in the table of its topic: trades, market_metadata, ...
  live,        \* messages on pmaxis.trades.live, per item
  fails,
  ambiguous,   \* history: inserts that failed and took effect all the same
  dropped,     \* history: items of a batch given up, of an insert that failed, or lost in a restart
  missed       \* history: events whose commit failed

readers == <<next, committed, hand, step, part>>
naming  == <<mapped, marketID>>
flush   == <<batch, attempt>>
tables  == <<raw, own, live>>
losses  == <<ambiguous, dropped, missed>>
vars    == <<readers, naming, buffer, flush, tables, fails, losses>>

Rows == [Item -> Nat]
Name == {"none", "id", "condition"}   \* the market's id, or its condition's

TypeOK ==
  /\ next \in [Topic -> Nat] /\ \A t \in Topic : next[t] \in 1..(N[t] + 1)
  /\ committed \in [Topic -> Nat] /\ \A t \in Topic : committed[t] \in 0..N[t]
  /\ hand \in [Topic -> Nat] /\ \A t \in Topic : hand[t] \in 0..N[t]
  /\ step \in [Topic -> {"read", "commit", "resolve", "publish", "insert", "append"}]
  /\ part \in 1..Parts("ws", hand["ws"])
  /\ mapped \in BOOLEAN
  /\ marketID \in [1..N["ws"] -> Name]
  /\ buffer \in Seq(Item) /\ batch \in Seq(Item)
  /\ attempt \in 0..MaxAttempts
  /\ raw \in Rows /\ own \in Rows /\ live \in Rows
  /\ fails \in 0..MaxFailures
  /\ ambiguous \in 0..MaxFailures
  /\ dropped \subseteq Item /\ missed \subseteq Topic \X Nat

Init ==
  /\ next = [t \in Topic |-> 1]
  /\ committed = [t \in Topic |-> 0]
  /\ hand = [t \in Topic |-> 0]
  /\ step = [t \in Topic |-> "read"]
  /\ part = 1
  /\ mapped \in BOOLEAN
  /\ marketID = [i \in 1..N["ws"] |-> "none"]
  /\ buffer = <<>>
  /\ batch = <<>>
  /\ attempt = 0
  /\ raw = [x \in Item |-> 0]
  /\ own = [x \in Item |-> 0]
  /\ live = [x \in Item |-> 0]
  /\ fails = 0
  /\ ambiguous = 0
  /\ dropped = {}
  /\ missed = {}

---------------------------------------------------------------------------
(* Helpers                                                                 *)

Fail == fails < MaxFailures /\ fails' = fails + 1

Elements(s) == {s[i] : i \in DOMAIN s}

\* A table with one row more for each of these.
Plus(table, xs) == [x \in Item |-> table[x] + Cardinality({i \in DOMAIN xs : xs[i] = x})]

\* The item a consumer works on, and those its event still has after it.
Current(t) == <<t, hand[t], IF t = "ws" THEN part ELSE 1>>
Working(t) == step[t] \notin {"read", "commit"}
InFlight(t) ==
  IF Working(t)
  THEN {<<t, hand[t], k>> : k \in (IF t = "ws" THEN part ELSE 1)..Parts(t, hand[t])}
  ELSE {}

GoTo(t, s) == step' = [step EXCEPT ![t] = s]

---------------------------------------------------------------------------
(* Mutated forms of definitions below: plausible bugs, each used in place  *)
(* of its original to show that a property would notice it.                *)

\* an append that does not wait for the flush to let go of the buffer
MutexIgnored == TRUE

\* the flush looks at the buffer only once it holds two events
TwoBuffered == Len(buffer) > 1

\* a reader that starts again at the event committed last
ReplayLast == [t \in Topic |-> IF committed[t] = 0 THEN 1 ELSE committed[t]]

\* a query that asks for the market's id alone
IdOnly == {"id"}

---------------------------------------------------------------------------
(* TypedConsumer.Fetch: ReadMessage reads, then commits, then returns      *)

ReadMessage(t) ==
  /\ step[t] = "read"
  /\ next[t] <= N[t]
  /\ hand' = [hand EXCEPT ![t] = next[t]]
  /\ next' = [next EXCEPT ![t] = next[t] + 1]
  /\ GoTo(t, "commit")
  /\ UNCHANGED <<committed, part, naming, buffer, flush, tables, fails, losses>>

\* What a consumer does first with the event it was handed.
FirstStep(t) ==
  CASE t = "ws"       -> "resolve"
    [] t = "backfill" -> "append"
    [] t \in Direct   -> "insert"

Commit(t) ==
  /\ step[t] = "commit"
  /\ committed' = [committed EXCEPT ![t] = hand[t]]
  /\ GoTo(t, FirstStep(t))
  /\ UNCHANGED <<next, hand, part, naming, buffer, flush, tables, fails, losses>>

\* The commit fails, with or without effect: Fetch returns a zero event and an
\* error nobody looks at, and the reader moves on.  processWebsocketEvent
\* ignores a zero event, the others store it like any other.
FetchFails(t) ==
  /\ step[t] = "commit"
  /\ Fail
  /\ missed' = missed \cup {<<t, hand[t]>>}
  /\ hand' = [hand EXCEPT ![t] = 0]
  /\ GoTo(t, IF t = "ws" THEN "read" ELSE FirstStep(t))
  /\ committed' \in {committed, [committed EXCEPT ![t] = hand[t]]}
  /\ UNCHANGED <<next, part, naming, buffer, flush, tables, ambiguous, dropped>>

---------------------------------------------------------------------------
(* processWebsocketEvent, and the loops of the other consumers             *)

\* Discovery writes the condition's key.
MapCondition ==
  /\ ~mapped
  /\ mapped' = TRUE
  /\ UNCHANGED <<readers, marketID, buffer, flush, tables, fails, losses>>

\* resolveCanonicalMarketID: a market that is not mapped, or an error, leaves
\* the event with the reference it came with, the condition.
ResolveMarketID ==
  /\ step["ws"] = "resolve"
  /\ \E name \in Name :
       /\ \/ UNCHANGED fails /\ name = IF mapped THEN "id" ELSE "condition"
          \/ Fail /\ name = "condition"
       /\ marketID' = [marketID EXCEPT ![hand["ws"]] = name]
  /\ GoTo("ws", "publish")
  /\ UNCHANGED <<next, committed, hand, part, mapped, buffer, flush, tables, losses>>

\* p.Publish to the live topic; its error is ignored.
PublishTrade ==
  /\ step["ws"] = "publish"
  /\ \/ live' = Plus(live, <<Current("ws")>>) /\ UNCHANGED fails
     \/ live' \in {live, Plus(live, <<Current("ws")>>)} /\ Fail
  /\ GoTo("ws", "insert")
  /\ UNCHANGED <<next, committed, hand, part, naming, buffer, flush, raw, own, losses>>

\* INSERT INTO trades; its error is ignored.
InsertTrade ==
  /\ step["ws"] = "insert"
  /\ \/ own' = Plus(own, <<Current("ws")>>) /\ UNCHANGED fails
     \/ own' \in {own, Plus(own, <<Current("ws")>>)} /\ Fail
  /\ GoTo("ws", "append")
  /\ UNCHANGED <<next, committed, hand, part, naming, buffer, flush, raw, live, losses>>

\* persistMarketMetadata, insertOrderbookSnapshot and the on-chain consumer's
\* insert; an error is at most logged.
InsertDirect(t) ==
  /\ t \in Direct
  /\ step[t] = "insert"
  /\ \/ own' = Plus(own, <<Current(t)>>) /\ UNCHANGED <<fails, dropped>>
     \/ /\ Fail
        /\ \/ own' = own /\ dropped' = dropped \cup {Current(t)}
           \/ own' = Plus(own, <<Current(t)>>) /\ UNCHANGED dropped
  /\ GoTo(t, "read")
  /\ UNCHANGED <<next, committed, hand, part, naming, buffer, flush, raw, live, ambiguous, missed>>

\* mu.Lock(), which a flush holds
MutexFree == attempt = 0

\* buffer = append(buffer, e); then the event's next trade, if it has one.
AppendEvent(t) ==
  /\ step[t] = "append"
  /\ MutexFree
  /\ buffer' = Append(buffer, Current(t))
  /\ IF t = "ws" /\ part < Parts(t, hand[t])
     THEN part' = part + 1 /\ GoTo(t, "publish")
     ELSE part' = (IF t = "ws" THEN 1 ELSE part) /\ GoTo(t, "read")
  /\ UNCHANGED <<next, committed, hand, naming, flush, tables, fails, losses>>

---------------------------------------------------------------------------
(* The flush: 100 ms ticker, flushBatch, retry.Do                          *)

SomethingBuffered == buffer # <<>>

FlushTick ==
  /\ attempt = 0
  /\ SomethingBuffered
  /\ batch' = buffer
  /\ attempt' = 1
  /\ UNCHANGED <<readers, naming, buffer, tables, fails, losses>>

LastAttempt == attempt >= MaxAttempts

SendSucceeds ==
  /\ attempt > 0
  /\ raw' = Plus(raw, batch)
  /\ buffer' = <<>>
  /\ batch' = <<>>
  /\ attempt' = 0
  /\ UNCHANGED <<readers, naming, own, live, fails, losses>>

\* PrepareBatch or Send fails, the latter perhaps after the rows are in.  The
\* last failure is not looked at: buffer = nil all the same.
SendFails ==
  /\ attempt > 0
  /\ Fail
  /\ \/ UNCHANGED <<raw, ambiguous>>
     \/ raw' = Plus(raw, batch) /\ ambiguous' = ambiguous + 1
  /\ IF LastAttempt
     THEN /\ attempt' = 0
          /\ buffer' = <<>>
          /\ batch' = <<>>
          /\ dropped' = dropped \cup Elements(batch)
     ELSE /\ attempt' = attempt + 1
          /\ UNCHANGED <<buffer, batch, dropped>>
  /\ UNCHANGED <<readers, naming, own, live, missed>>

---------------------------------------------------------------------------

\* Where the group's readers start.
Resume == [t \in Topic |-> committed[t] + 1]

\* The process stops and starts again; on SIGTERM nothing is flushed either.
Restart ==
  /\ Fail
  /\ next' = Resume
  /\ hand' = [t \in Topic |-> 0]
  /\ step' = [t \in Topic |-> "read"]
  /\ part' = 1
  /\ buffer' = <<>>
  /\ batch' = <<>>
  /\ attempt' = 0
  /\ dropped' = dropped \cup Elements(buffer) \cup UNION {InFlight(t) : t \in Topic}
  /\ UNCHANGED <<committed, naming, tables, ambiguous, missed>>

WebsocketStep == ResolveMarketID \/ PublishTrade \/ InsertTrade

Consumer(t) ==
  \/ ReadMessage(t)
  \/ Commit(t)
  \/ t = "ws" /\ WebsocketStep
  \/ InsertDirect(t)
  \/ AppendEvent(t)

Flusher == FlushTick \/ SendSucceeds \/ SendFails

Next ==
  \/ \E t \in Topic : Consumer(t) \/ FetchFails(t)
  \/ MapCondition
  \/ Flusher
  \/ Restart

Spec == Init /\ [][Next]_vars

\* The consumers, the flush goroutine and discovery keep running.  An append
\* waits for a mutex that is free again and again.
FairSpec == /\ Spec
            /\ WF_vars(Flusher) /\ WF_vars(MapCondition)
            /\ \A t \in Topic : WF_vars(Consumer(t)) /\ SF_vars(AppendEvent(t))

---------------------------------------------------------------------------
(* What the API's queries find of the market, as sets of stored trades     *)

\* getMarketMetadata: the condition is known once a row of market_metadata is.
MetadataStored == \E x \in Item : x[1] = "markets" /\ x[2] > 0 /\ own[x] > 0

\* WHERE market_id IN (?, ?)
MarketNames == {"id"} \cup (IF MetadataStored THEN {"condition"} ELSE {})

StoredUnder(names) == {x \in Trades : own[x] > 0 /\ marketID[x[2]] \in names}

\* The candle tables are fed by views over trades, with the market_id of each.
GetMarketTrades       == StoredUnder(MarketNames)
GetMarketPriceHistory == StoredUnder(MarketNames)
GetCandles            == StoredUnder(MarketNames)
fetchMarketStats      == StoredUnder(MarketNames)

\* The ranking is by market_id, each resolved afterwards for display: until its
\* candles are old, a market may be listed twice.
Canonical(name) == IF name = "condition" /\ mapped THEN "id" ELSE name
GetTopMarkets   == StoredUnder({name \in Name : Canonical(name) = "id"})

---------------------------------------------------------------------------
(* Properties                                                              *)

\* Every event a consumer group has committed is with its consumer, in the
\* buffer, in its table, or among those that a given-up batch, a failed call or
\* a restart took: appending and flushing never lose one between them, and of an
\* event with several trades none is passed over.
EventsAccountedFor ==
  \A t \in Topic : \A i \in 1..committed[t] : \A k \in 1..Parts(t, i) :
     \/ <<t, i>> \in missed
     \/ <<t, i, k>> \in InFlight(t) \cup Elements(buffer) \cup dropped
     \/ IF t \in Direct THEN own[<<t, i, k>>] > 0 ELSE raw[<<t, i, k>>] > 0

\* An event is stored twice only because an insert that failed had taken
\* effect: neither the flush nor a restart stores anything again.  Trades are
\* "deduplicated" (storage-projections.md:70): the offset is committed before
\* an event is worked on, so that no restart, wherever it strikes, publishes a
\* trade or inserts it into trades again.
DuplicatesExplained ==
  \A x \in Item : x[2] > 0 =>
    raw[x] <= 1 + ambiguous /\ own[x] <= 1 /\ live[x] <= 1

\* Neither the mutex, nor a flush that keeps retrying, nor a restart leaves an
\* event waiting for ever: it is stored in the end, or known to be lost.
EveryEventSettled ==
  <>(\A x \in Item : x[2] > 0 =>
       raw[x] > 0 \/ own[x] > 0 \/ x \in dropped \/ <<x[1], x[2]>> \in missed)

\* Trades come in before discovery has mapped their market, and while its
\* metadata is on its way through Kafka; they are stored under one name or the
\* other for good.  In the end every query finds every stored trade of its
\* market, and so it stays, unless all the market's metadata was lost.
TradesAreFound ==
  <>[]( \/ {x \in Trades : own[x] > 0}
             = GetMarketTrades \cap GetMarketPriceHistory \cap GetCandles
                 \cap fetchMarketStats \cap GetTopMarkets
        \/ \A i \in 1..N["markets"] :
             <<"markets", i, 1>> \in dropped \/ <<"markets", i>> \in missed )

===========================================================================
