--------------------------- MODULE WalletTracker ----------------------------
(***************************************************************************)
(* The wallet tracker of services/processor (startWalletTracker) and the   *)
(* API handlers it works with: WatchWallet and UnwatchWallet, which change *)
(* the Redis set watched:wallets while the tracker is between its reads of *)
(* it, and the two that report what the tracker stored.                    *)
(*                                                                         *)
(* The topic pmaxis.trades.onchain has six partitions and its producer's   *)
(* balancer ignores keys, so the tracker may be handed logs in any order;  *)
(* each log is modelled as in a partition of its own.                      *)
(***************************************************************************)
EXTENDS Integers, Sequences, FiniteSets

CONSTANTS
  Address,       \* addresses as users write them
  Lower,         \* strings.ToLower on Address
  Trim,          \* strings.TrimSpace on Address
  Trade,         \* on-chain trades
  Maker, Taker,  \* the two sides of each
  MaxLogs,       \* bound: logs the indexer publishes
  MaxRequests,   \* bound: requests to watch or unwatch
  MaxFailures    \* bound: calls that fail, and restarts of the processor

Side  == {"sell", "buy"}
MarketRef == {"id", "token"}   \* the market's id, or the token's in its place

\* The wallet a user means.
Wallet(a) == Lower[Trim[a]]
Wallets   == {Wallet(a) : a \in Address}

ASSUME LowerAssumption == /\ Lower \in [Address -> Address]
                          /\ \A a \in Address : Lower[Lower[a]] = Lower[a]
ASSUME TrimAssumption  == /\ Trim \in [Address -> Address]
                          /\ \A a \in Address : /\ Trim[Trim[a]] = Trim[a]
                                              /\ Trim[Lower[a]] = Lower[Trim[a]]
ASSUME TradeAssumption == Maker \in [Trade -> Address] /\ Taker \in [Trade -> Address]
ASSUME BoundAssumption == /\ MaxLogs \in Nat
                          /\ MaxRequests \in Nat /\ MaxFailures \in Nat

VARIABLES
  onchain,     \* pmaxis.trades.onchain, all that was ever published
  watched,     \* watched:wallets
  mapped,      \* token:{id}:market_id exists
  connected,   \* ch # nil
  taken,       \* positions of onchain the reader has been handed
  committed,   \* positions the group has committed
  hand,        \* the position the tracker works on, 0 for none
  step,        \* what it does next
  sides,       \* sides found watched and not yet reported
  market,      \* marketID
  activity,    \* pmaxis.wallet.activity, all that was ever published
  rows,        \* wallet_activity
  requests, fails,
  asked,       \* history: wallets whose latest request, answered, was to watch
  doubted,     \* history: wallets a request has failed for since, or in between
  steady,      \* history: wallets asked for ever since the log in hand was read
  seen,        \* history: wallets asked for, or in doubt, at any time since then
  known,       \* history: the token was mapped when the log in hand was read
  disturbed    \* history: a call failed since then

reader  == <<taken, committed>>
locals  == <<hand, step, sides, market>>
stored  == <<activity, rows>>
bounds  == <<requests, fails>>
intent  == <<asked, doubted>>
history == <<steady, seen, known, disturbed>>
vars    == <<onchain, watched, mapped, connected, reader, locals, stored, bounds, intent, history>>

Report == [at : Nat \ {0}, side : Side, market : MarketRef]

TypeOK ==
  /\ onchain \in Seq(Trade)
  /\ watched \subseteq Address
  /\ mapped \in BOOLEAN /\ connected \in BOOLEAN
  /\ taken \subseteq 1..Len(onchain)
  /\ committed \subseteq 1..Len(onchain)
  /\ hand \in 0..Len(onchain)
  /\ step \in {"read", "maker", "taker", "resolve", "publish", "insert"}
  /\ sides \in Seq(Side)
  /\ market \in MarketRef
  /\ activity \in Seq(Report) /\ rows \in Seq(Report)
  /\ requests \in 0..MaxRequests
  /\ fails \in 0..MaxFailures
  /\ asked \subseteq Address /\ doubted \subseteq Address
  /\ steady \subseteq Address /\ seen \subseteq Address
  /\ known \in BOOLEAN /\ disturbed \in BOOLEAN

Init ==
  /\ onchain = <<>>
  /\ watched \in SUBSET Wallets   \* Redis keeps the set
  /\ mapped \in BOOLEAN /\ connected \in BOOLEAN
  /\ taken = {} /\ committed = {}
  /\ hand = 0
  /\ step = "read"
  /\ sides = <<>>
  /\ market = "token"
  /\ activity = <<>> /\ rows = <<>>
  /\ requests = 0 /\ fails = 0
  /\ asked = watched /\ doubted = {}
  /\ steady = {} /\ seen = {}
  /\ known = FALSE /\ disturbed = FALSE

---------------------------------------------------------------------------
(* Mutated forms of definitions below: plausible bugs, each used in place  *)
(* of its original to show that a property would notice it.                *)

\* the address of the request as it came
AsWritten(a) == a

\* a reader that starts again at a log committed before
ReplayAll == {}

---------------------------------------------------------------------------
(* The indexer, and discovery                                              *)

\* processLog publishes a trade, or, in a cycle that starts a few blocks back,
\* publishes it again.  Its error is ignored: a trade that was not published is
\* one that is not in onchain.
PublishOnchain ==
  /\ Len(onchain) < MaxLogs
  /\ \E trade \in Trade : onchain' = Append(onchain, trade)
  /\ UNCHANGED <<watched, mapped, connected, reader, locals, stored, bounds, intent, history>>

\* Discovery writes the token's key.
MapToken ==
  /\ ~mapped
  /\ mapped' = TRUE
  /\ UNCHANGED <<onchain, watched, connected, reader, locals, stored, bounds, intent, history>>

---------------------------------------------------------------------------
(* The handlers                                                            *)

Fail == fails < MaxFailures /\ fails' = fails + 1

WatchedAddress(a)   == Lower[Trim[a]]
UnwatchedAddress(a) == Lower[a]

\* What a DELETE names: its path is lowered but, other than the address of a
\* POST, not trimmed (rest.go:2434, 2446).  With spaces around it, it names no
\* wallet that could be watched: it is answered, and the wallet stays asked for.
Named(a) == Lower[a]

Request == requests < MaxRequests /\ requests' = requests + 1

\* SADD, or a failure with or without effect, which the user is told of.
WatchWallet(a) ==
  /\ Request
  /\ \/ /\ watched' = watched \cup {WatchedAddress(a)}
        /\ asked' = asked \cup {Wallet(a)}
        /\ doubted' = doubted \ {Wallet(a)}
        /\ UNCHANGED fails
     \/ /\ Fail
        /\ watched' \in {watched, watched \cup {WatchedAddress(a)}}
        /\ doubted' = doubted \cup {Wallet(a)}
        /\ UNCHANGED asked
  /\ seen' = IF hand = 0 THEN {} ELSE seen \cup {Wallet(a)}
  /\ UNCHANGED <<onchain, mapped, connected, reader, locals, stored, steady, known, disturbed>>

\* SREM, of the address as the path has it
UnwatchWallet(a) ==
  /\ Request
  /\ \/ /\ watched' = watched \ {UnwatchedAddress(a)}
        /\ asked' = asked \ {Named(a)}
        /\ doubted' = doubted \ {Named(a)}
        /\ UNCHANGED fails
     \/ /\ Fail
        /\ watched' \in {watched, watched \ {UnwatchedAddress(a)}}
        /\ doubted' = doubted \cup {Named(a)}
        /\ UNCHANGED asked
  /\ steady' = steady \ {Named(a)}
  /\ UNCHANGED <<onchain, mapped, connected, reader, locals, stored, seen, known, disturbed>>

---------------------------------------------------------------------------
(* The tracker: startWalletTracker                                         *)

\* The loop is at its beginning; what it knew of the last log is gone.
Idle ==
  /\ hand' = 0
  /\ step' = "read"
  /\ sides' = <<>>
  /\ market' = "token"
  /\ steady' = {} /\ seen' = {}
  /\ known' = FALSE /\ disturbed' = FALSE

\* ReadMessage takes a log that was not handed out yet and commits it.
Fetch ==
  /\ step = "read"
  /\ \E p \in (1..Len(onchain)) \ taken :
       /\ hand' = p
       /\ taken' = taken \cup {p}
       /\ committed' = committed \cup {p}
  /\ step' = "maker"
  /\ steady' = asked \ doubted
  /\ seen' = asked \cup doubted
  /\ known' = mapped
  /\ UNCHANGED <<onchain, watched, mapped, connected, sides, market, stored, bounds, intent, disturbed>>

\* The commit fails, with or without effect: err # nil, and the loop goes on to
\* the next log.
FetchFails ==
  /\ step = "read"
  /\ Fail
  /\ \E p \in (1..Len(onchain)) \ taken :
       /\ taken' = taken \cup {p}
       /\ committed' \in {committed, committed \cup {p}}
  /\ UNCHANGED <<onchain, watched, mapped, connected, locals, stored, requests, intent, history>>

Party(trade, side) == IF side = "sell" THEN Lower[Maker[trade]] ELSE Lower[Taker[trade]]
PartyAt(p, side)   == Party(onchain[p], side)

\* No step of the loop's body changes these.
Elsewhere == UNCHANGED <<onchain, watched, mapped, connected, reader, requests, intent>>

CallSucceeds == UNCHANGED fails

\* The loop goes on with the log in hand, whether its call failed or not.
GoOn(next) ==
  /\ step' = next
  /\ disturbed' = (disturbed \/ fails' # fails)
  /\ UNCHANGED <<hand, steady, seen, known>>

\* SISMEMBER: an error counts as not watched.
Found(side, found) ==
  \/ CallSucceeds /\ found = (PartyAt(hand, side) \in watched)
  \/ Fail /\ ~found

With(side, found) == IF found THEN Append(sides, side) ELSE sides

ReadMaker ==
  /\ step = "maker"
  /\ \E found \in BOOLEAN : Found("sell", found) /\ sides' = With("sell", found)
  /\ GoOn("taker")
  /\ Elsewhere /\ UNCHANGED <<market, stored>>

ReadTaker ==
  /\ step = "taker"
  /\ \E found \in BOOLEAN :
       /\ Found("buy", found)
       /\ IF With("buy", found) = <<>>
          THEN Idle
          ELSE /\ GoOn("resolve")
               /\ sides' = With("buy", found)
               /\ UNCHANGED market
  /\ Elsewhere /\ UNCHANGED stored

ResolveMarket ==
  /\ step = "resolve"
  /\ \/ CallSucceeds /\ market' = IF mapped THEN "id" ELSE "token"
     \/ Fail /\ market' = "token"
  /\ GoOn("publish")
  /\ Elsewhere /\ UNCHANGED <<sides, stored>>

Activity == [at |-> hand, side |-> Head(sides), market |-> market]

\* A call may fail and take effect all the same.
Reported(reports, after) ==
  \/ CallSucceeds /\ after = Append(reports, Activity)
  \/ Fail /\ after \in {reports, Append(reports, Activity)}

PublishActivity ==
  /\ step = "publish"
  /\ \E after \in {activity, Append(activity, Activity)} :
       Reported(activity, after) /\ activity' = after
  /\ GoOn("insert")
  /\ Elsewhere /\ UNCHANGED <<sides, market, rows>>

\* Without ClickHouse nothing is stored.
InsertActivity ==
  /\ step = "insert"
  /\ \E after \in {rows, Append(rows, Activity)} :
       /\ IF connected THEN Reported(rows, after) ELSE after = rows /\ CallSucceeds
       /\ rows' = after
  /\ IF Tail(sides) = <<>>
     THEN Idle
     ELSE /\ GoOn("publish")
          /\ sides' = Tail(sides)
          /\ UNCHANGED market
  /\ Elsewhere /\ UNCHANGED activity

\* Where the group's reader starts.
Resume == committed

\* The processor stops and starts again, and finds ClickHouse or not.
Restart ==
  /\ Fail
  /\ connected' \in BOOLEAN
  /\ taken' = Resume
  /\ Idle
  /\ UNCHANGED <<onchain, watched, mapped, committed, stored, requests, intent>>

Tracker ==
  \/ Fetch
  \/ ReadMaker
  \/ ReadTaker
  \/ ResolveMarket
  \/ PublishActivity
  \/ InsertActivity

Next ==
  \/ PublishOnchain
  \/ MapToken
  \/ \E a \in Address : WatchWallet(a) \/ UnwatchWallet(a)
  \/ Tracker
  \/ FetchFails
  \/ Restart

Spec == Init /\ [][Next]_vars

\* The tracker's goroutine keeps running: its calls return, with an error or
\* without.
FairSpec == Spec /\ WF_vars(Tracker)

---------------------------------------------------------------------------
(* What the API reports                                                    *)

GetWalletActivity(wallet) == {i \in 1..Len(rows) : PartyAt(rows[i].at, rows[i].side) = wallet}

\* GetWalletSummary counts rows.
GetWalletSummary(wallet) ==
  [buys  |-> Cardinality({i \in GetWalletActivity(wallet) : rows[i].side = "buy"}),
   sells |-> Cardinality({i \in GetWalletActivity(wallet) : rows[i].side = "sell"})]

\* GetWalletOnchain once storage has inserted every log: one row per log, and
\* the maker's side decides.  Its LIMIT, of at most 200 rows, is left out.
GetWalletOnchain(wallet) ==
  {p \in 1..Len(onchain) : wallet \in {PartyAt(p, "sell"), PartyAt(p, "buy")}}

---------------------------------------------------------------------------
(* Properties                                                              *)

Recorded(p, side, reports) ==
  \E i \in 1..Len(reports) : reports[i].at = p /\ reports[i].side = side

\* Users ask and the tracker reads the set twice per log, each at its own time.
\* Still, a log the tracker is done with, no call having failed, is published for
\* each side whose wallet was asked for all the time, and stored if there is a
\* ClickHouse, under the market's id if the token was mapped by then; and for no
\* side whose wallet nobody asked for in that time.  An address may be written in
\* any case, and a POST may have spaces around it; a DELETE with spaces does not
\* count as a request to stop, so the first half says that tracking goes on after
\* it, although api-reference.md:917 has it "Stop tracking a wallet".
TrackedAsAsked ==
  [][hand # 0 /\ hand' = 0 /\ ~disturbed /\ fails' = fails =>
       \A side \in Side :
         LET wallet == PartyAt(hand, side) IN
         /\ wallet \in steady => /\ connected => Recorded(hand, side, rows')
                                 /\ Recorded(hand, side, activity')
         /\ wallet \notin seen => /\ ~Recorded(hand, side, rows')
                                  /\ ~Recorded(hand, side, activity')
         /\ \A i \in 1..Len(rows') :
              rows'[i].at = hand /\ known => rows'[i].market = "id"]_vars

\* A log is reported to a wallet at most once per side, wherever the processor
\* restarts: only what the indexer publishes again is counted again.  Hence
\* buys and sells of a summary are at most the logs that name the wallet there.
ReportedOnce ==
  /\ \A reports \in {activity, rows} : \A i, j \in 1..Len(reports) :
       reports[i].at = reports[j].at /\ reports[i].side = reports[j].side => i = j
  /\ \A wallet \in {Lower[a] : a \in Address} :
       LET summary == GetWalletSummary(wallet)
           logs    == Cardinality(GetWalletOnchain(wallet))
       IN summary.buys <= logs /\ summary.sells <= logs

===========================================================================
