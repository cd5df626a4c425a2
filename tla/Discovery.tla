------------------------------ MODULE Discovery -----------------------------
(***************************************************************************)
(* The discovery service (services/discovery): every poll crawls the list  *)
(* of open markets and the list of open events at Polymarket, both at once *)
(* and page by page, writes where a token belongs to Redis and publishes   *)
(* the tokens of every market it meets.  The lists change while they are   *)
(* crawled.  A market at Polymarket is an element of Market; an item of a  *)
(* list is the sequence of its markets.                                    *)
(***************************************************************************)
EXTENDS Lists, SequencesExt

CONSTANTS
  Crawl,         \* the crawls of a poll: discoverMarkets and discoverEvents
  Market,        \* markets
  TwoTokens,     \* those whose token list can be parsed and names two tokens
  Lists,         \* what the lists may hold at first
  Limit,         \* items per page (100)
  MaxAttempts,   \* DefaultOptions().MaxAttempts (3)
  MaxPending,    \* bound: unread messages on pmaxis.tokens.extracted
  MaxChanges,    \* bound: changes of the lists
  MaxFailures    \* bound: calls that fail, and restarts of the process

ASSUME MarketAssumption == /\ TwoTokens \subseteq Market
                           /\ Lists \subseteq [Crawl -> Seq(Seq(Market))]
ASSUME DiscoveryBounds  == /\ Limit \in Nat \ {0} /\ MaxAttempts \in Nat \ {0}
                           /\ MaxPending \in Nat \ {0} /\ MaxChanges \in Nat
                           /\ MaxFailures \in Nat

VARIABLES
  list,        \* per crawl, the open items at Polymarket
  at,          \* per crawl, where its goroutine is
  offset,      \* per crawl
  page,        \* per crawl, markets of the page still to process
  attempt,     \* per crawl, attempt of retry.Do
  mapped,      \* markets with their token:{id}:market_id in Redis
  tokenTopic,  \* unread messages on pmaxis.tokens.extracted
  changes, fails,
  met,         \* history: per crawl, the markets it has processed, in order
  disturbed,   \* history: per crawl, whether its list changed or a page failed
  unmapped     \* history: markets whose Redis call failed

crawls  == <<at, offset, page, attempt, met>>
outputs == <<mapped, tokenTopic, unmapped>>
bounds  == <<changes, fails>>
discoveryVars    == <<list, crawls, disturbed, outputs, bounds>>

DiscoveryTypeOK ==
  /\ list \in [Crawl -> Seq(Seq(Market))]
  /\ at \in [Crawl -> {"fetching", "mapping", "publishing", "ended"}]
  /\ offset \in [Crawl -> Nat]
  /\ page \in [Crawl -> Seq(Market)]
  /\ \A c \in Crawl : page[c] = <<>> <=> at[c] \in {"fetching", "ended"}
  /\ attempt \in [Crawl -> 1..MaxAttempts]
  /\ mapped \subseteq TwoTokens /\ unmapped \subseteq TwoTokens
  /\ tokenTopic \in Seq(TwoTokens) /\ Len(tokenTopic) <= MaxPending
  /\ changes \in 0..MaxChanges /\ fails \in 0..MaxFailures
  /\ met \in [Crawl -> Seq(Market)]
  /\ disturbed \in [Crawl -> BOOLEAN]

NewPoll ==
  /\ at' = [c \in Crawl |-> "fetching"]
  /\ offset' = [c \in Crawl |-> 0]
  /\ page' = [c \in Crawl |-> <<>>]
  /\ attempt' = [c \in Crawl |-> 1]
  /\ met' = [c \in Crawl |-> <<>>]
  /\ disturbed' = [c \in Crawl |-> FALSE]

DiscoveryInit ==
  /\ list \in Lists
  /\ at = [c \in Crawl |-> "fetching"]
  /\ offset = [c \in Crawl |-> 0]
  /\ page = [c \in Crawl |-> <<>>]
  /\ attempt = [c \in Crawl |-> 1]
  /\ mapped = {}
  /\ tokenTopic = <<>>
  /\ changes = 0 /\ fails = 0
  /\ met = [c \in Crawl |-> <<>>]
  /\ disturbed = [c \in Crawl |-> FALSE]
  /\ unmapped = {}

---------------------------------------------------------------------------
(* Helpers                                                                 *)

Fail == fails < MaxFailures /\ fails' = fails + 1

Listed(c) == FlattenSeq(list[c])

\* What is left of the items when a market is taken out of them.
Without(items, m) ==
  Filter([i \in DOMAIN items |-> Filter(items[i], Market \ {m})], Seq(Market) \ {<<>>})

Least(a, b) == IF a < b THEN a ELSE b

---------------------------------------------------------------------------
(* Mutated forms of definitions below: plausible bugs, each used in place  *)
(* of its original to show that a property would notice it.                *)

\* an offset that starts the next page one item too late
OffsetPastNext(o) == o + Limit + 1

\* retries without an end
NeverLast(c) == FALSE

\* Redis written behind the publication: at each market the keys of those before it
MapBehind(c) ==
  /\ at[c] = "mapping"
  /\ mapped' = mapped \cup (ToSet(met[c]) \cap TwoTokens)
  /\ at' = [at EXCEPT ![c] = "publishing"]
  /\ UNCHANGED <<list, offset, page, attempt, met, disturbed, unmapped, tokenTopic, bounds>>

---------------------------------------------------------------------------
(* runBoth, discoverMarkets and discoverEvents                             *)

\* The ticker starts a poll when both crawls of the last one have ended.
StartPoll ==
  /\ \A c \in Crawl : at[c] = "ended"
  /\ NewPoll
  /\ UNCHANGED <<list, outputs, bounds>>

NextOffset(o) == o + Limit

\* A page of the list as it is now; an empty one ends the crawl, and after one
\* of events without markets the next one is fetched.
FetchPage(c) ==
  /\ at[c] = "fetching"
  /\ LET items == SubSeq(list[c], offset[c] + 1, Least(offset[c] + Limit, Len(list[c])))
         found == FlattenSeq(items)
         next  == items # <<>> /\ found = <<>>
     IN /\ page' = [page EXCEPT ![c] = found]
        /\ at' = [at EXCEPT ![c] = IF items = <<>> THEN "ended" ELSE IF next THEN @ ELSE "mapping"]
        /\ offset' = [offset EXCEPT ![c] = IF next THEN NextOffset(@) ELSE @]
  /\ attempt' = [attempt EXCEPT ![c] = 1]
  /\ UNCHANGED <<list, met, disturbed, outputs, bounds>>

LastAttempt(c) == attempt[c] >= MaxAttempts

\* The request fails; after the last attempt the rest of the list is given up.
FetchFails(c) ==
  /\ at[c] = "fetching"
  /\ Fail
  /\ IF LastAttempt(c)
     THEN /\ at' = [at EXCEPT ![c] = "ended"]
          /\ disturbed' = [disturbed EXCEPT ![c] = TRUE]
          /\ attempt' = [attempt EXCEPT ![c] = 1]
     ELSE /\ attempt' = [attempt EXCEPT ![c] = @ + 1]
          /\ UNCHANGED <<at, disturbed>>
  /\ UNCHANGED <<list, offset, page, met, outputs, changes>>

\* processMarket: the Redis keys of the market's tokens.  Errors are ignored.  The
\* five Sets are one step, since nothing asks for a key before the tokens are
\* published; that one of them fails, or the process stops, counts for all.
MapTokens(c) ==
  /\ at[c] = "mapping"
  /\ LET m == Head(page[c])
     IN \/ mapped' = mapped \cup ({m} \cap TwoTokens) /\ UNCHANGED <<unmapped, fails>>
        \/ unmapped' = unmapped \cup ({m} \cap TwoTokens) /\ Fail /\ UNCHANGED mapped
  /\ at' = [at EXCEPT ![c] = "publishing"]
  /\ UNCHANGED <<list, offset, page, attempt, met, disturbed, tokenTopic, changes>>

\* processMarket: the tokens are published, or the failure is logged; then the
\* next market of the page, or the next page.
PublishTokens(c) ==
  /\ at[c] = "publishing"
  /\ LET m == Head(page[c])
         rest == Tail(page[c])
     IN /\ IF m \in TwoTokens
           THEN \/ /\ Len(tokenTopic) < MaxPending
                   /\ tokenTopic' = Append(tokenTopic, m)
                   /\ UNCHANGED fails
                \/ Fail /\ UNCHANGED tokenTopic
           ELSE UNCHANGED <<tokenTopic, fails>>
        /\ met' = [met EXCEPT ![c] = Append(@, m)]
        /\ page' = [page EXCEPT ![c] = rest]
        /\ at' = [at EXCEPT ![c] = IF rest = <<>> THEN "fetching" ELSE "mapping"]
        /\ offset' = [offset EXCEPT ![c] = IF rest = <<>> THEN NextOffset(@) ELSE @]
  /\ UNCHANGED <<list, attempt, disturbed, mapped, unmapped, changes>>

Restart ==
  /\ Fail
  /\ NewPoll
  /\ UNCHANGED <<list, outputs, changes>>

---------------------------------------------------------------------------
(* Polymarket                                                              *)

Change ==
  /\ changes < MaxChanges
  /\ changes' = changes + 1
  /\ disturbed' = [c \in Crawl |-> TRUE]
  /\ UNCHANGED <<crawls, outputs, fails>>

\* A market closes, and with it an event it was the last of: later items move
\* up in the list.
MarketCloses(m) ==
  /\ \E c \in Crawl : m \in ToSet(Listed(c))
  /\ list' = [c \in Crawl |-> Without(list[c], m)]
  /\ Change

\* A market opens, at the front or the end of the lists.
MarketOpens(m) ==
  /\ \A c \in Crawl : m \notin ToSet(Listed(c))
  /\ \/ list' = [c \in Crawl |-> <<<<m>>>> \o list[c]]
     \/ list' = [c \in Crawl |-> list[c] \o <<<<m>>>>]
  /\ Change

CrawlStep(c) ==
  \/ FetchPage(c)
  \/ MapTokens(c)
  \/ PublishTokens(c)

DiscoveryNext ==
  \/ StartPoll
  \/ \E c \in Crawl : CrawlStep(c) \/ FetchFails(c)
  \/ Restart
  \/ \E m \in Market : MarketCloses(m) \/ MarketOpens(m)

DiscoveryFairness == WF_discoveryVars(StartPoll) /\ \A c \in Crawl : WF_discoveryVars(CrawlStep(c))

---------------------------------------------------------------------------
(* Properties                                                              *)

\* A crawl whose list did not change and whose requests did not run out of
\* attempts has met every listed market exactly once when it ends, in the order
\* of the list: paging neither skips nor repeats at the seams.
CrawlComplete ==
  \A c \in Crawl : at[c] = "ended" /\ ~disturbed[c] => met[c] = Listed(c)

===========================================================================
