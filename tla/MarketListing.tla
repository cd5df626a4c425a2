--------------------------- MODULE MarketListing ---------------------------
(***************************************************************************)
(* GET /v1/markets: pages by cursor over tables that change, with every    *)
(* page cached in Redis (services/api/handlers/rest.go, GetMarkets).       *)
(*                                                                         *)
(* All requests here have the same exchange, status, category, tag, series *)
(* and limit, so an offset is their cache key.  A walker follows           *)
(* next_cursor from the first page on; a visitor asks for any offset.      *)
(* With a category, tag or series a page is one query of market_metadata;  *)
(* without (ranked), it is a query of the markets by their activity,       *)
(* and, if that leaves room, one of the latest markets.  A query that      *)
(* fails counts as an empty answer.                                        *)
(***************************************************************************)
EXTENDS Lists, SequencesExt

CONSTANTS
  Market,      \* market ids
  Alias,       \* other ids trades were stored under: condition and token ids
  Canonical,   \* the market of every id, resolveCanonicalMarketID
  Wanted,      \* the markets the filters of the requests admit
  Start,       \* the pairs of tables there may be at the beginning
  Offset,      \* the offsets in play
  Limit,       \* markets a page, at most 200 in the code
  RankedMin, RankedMax,   \* 100 and 500: bounds on the rows read by activity
  RecentMin, RecentMax,   \* 50 and 200: bounds on the latest rows read
  MaxChanges,  \* bound: changes of the tables
  MaxVisits,   \* bound: requests of the visitor
  MaxListingFailures   \* bound: queries and Redis calls that fail

Id == Market \cup Alias

\* The minute of the last trade stored under each id, 0 if there was none in the
\* last seven days, and the rows of market_metadata by created_at, newest first.
Tables == [lastSeen : [Id -> Nat], created : Seq(Market)]

ASSUME IdAssumption ==
  /\ IsFiniteSet(Id)
  /\ Canonical \in [Id -> Market]
  /\ \A m \in Market : Canonical[m] = m
  /\ Wanted \subseteq Market
ASSUME StartAssumption ==
  \A t \in Start : t \in Tables /\ IsInjective(t.created)
ASSUME ListingBounds ==
  /\ Limit \in Nat \ {0} /\ Offset \subseteq Nat /\ 0 \in Offset
  /\ {RankedMin, RankedMax, RecentMin, RecentMax, MaxChanges, MaxVisits, MaxListingFailures} \subseteq Nat
  /\ RankedMin <= RankedMax /\ RecentMin <= RecentMax

Client == {"walker", "visitor"}

VARIABLES
  ranked,    \* no category, tag or series is asked for
  tables,    \* the tables as they are and were, the latest last
  cached,    \* Redis cache:markets:...:{offset}, <<>> or one page
  pending,   \* what is known of each client's request
  walk,      \* the pages the walker has got
  over,      \* the walker has got a page that says there are no more
  changes, visits, failures   \* counters

listingVars == <<ranked, tables, cached, pending, walk, over, changes, visits, failures>>

Now == tables[Len(tables)]

\* A page, and when it was computed: asOf is the number of the tables all its
\* queries saw, or 0 if they saw several or one of them failed.
NoPage == [data |-> <<>>, asOf |-> 0]
NoRequest == [at |-> "idle", offset |-> 0, page |-> NoPage]

ListingInit ==
  /\ ranked \in BOOLEAN
  /\ tables \in {<<t>> : t \in Start}
  /\ cached = [o \in Offset |-> <<>>]
  /\ pending = [c \in Client |-> NoRequest]
  /\ walk = <<>> /\ over = FALSE
  /\ changes = 0 /\ visits = 0 /\ failures = 0

Take(s, n) == SubSeq(s, 1, IF n < Len(s) THEN n ELSE Len(s))
From(s, offset) == SubSeq(s, offset + 1, Len(s))
Clamp(n, lo, hi) == IF n < lo THEN lo ELSE IF n > hi THEN hi ELSE n

---------------------------------------------------------------------------
(* Mutated forms of definitions below: plausible bugs, each used in place  *)
(* of its original to show that a property would notice it.                *)

\* recent markets appended without a look at the page so far
NothingSeen(data) == {}

\* the limit of the request passed on instead of what is left of it
WholeLimit(data) == Limit

\* a cursor that points at the last market of the page instead of past it
CursorToLast == IF walk = <<>> THEN 0 ELSE (Limit - 1) * Len(walk)

---------------------------------------------------------------------------
(* The queries.                                                            *)

\* The ids of s as markets, each at its first place (the map "seen").
Distinct(s) ==
  LET seen[i \in 0..Len(s)] == IF i = 0 THEN <<>>
                               ELSE IF Canonical[s[i]] \in Range(seen[i - 1]) THEN seen[i - 1]
                               ELSE Append(seen[i - 1], Canonical[s[i]])
  IN  seen[Len(s)]

\* Markets with metadata that the filters admit.
Admitted(t, s) == Filter(s, Wanted \cap Range(t.created))

\* WHERE and ORDER BY created_at DESC
Matching(s) == Filter(s, Wanted)

\* ORDER BY last_seen DESC: the database may give the ids of one minute, the
\* grain of price_history_1m, in another order each time it is asked.
Orders(lastSeen) ==
  LET active == {i \in Id : lastSeen[i] > 0}
  IN  {order \in [1..Cardinality(active) -> active] :
         /\ IsInjective(order)
         /\ \A i, j \in DOMAIN order : i < j => lastSeen[order[i]] >= lastSeen[order[j]]}

\* getActivityRankedMarkets, of the ids in the order the database gives them
Ranked(t, order, offset) ==
  LET target == Limit + offset
      rows   == Take(order, Clamp(3 * target, RankedMin, RankedMax))
  IN  Take(From(Take(Admitted(t, Distinct(rows)), target), offset), Limit)

\* getRecentMarkets, for a page that has data already
InPage(data) == Range(data)
Room(data) == Limit - Len(data)
Recent(t, data) ==
  LET room == Room(data)
      rows == Take(Matching(t.created), Clamp(2 * room, RecentMin, RecentMax))
  IN  Take(Filter(rows, Market \ InPage(data)), room)

\* getFilteredMarkets
Filtered(t, offset) == Take(From(Matching(t.created), offset), Limit)

---------------------------------------------------------------------------
(* A request.                                                              *)

\* The page is answered: has_more and next_cursor if it is full.
Answer(c, page) ==
  /\ pending' = [pending EXCEPT ![c] = NoRequest]
  /\ IF c = "walker" THEN walk' = Append(walk, page) /\ over' = (Len(page.data) < Limit)
                     ELSE UNCHANGED <<walk, over>>

MayFail == failures < MaxListingFailures /\ failures' = failures + 1

\* cacheGetJSON; an error of Redis is a miss.
GetMarkets(c, offset) ==
  /\ pending[c].at = "idle"
  /\ \/ /\ cached[offset] # <<>>
        /\ Answer(c, cached[offset][1])
        /\ UNCHANGED failures
     \/ /\ \/ cached[offset] = <<>> /\ UNCHANGED failures
           \/ MayFail
        /\ pending' = [pending EXCEPT ![c] = [at |-> IF ranked THEN "ranked" ELSE "filtered",
                                              offset |-> offset, page |-> NoPage]]
        /\ UNCHANGED <<walk, over>>
  /\ UNCHANGED <<ranked, tables, cached, changes>>

\* The walker's first request is without cursor; then comes what encodeCursor
\* made of offset + limit.
Cursor == Limit * Len(walk)

Walk ==
  /\ ~over /\ Cursor \in Offset
  /\ GetMarkets("walker", Cursor)
  /\ UNCHANGED visits

Visit ==
  /\ visits < MaxVisits
  /\ visits' = visits + 1
  /\ \E o \in Offset : GetMarkets("visitor", o)

\* append(results, ...)
Extended(c, answer) == pending[c].page.data \o answer

\* One query's part of the page, or nothing if it fails; a query by activity
\* that leaves room is followed by one of the latest markets.
Query(c, at, answer, partial) ==
  LET asOf == IF at # "recent" \/ pending[c].page.asOf = Len(tables) THEN Len(tables) ELSE 0
      After(page) == [at |-> IF at = "ranked" /\ Len(page.data) < Limit THEN "recent" ELSE "store",
                      offset |-> pending[c].offset, page |-> page]
  IN  /\ pending[c].at = at
      /\ \/ /\ pending' = [pending EXCEPT ![c] = After([data |-> Extended(c, answer), asOf |-> asOf])]
            /\ UNCHANGED failures
         \/ /\ MayFail
            /\ \E part \in partial :
                 pending' = [pending EXCEPT ![c] = After([data |-> Extended(c, part), asOf |-> 0])]
      /\ UNCHANGED <<ranked, tables, cached, walk, over, changes, visits>>

QueryFiltered(c) == Query(c, "filtered", Filtered(Now, pending[c].offset), {<<>>})

\* The metadata of the rows, and Redis for their other ids, are read one by one
\* (here together with the rows): a market for which that fails is left out.
QueryRanked(c) ==
  LET without(lost) == [Now EXCEPT !.created = Filter(@, Market \ lost)]
  IN  \E order \in Orders(Now.lastSeen) :
        Query(c, "ranked", Ranked(Now, order, pending[c].offset),
              {Ranked(without(lost), order, pending[c].offset) : lost \in SUBSET Market})

QueryRecent(c) == Query(c, "recent", Recent(Now, pending[c].page.data), {<<>>})

\* cacheSetJSON, whose error is ignored, and the answer
Store(c) ==
  /\ pending[c].at = "store"
  /\ \/ cached' = [cached EXCEPT ![pending[c].offset] = <<pending[c].page>>] /\ UNCHANGED failures
     \/ MayFail /\ UNCHANGED cached
  /\ Answer(c, pending[c].page)
  /\ UNCHANGED <<ranked, tables, changes, visits>>

---------------------------------------------------------------------------
(* The tables and the cache.                                               *)

ToFront(s, x) == <<x>> \o Filter(s, Id \ {x})

Change(t) ==
  /\ changes < MaxChanges
  /\ changes' = changes + 1
  /\ tables' = Append(tables, t)
  /\ UNCHANGED <<ranked, cached, pending, walk, over, visits, failures>>

\* A trade stored under i, of a minute with trades of another id, late perhaps,
\* or of the minute after it.
TradeStored ==
  \E i, j \in Id, later \in {0, 1} :
    LET minute == Now.lastSeen[j] + later
    IN  /\ minute > Now.lastSeen[i]
        /\ Change([Now EXCEPT !.lastSeen[i] = minute])

\* The earliest minute with a last trade drops out of the seven days.
WeekPasses ==
  \E i \in Id :
    /\ Now.lastSeen[i] > 0
    /\ \A j \in Id : Now.lastSeen[j] > 0 => Now.lastSeen[i] <= Now.lastSeen[j]
    /\ Change([Now EXCEPT !.lastSeen =
                 [j \in Id |-> IF @[j] = @[i] THEN 0 ELSE @[j]]])

\* A row of market_metadata, which discovery inserts again, with a new
\* created_at, whenever it lists the market; the column takes the time of each
\* row in milliseconds, and ties between rows are left out.
MarketStored == \E m \in Market : Change([Now EXCEPT !.created = ToFront(@, m)])

\* 30 seconds after it was written
PageExpires ==
  /\ \E o \in Offset : cached[o] # <<>> /\ cached' = [cached EXCEPT ![o] = <<>>]
  /\ UNCHANGED <<ranked, tables, pending, walk, over, changes, visits, failures>>

ListingNext ==
  \/ Walk \/ Visit
  \/ \E c \in Client : QueryFiltered(c) \/ QueryRanked(c) \/ QueryRecent(c) \/ Store(c)
  \/ TradeStored \/ WeekPasses \/ MarketStored \/ PageExpires

ListingSpec == ListingInit /\ [][ListingNext]_listingVars

---------------------------------------------------------------------------
(* Properties.                                                             *)

Page == [data : Seq(Market), asOf : 0..Len(tables)]

\* Every variable has its type, and no page is longer than the limit.
ListingTypeOK ==
  /\ ranked \in BOOLEAN
  /\ tables \in Seq(Tables) /\ tables # <<>>
  /\ \A o \in Offset : cached[o] = <<>> \/ (Len(cached[o]) = 1 /\ cached[o][1] \in Page)
  /\ \A c \in Client :
       /\ pending[c].at \in {"idle", "filtered", "ranked", "recent", "store"}
       /\ pending[c].offset \in Offset
       /\ pending[c].page \in Page /\ Len(pending[c].page.data) <= Limit
  /\ walk \in Seq(Page) /\ over \in BOOLEAN
  /\ changes \in 0..MaxChanges /\ visits \in 0..MaxVisits /\ failures \in 0..MaxListingFailures

Data == FlattenSeq([i \in DOMAIN walk |-> walk[i].data])

\* No page lists a market twice: not when its trades are stored under two ids,
\* not when it is both active and new, and not when the tables change between
\* the two queries of a page (rest.go:267, 337, 379, 441).
PagesListMarketsOnce ==
  /\ \A i \in DOMAIN walk : IsInjective(walk[i].data)
  /\ \A o \in Offset : cached[o] # <<>> => IsInjective(cached[o][1].data)

\* The tables that all pages of the walk were computed from, if these are the
\* same: no failure, no change on the way, and no page out of a cache that is
\* older than the last change.
Undisturbed(t) ==
  \E v \in DOMAIN tables : /\ t = tables[v]
                          /\ \A i \in DOMAIN walk : walk[i].asOf = v

\* An undisturbed walk with a category, tag or series gives the markets they
\* admit in their order, none skipped at a seam between pages and none repeated,
\* and ends when all have been given (rest.go:235-241, 274-278, 506).
FilteredWalkIsExact ==
  ~ranked => \A t \in Range(tables) : Undisturbed(t) =>
    /\ IsPrefix(Data, Matching(t.created))
    /\ over => Data = Matching(t.created)
===========================================================================
