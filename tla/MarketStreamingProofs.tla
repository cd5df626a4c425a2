----------------------- MODULE MarketStreamingProofs ------------------------
(***************************************************************************)
(* For any markets, lists, page size, backoff and number of connections:   *)
(* every variable has its type; whatever order connect and AddToken touch  *)
(* client and subscribed in, a live connection has been asked for every    *)
(* token of its worker; every token streamed was mapped before; and a      *)
(* crawl that nothing disturbed has met every listed market once.          *)
(***************************************************************************)
EXTENDS MarketStreaming, DataLemmas

\* What connect has established when it returns, and what it may rely on when
\* it begins: nothing is connected outside connect and readLoop, AddToken asks a
\* connection being set up for nothing but tokens of the worker, and the client
\* readLoop reads from is the latest connection.
ConnectionInv ==
  /\ conn \in Nat
  /\ stage \in {"looping", "waiting", "stopped"} => ~alive
  /\ stage \in {"connecting", "reading"} => conn > 0
  /\ stage = "connecting" => asked \subseteq tokens
  /\ stage = "reading" => client = conn
  /\ EveryTokenAskedFor

\* What a worker's own steps do to a connection: all but AddToken.
LEMMA RunKeepsConnection ==
  ASSUME ConnectionInv, Run \/ DialFails \/ Stop \/ ConnectionDies \/ Crash
  PROVE  ConnectionInv'
<1> USE DEF ConnectionInv, EveryTokenAskedFor, worker, wire
<1>1. CASE Dial            BY <1>1 DEF Dial
<1>2. CASE WaitEnds        BY <1>2 DEF WaitEnds
<1>3. CASE Connect         BY <1>3 DEF Connect, InitialSubscription
<1>4. CASE ReadFails       BY <1>4 DEF ReadFails
<1>5. CASE DialFails       BY <1>5 DEF DialFails
<1>6. CASE Stop            BY <1>6 DEF Stop
<1>7. CASE ConnectionDies  BY <1>7 DEF ConnectionDies
<1>8. CASE Crash           BY <1>8 DEF Crash
<1>9. QED  BY <1>1, <1>2, <1>3, <1>4, <1>5, <1>6, <1>7, <1>8 DEF Run

\* AddToken asks for the token it adds, or leaves it to connect.
LEMMA AddTokenKeepsConnection ==
  ASSUME ConnectionInv, AddToken
  PROVE  ConnectionInv'
<1> DEFINE t == Head(adding)
<1> USE DEF ConnectionInv, EveryTokenAskedFor
<1>1. UNCHANGED <<stage, client, conn, alive>>
  BY DEF AddToken
<1>2. CASE t \in tokens
  BY <1>1, <1>2 DEF AddToken
<1>3. CASE t \notin tokens
  <2>1. tokens' = tokens \cup {t}
    BY <1>3 DEF AddToken
  <2>2. PICK seen \in Seen, sub \in SeenSub :
          IF seen = 0 THEN asked' = asked ELSE asked' = asked \cup AsksFor(t, seen, sub)
    BY <1>3 DEF AddToken
  <2>3. AsksFor(t, seen, sub) \subseteq tokens \cup {t}
    BY DEF AsksFor
  <2>4. CASE stage = "connecting"
    BY <1>1, <2>1, <2>2, <2>3, <2>4
  <2>5. CASE stage = "reading" /\ alive
    <3>1. seen = conn /\ seen # 0
      BY <2>5 DEF Seen
    <3>2. asked' = asked \cup (IF sub THEN {t} ELSE tokens \cup {t})
      BY <2>2, <2>5, <3>1 DEF AsksFor
    <3>3. QED  BY <1>1, <2>1, <2>5, <3>2
  <2>6. CASE stage # "connecting" /\ ~(stage = "reading" /\ alive)
    BY <1>1, <2>6
  <2>7. QED  BY <2>4, <2>5, <2>6
<1>4. QED  BY <1>2, <1>3

\* Steps of discovery and of the manager's reader leave the connection alone.
LEMMA OthersKeepConnection ==
  ASSUME ConnectionInv, UNCHANGED <<stage, worker, wire>>
  PROVE  ConnectionInv'
BY DEF ConnectionInv, EveryTokenAskedFor, worker, wire

\* While the worker reads from a connection that is up, every token it holds
\* has been asked for on that connection (ingestion/main.go:208-268).
THEOREM TokensAreAskedFor == Spec => []EveryTokenAskedFor
<1>1. Init => ConnectionInv
  BY DEF Init, WorkerInit, ConnectionInv, EveryTokenAskedFor
<1>2. ConnectionInv /\ [Next]_vars => ConnectionInv'
  <2> SUFFICES ASSUME ConnectionInv, [Next]_vars PROVE ConnectionInv'
    OBVIOUS
  <2>1. CASE DiscoveryNext /\ UNCHANGED workerVars
    BY <2>1, OthersKeepConnection DEF workerVars
  <2>2. CASE WorkerStep
    BY <2>2, RunKeepsConnection, AddTokenKeepsConnection DEF WorkerStep
  <2>3. CASE Take
    BY <2>3, OthersKeepConnection DEF Take, Fetch
  <2>4. CASE TakeFails
    BY <2>4, OthersKeepConnection DEF TakeFails, workerVars
  <2>5. CASE UNCHANGED vars
    BY <2>5, OthersKeepConnection DEF vars, workerVars
  <2>6. QED  BY <2>1, <2>2, <2>3, <2>4, <2>5 DEF Next
<1>3. ConnectionInv => EveryTokenAskedFor
  BY DEF ConnectionInv
<1>4. QED  BY <1>1, <1>2, <1>3, PTL DEF Spec

---------------------------------------------------------------------------
(* Where a token comes from                                                *)

Resolved == mapped \cup unmapped

\* Tokens the worker has, asks for, or is about to be given.
Known == tokens \cup asked \cup {adding[i] : i \in DOMAIN adding}

\* At every stop on a token's way from a page to the wire its market is mapped,
\* or a Redis call for it has failed.
TrailInv ==
  /\ at \in [Crawl -> {"fetching", "mapping", "publishing", "ended"}]
  /\ DOMAIN page = Crawl
  /\ \A c \in Crawl : at[c] = "publishing" /\ Head(page[c]) \in TwoTokens => Head(page[c]) \in Resolved
  /\ tokenTopic \in Seq(TwoTokens)
  /\ \A i \in 1..Len(tokenTopic) : tokenTopic[i] \in Resolved
  /\ adding \in Seq(Token)
  /\ \A m \in TwoTokens : TokensOf(m) \cap Known # {} => m \in Resolved

\* A step that leaves every page and its stage, or goes on to another stage.
LEMMA DiscoveryKeepsTrail ==
  ASSUME TrailInv, UNCHANGED workerVars, mapped \subseteq mapped', unmapped \subseteq unmapped',
         at' \in [Crawl -> {"fetching", "mapping", "publishing", "ended"}], DOMAIN page' = Crawl,
         \A c \in Crawl : \/ at'[c] # "publishing"
                          \/ at'[c] = at[c] /\ page'[c] = page[c]
                          \/ Head(page'[c]) \in TwoTokens => Head(page'[c]) \in Resolved',
         \/ tokenTopic' = tokenTopic
         \/ \E m \in TwoTokens : m \in Resolved /\ tokenTopic' = Append(tokenTopic, m)
  PROVE  TrailInv'
<1> USE DEF Resolved
<1>1. \A c \in Crawl : at'[c] = "publishing" /\ Head(page'[c]) \in TwoTokens => Head(page'[c]) \in Resolved'
  BY DEF TrailInv
<1>2. tokenTopic' \in Seq(TwoTokens) /\ \A i \in 1..Len(tokenTopic') : tokenTopic'[i] \in Resolved'
  <2>1. CASE tokenTopic' = tokenTopic
    BY <2>1 DEF TrailInv
  <2>2. ASSUME NEW m \in TwoTokens, m \in Resolved, tokenTopic' = Append(tokenTopic, m)
        PROVE  tokenTopic' \in Seq(TwoTokens) /\ \A i \in 1..Len(tokenTopic') : tokenTopic'[i] \in Resolved'
    <3>1. tokenTopic \in Seq(TwoTokens) /\ \A i \in 1..Len(tokenTopic) : tokenTopic[i] \in Resolved
      BY DEF TrailInv
    <3>2. \A i \in 1..Len(tokenTopic') : tokenTopic'[i] = m \/ (i \in 1..Len(tokenTopic) /\ tokenTopic'[i] = tokenTopic[i])
      BY <2>2, <3>1
    <3>3. tokenTopic' \in Seq(TwoTokens)
      BY <2>2, <3>1
    <3> QED BY <2>2, <3>1, <3>2, <3>3
  <2> QED BY <2>1, <2>2
<1>3. adding' \in Seq(Token) /\ Known' = Known
  BY DEF TrailInv, Known, workerVars, worker, wire
<1>4. \A m \in TwoTokens : TokensOf(m) \cap Known # {} => m \in Resolved'
  BY DEF TrailInv
<1>5. \A m \in TwoTokens : (TokensOf(m) \cap Known # {} => m \in Resolved)'
  BY <1>3, <1>4 DEF TokensOf
<1>6. at' \in [Crawl -> {"fetching", "mapping", "publishing", "ended"}] /\ DOMAIN page' = Crawl
  OBVIOUS
<1> HIDE DEF Resolved
<1> QED BY <1>1, <1>2, <1>3, <1>5, <1>6 DEF TrailInv

\* A step of the worker, which can only know tokens it knew before.
LEMMA WorkerKeepsTrail ==
  ASSUME TrailInv, UNCHANGED <<at, page, mapped, unmapped, tokenTopic>>,
         adding' \in Seq(Token), Known' \subseteq Known
  PROVE  TrailInv'
<1>1. \A m \in TwoTokens : (TokensOf(m) \cap Known # {} => m \in Resolved)'
  BY DEF TrailInv, Resolved, TokensOf
<1> QED BY <1>1 DEF TrailInv, Resolved

LEMMA DiscoveryStepKeepsTrail ==
  ASSUME TrailInv, DiscoveryNext, UNCHANGED workerVars
  PROVE  TrailInv'
<1>0. at \in [Crawl -> {"fetching", "mapping", "publishing", "ended"}] /\ DOMAIN page = Crawl
  BY DEF TrailInv
<1>1. CASE StartPoll \/ Restart
  <2>1. /\ UNCHANGED outputs
        /\ at' = [c \in Crawl |-> "fetching"]
        /\ page' = [c \in Crawl |-> <<>>]
    BY <1>1 DEF StartPoll, Restart, NewPoll
  <2> QED BY <2>1, DiscoveryKeepsTrail DEF outputs
<1>2. ASSUME NEW c \in Crawl, FetchPage(c) PROVE TrailInv'
  <2>1. at' = at \/ \E s \in {"ended", "mapping"} : at' = [at EXCEPT ![c] = s]
    <3> DEFINE items == SubSeq(list[c], offset[c] + 1, Least(offset[c] + Limit, Len(list[c])))
               next  == items # <<>> /\ FlattenSeq(items) = <<>>
    <3>1. at' = [at EXCEPT ![c] = IF items = <<>> THEN "ended" ELSE IF next THEN @ ELSE "mapping"]
      BY <1>2 DEF FetchPage
    <3> HIDE DEF items, next
    <3>2. QED  BY <1>0, <3>1
  <2>2. PICK p : page' = [page EXCEPT ![c] = p]
    BY <1>2 DEF FetchPage
  <2>3. UNCHANGED outputs
    BY <1>2 DEF FetchPage
  <2>4. at[c] = "fetching"
    BY <1>2 DEF FetchPage
  <2> QED BY <1>0, <2>1, <2>2, <2>3, <2>4, DiscoveryKeepsTrail DEF outputs
<1>3. ASSUME NEW c \in Crawl, FetchFails(c) PROVE TrailInv'
  <2>1. at' = at \/ at' = [at EXCEPT ![c] = "ended"]
    BY <1>3 DEF FetchFails
  <2>2. UNCHANGED <<page, outputs>>
    BY <1>3 DEF FetchFails
  <2> QED BY <1>0, <2>1, <2>2, DiscoveryKeepsTrail DEF outputs
<1>4. ASSUME NEW c \in Crawl, MapTokens(c) PROVE TrailInv'
  <2>1. at' = [at EXCEPT ![c] = "publishing"] /\ UNCHANGED <<page, tokenTopic>>
    BY <1>4 DEF MapTokens
  <2>2. mapped \subseteq mapped' /\ unmapped \subseteq unmapped'
    BY <1>4 DEF MapTokens
  <2>3. Head(page'[c]) \in TwoTokens => Head(page'[c]) \in Resolved'
    BY <1>4 DEF MapTokens, Resolved
  <2> QED BY <1>0, <2>1, <2>2, <2>3, DiscoveryKeepsTrail
<1>5. ASSUME NEW c \in Crawl, PublishTokens(c) PROVE TrailInv'
  <2> DEFINE m == Head(page[c])
  <2>1. PICK s \in {"fetching", "mapping"} : at' = [at EXCEPT ![c] = s]
    BY <1>5 DEF PublishTokens
  <2>2. PICK p : page' = [page EXCEPT ![c] = p]
    BY <1>5 DEF PublishTokens
  <2>3. UNCHANGED <<mapped, unmapped>> /\ at[c] = "publishing"
    BY <1>5 DEF PublishTokens
  <2>4. tokenTopic' = tokenTopic \/ (m \in TwoTokens /\ tokenTopic' = Append(tokenTopic, m))
    BY <1>5 DEF PublishTokens
  <2>5. m \in TwoTokens => m \in Resolved
    BY <2>3 DEF TrailInv
  <2> QED BY <1>0, <2>1, <2>2, <2>3, <2>4, <2>5, DiscoveryKeepsTrail
<1>6. ASSUME NEW m \in Market, MarketCloses(m) \/ MarketOpens(m) PROVE TrailInv'
  <2>1. UNCHANGED <<at, page, outputs>>
    BY <1>6 DEF MarketCloses, MarketOpens, Change, crawls
  <2> QED BY <1>0, <2>1, DiscoveryKeepsTrail DEF outputs
<1> QED BY <1>1, <1>2, <1>3, <1>4, <1>5, <1>6 DEF DiscoveryNext, CrawlStep

LEMMA WorkerStepKeepsTrail ==
  ASSUME TrailInv, WorkerStep, UNCHANGED discoveryVars
  PROVE  TrailInv'
<1> DEFINE Due == {adding[i] : i \in DOMAIN adding}
<1>0. adding \in Seq(Token) /\ UNCHANGED <<at, page, mapped, unmapped, tokenTopic>>
  BY DEF TrailInv, discoveryVars, crawls, outputs
<1>1. ASSUME tokens' \subseteq tokens, asked' \subseteq asked \cup tokens, adding' \in {adding, <<>>}
      PROVE  TrailInv'
  <2>1. adding' \in Seq(Token) /\ Due' \subseteq Due
    <3>1. CASE adding' = adding
      BY <1>0, <3>1
    <3>2. CASE adding' = <<>>
      <4>1. DOMAIN adding' = {}
        BY <3>2
      <4> QED BY <3>2, <4>1
    <3> QED BY <1>1, <3>1, <3>2
  <2>2. Known' \subseteq Known
    BY <1>1, <2>1 DEF Known
  <2> QED BY <1>0, <2>1, <2>2, WorkerKeepsTrail
<1>2. CASE Run
  BY <1>1, <1>2 DEF Run, Dial, WaitEnds, Connect, InitialSubscription, ReadFails, worker, wire
<1>3. CASE DialFails \/ Stop \/ ConnectionDies \/ Crash
  BY <1>1, <1>3 DEF DialFails, Stop, ConnectionDies, Crash, worker, wire
<1>4. CASE AddToken
  <2> DEFINE t == Head(adding)
  <2>1. adding # <<>> /\ adding' = Tail(adding)
    BY <1>4 DEF AddToken
  <2>2. adding' \in Seq(Token) /\ Due' \subseteq Due /\ t \in Due
    BY <1>0, <2>1
  <2>3. tokens' \subseteq tokens \cup {t} /\ asked' \subseteq asked \cup tokens \cup {t}
    BY <1>4 DEF AddToken, AsksFor
  <2>4. Known' \subseteq Known
    BY <2>2, <2>3 DEF Known
  <2> QED BY <1>0, <2>2, <2>4, WorkerKeepsTrail
<1> QED BY <1>2, <1>3, <1>4 DEF WorkerStep

\* The reader hands over the tokens of a mapped market.
LEMMA TakeKeepsTrail ==
  ASSUME TrailInv, Take \/ TakeFails
  PROVE  TrailInv'
<1> DEFINE m == Head(tokenTopic)
<1>1. tokenTopic # <<>> /\ tokenTopic' = Tail(tokenTopic) /\ tokenTopic \in Seq(TwoTokens)
  BY DEF Take, TakeFails, TrailInv
<1>2. m \in TwoTokens /\ tokenTopic' \in Seq(TwoTokens) /\ m \in Resolved
  BY <1>1 DEF TrailInv
<1>3. UNCHANGED <<at, page, mapped, unmapped, tokens, asked>>
  BY DEF Take, TakeFails, Fetch, worker, wire, workerVars
<1>4. \A i \in 1..Len(tokenTopic') : tokenTopic'[i] \in Resolved
  <2>1. \A i \in 1..Len(tokenTopic') : i + 1 \in 1..Len(tokenTopic) /\ tokenTopic'[i] = tokenTopic[i + 1]
    BY <1>1
  <2> QED BY <2>1 DEF TrailInv
<1>5. adding' = adding \/ adding' = Tokens[m]
  BY DEF Take, TakeFails, Fetch, workerVars
<1>6. Tokens[m] \in Seq(Token) /\ {Tokens[m][i] : i \in DOMAIN Tokens[m]} = TokensOf(m)
  <2>1. Tokens[m] \in Pairs
    BY <1>2, TokensAssumption
  <2>2. Tokens[m] \in Seq(Token) /\ Len(Tokens[m]) = 2
    BY <2>1, PairAssumption
  <2>3. DOMAIN Tokens[m] = {1, 2}
    BY <2>2
  <2> QED BY <2>2, <2>3 DEF TokensOf
<1>7. adding' \in Seq(Token) /\ Known' \subseteq Known \cup TokensOf(m)
  BY <1>3, <1>5, <1>6 DEF TrailInv, Known
<1>8. \A n \in TwoTokens : (TokensOf(n) \cap Known # {} => n \in Resolved)'
  <2> SUFFICES ASSUME NEW n \in TwoTokens, TokensOf(n) \cap Known' # {} PROVE n \in Resolved
    BY <1>3 DEF Resolved, TokensOf
  <2>1. n = m \/ TokensOf(n) \cap TokensOf(m) = {}
    BY <1>2, TokensAssumption
  <2>2. n # m => TokensOf(n) \cap Known # {}
    BY <1>7, <2>1
  <2> QED BY <1>2, <2>2 DEF TrailInv
<1> QED BY <1>2, <1>3, <1>4, <1>7, <1>8 DEF TrailInv, Resolved

LEMMA InitTrail == Init => TrailInv
BY DEF Init, DiscoveryInit, WorkerInit, TrailInv, Known, TokensOf

\* A token that is streamed resolves to its market in Redis, unless a Redis call
\* for the market failed (discovery/main.go: processMarket sets the keys before
\* it publishes the tokens, and everything else only hands tokens on).
THEOREM StreamedResolve == Spec => []StreamedTokensResolve
<1>1. TrailInv /\ [Next]_vars => TrailInv'
  <2> SUFFICES ASSUME TrailInv, [Next]_vars PROVE TrailInv'
    OBVIOUS
  <2>1. CASE UNCHANGED vars
    BY <2>1, DiscoveryKeepsTrail DEF vars, discoveryVars, crawls, outputs, TrailInv
  <2> QED BY <2>1, DiscoveryStepKeepsTrail, WorkerStepKeepsTrail, TakeKeepsTrail DEF Next
<1>2. TrailInv => StreamedTokensResolve
  BY DEF TrailInv, StreamedTokensResolve, Known, Resolved
<1> QED BY <1>1, <1>2, InitTrail, PTL DEF Spec

---------------------------------------------------------------------------
(* Types                                                                   *)

Stages == {"fetching", "mapping", "publishing", "ended"}

\* The two halves of DiscoveryTypeOK: a crawl, and what discovery puts out.
CrawlTyped ==
  /\ list \in [Crawl -> Seq(Seq(Market))]
  /\ at \in [Crawl -> Stages]
  /\ offset \in [Crawl -> Nat]
  /\ page \in [Crawl -> Seq(Market)]
  /\ \A c \in Crawl : page[c] = <<>> <=> at[c] \in {"fetching", "ended"}
  /\ attempt \in [Crawl -> 1..MaxAttempts]
  /\ met \in [Crawl -> Seq(Market)]
  /\ disturbed \in [Crawl -> BOOLEAN]

OutputTyped ==
  /\ mapped \subseteq TwoTokens /\ unmapped \subseteq TwoTokens
  /\ tokenTopic \in Seq(TwoTokens) /\ Len(tokenTopic) <= MaxPending
  /\ changes \in 0..MaxChanges /\ fails \in 0..MaxFailures

LEMMA DiscoveryTypeParts == DiscoveryTypeOK <=> CrawlTyped /\ OutputTyped
BY DEF DiscoveryTypeOK, CrawlTyped, OutputTyped, Stages

\* A page of a list is part of it, laid flat, whether or not the offset is
\* behind its end.
LEMMA PageOfList ==
  ASSUME NEW s \in Seq(Seq(Market)), NEW o \in Nat
  PROVE  LET end   == Least(o + Limit, Len(s))
             items == SubSeq(s, o + 1, end)
         IN /\ FlattenSeq(items) \in Seq(Market)
            /\ Least(o, Len(s)) \in 0..Len(s) /\ end \in Least(o, Len(s))..Len(s)
            /\ FlattenSeq(SubSeq(s, 1, end)) = FlattenSeq(SubSeq(s, 1, Least(o, Len(s)))) \o FlattenSeq(items)
            /\ items = <<>> <=> Len(s) <= o
<1>1. PICK n \in Nat : n = Len(s)
  BY LenProperties
<1>2. Limit \in Nat \ {0}
  BY DiscoveryBounds
<1>3. PICK e \in Nat : e = Least(o + Limit, n)
  <2>1. o + Limit \in Nat
    BY <1>2
  <2>2. Least(o + Limit, n) \in Nat
    BY <2>1 DEF Least
  <2>3. QED  BY <2>2
<1>4. PICK a \in Nat : a = Least(o, n)
  BY <1>1 DEF Least
<1>5. a \in 0..n /\ e \in a..n
  BY <1>1, <1>2, <1>3, <1>4 DEF Least
<1>6. CASE o <= n
  <2>1. a = o /\ (e = a <=> n = o)
    BY <1>1, <1>2, <1>3, <1>4, <1>6 DEF Least
  <2>2. /\ FlattenSeq(SubSeq(s, a + 1, e)) \in Seq(Market)
        /\ FlattenSeq(SubSeq(s, 1, e)) = FlattenSeq(SubSeq(s, 1, a)) \o FlattenSeq(SubSeq(s, a + 1, e))
    BY <1>1, <1>5, FlattenParts
  <2>3. SubSeq(s, a + 1, e) \in Seq(Seq(Market)) /\ Len(SubSeq(s, a + 1, e)) = e - a
    BY <1>1, <1>5, Part
  <2>4. SubSeq(s, a + 1, e) = <<>> <=> n <= o
    <3>1. SubSeq(s, a + 1, e) = <<>> <=> e - a = 0
      <4>1. PICK x \in Seq(Seq(Market)) : x = SubSeq(s, a + 1, e) /\ Len(x) = e - a
        BY <2>3
      <4>2. x = <<>> <=> Len(x) = 0
        OBVIOUS
      <4>3. QED  BY <4>1, <4>2
    <3>2. e - a = 0 <=> n <= o
      BY <1>5, <1>6, <2>1
    <3>3. QED  BY <3>1, <3>2
  <2>5. QED  BY <1>1, <1>3, <1>4, <1>5, <2>1, <2>2, <2>4
<1>7. CASE ~(o <= n)
  <2>1. a = n /\ e = n
    BY <1>1, <1>2, <1>3, <1>4, <1>7 DEF Least
  <2>2. SubSeq(s, o + 1, n) = <<>>
    BY <1>1, <1>7
  <2>3. FlattenSeq(SubSeq(s, 1, n)) \in Seq(Market)
    BY <1>1, <1>5, <2>1, FlattenParts
  <2>4. FlattenSeq(SubSeq(s, 1, n)) = FlattenSeq(SubSeq(s, 1, n)) \o <<>>
    BY <2>3, ConcatEmptySeq
  <2>5. <<>> \in Seq(Market) /\ FlattenSeq(<<>>) = <<>>
    BY FlattenNone
  <2>6. SubSeq(s, o + 1, e) = <<>> /\ n <= o
    BY <1>1, <1>7, <2>1, <2>2
  <2>7. FlattenSeq(SubSeq(s, 1, e)) = FlattenSeq(SubSeq(s, 1, a)) \o FlattenSeq(SubSeq(s, o + 1, e))
    BY <2>1, <2>4, <2>5, <2>6
  <2>8. FlattenSeq(SubSeq(s, o + 1, e)) \in Seq(Market)
    BY <2>5, <2>6
  <2>9. QED  BY <1>1, <1>3, <1>4, <1>5, <2>6, <2>7, <2>8
<1>8. QED  BY <1>6, <1>7

\* What a page holds has its type, and is not empty when a crawl goes on to it.
LEMMA FetchTyped ==
  ASSUME CrawlTyped, OutputTyped, NEW c \in Crawl, FetchPage(c)
  PROVE  CrawlTyped' /\ OutputTyped'
<1> DEFINE items == SubSeq(list[c], offset[c] + 1, Least(offset[c] + Limit, Len(list[c])))
           found == FlattenSeq(items)
           next  == items # <<>> /\ found = <<>>
<1>1. /\ at[c] = "fetching"
      /\ page' = [page EXCEPT ![c] = found]
      /\ at' = [at EXCEPT ![c] = IF items = <<>> THEN "ended" ELSE IF next THEN @ ELSE "mapping"]
      /\ offset' = [offset EXCEPT ![c] = IF next THEN @ + Limit ELSE @]
  BY DEF FetchPage, NextOffset
<1>2. /\ attempt' = [attempt EXCEPT ![c] = 1]
      /\ UNCHANGED <<list, met, disturbed, outputs, bounds>>
  BY DEF FetchPage
<1>3. found \in Seq(Market)
  BY PageOfList DEF CrawlTyped
<1>4. items = <<>> => found = <<>>
  <2>1. FlattenSeq(<<>>) = <<>>
    BY FlattenNone
  <2>2. QED  BY <2>1
<1> HIDE DEF items, found
<1>5. offset' \in [Crawl -> Nat] /\ at' \in [Crawl -> Stages] /\ page' \in [Crawl -> Seq(Market)]
  <2>1. (IF next THEN offset[c] + Limit ELSE offset[c]) \in Nat
    BY DiscoveryBounds DEF CrawlTyped
  <2>2. (IF items = <<>> THEN "ended" ELSE IF next THEN at[c] ELSE "mapping") \in Stages
    BY DEF CrawlTyped, Stages
  <2> HIDE DEF next
  <2>3. QED  BY <1>1, <1>3, <2>1, <2>2 DEF CrawlTyped
<1>6. \A d \in Crawl : page'[d] = <<>> <=> at'[d] \in {"fetching", "ended"}
  <2>1. found = <<>> <=> at'[c] \in {"fetching", "ended"}
    BY <1>1, <1>4 DEF CrawlTyped
  <2> HIDE DEF next
  <2>2. QED  BY <1>1, <2>1 DEF CrawlTyped
<1>7. attempt' \in [Crawl -> 1..MaxAttempts]
  BY <1>2, DiscoveryBounds DEF CrawlTyped
<1>8. CrawlTyped'
  BY <1>2, <1>5, <1>6, <1>7 DEF CrawlTyped, Stages
<1>9. QED  BY <1>2, <1>8 DEF OutputTyped, outputs, bounds

LEMMA FetchFailsTyped ==
  ASSUME CrawlTyped, OutputTyped, NEW c \in Crawl, FetchFails(c)
  PROVE  CrawlTyped' /\ OutputTyped'
<1>1. UNCHANGED <<list, offset, page, met, outputs, changes>> /\ fails' \in 0..MaxFailures
  BY DiscoveryBounds DEF FetchFails, Fail, OutputTyped
<1>2. OutputTyped'
  BY <1>1 DEF OutputTyped, outputs
<1>3. CASE LastAttempt(c)
  <2>1. /\ at[c] = "fetching" /\ at' = [at EXCEPT ![c] = "ended"]
        /\ disturbed' = [disturbed EXCEPT ![c] = TRUE]
        /\ attempt' = [attempt EXCEPT ![c] = 1]
    BY <1>3 DEF FetchFails
  <2>2. attempt' \in [Crawl -> 1..MaxAttempts]
    BY <2>1, DiscoveryBounds DEF CrawlTyped
  <2>3. QED  BY <1>1, <1>2, <2>1, <2>2 DEF CrawlTyped, Stages
<1>4. CASE ~LastAttempt(c)
  <2>1. attempt' = [attempt EXCEPT ![c] = @ + 1] /\ UNCHANGED <<at, disturbed>>
    BY <1>4 DEF FetchFails
  <2>2. attempt[c] + 1 \in 1..MaxAttempts
    BY <1>4, DiscoveryBounds DEF LastAttempt, CrawlTyped
  <2>3. QED  BY <1>1, <1>2, <2>1, <2>2 DEF CrawlTyped
<1>5. QED  BY <1>2, <1>3, <1>4

LEMMA MapTyped ==
  ASSUME CrawlTyped, OutputTyped, NEW c \in Crawl, MapTokens(c)
  PROVE  CrawlTyped' /\ OutputTyped'
<1>1. /\ at[c] = "mapping" /\ at' = [at EXCEPT ![c] = "publishing"]
      /\ UNCHANGED <<list, offset, page, attempt, met, disturbed, tokenTopic, changes>>
  BY DEF MapTokens
<1>2. mapped' \subseteq TwoTokens /\ unmapped' \subseteq TwoTokens
  BY DEF MapTokens, OutputTyped
<1>3. fails' \in 0..MaxFailures
  BY DiscoveryBounds DEF MapTokens, Fail, OutputTyped
<1>4. OutputTyped'
  BY <1>1, <1>2, <1>3 DEF OutputTyped
<1>5. QED  BY <1>1, <1>4 DEF CrawlTyped, Stages

LEMMA PublishTyped ==
  ASSUME CrawlTyped, OutputTyped, NEW c \in Crawl, PublishTokens(c)
  PROVE  CrawlTyped' /\ OutputTyped'
<1> DEFINE m == Head(page[c])
           rest == Tail(page[c])
<1>1. /\ at[c] = "publishing"
      /\ met' = [met EXCEPT ![c] = Append(@, m)]
      /\ page' = [page EXCEPT ![c] = rest]
      /\ at' = [at EXCEPT ![c] = IF rest = <<>> THEN "fetching" ELSE "mapping"]
      /\ offset' = [offset EXCEPT ![c] = IF rest = <<>> THEN @ + Limit ELSE @]
      /\ UNCHANGED <<list, attempt, disturbed, mapped, unmapped, changes>>
  BY DEF PublishTokens, NextOffset
<1>2. \/ fails' = fails /\ tokenTopic' = tokenTopic
      \/ m \in TwoTokens /\ Len(tokenTopic) < MaxPending /\ tokenTopic' = Append(tokenTopic, m) /\ fails' = fails
      \/ Fail /\ tokenTopic' = tokenTopic
  BY DEF PublishTokens
<1>3. page[c] # <<>> /\ page[c] \in Seq(Market)
  BY <1>1 DEF CrawlTyped
<1>4. m \in Market /\ rest \in Seq(Market)
  BY <1>3
<1> HIDE DEF m, rest
<1>5. page' \in [Crawl -> Seq(Market)] /\ met' \in [Crawl -> Seq(Market)]
  BY <1>1, <1>4 DEF CrawlTyped
<1>6. at' \in [Crawl -> Stages] /\ offset' \in [Crawl -> Nat]
  BY <1>1, DiscoveryBounds DEF CrawlTyped, Stages
<1>7. \A d \in Crawl : page'[d] = <<>> <=> at'[d] \in {"fetching", "ended"}
  BY <1>1 DEF CrawlTyped
<1>8. CrawlTyped'
  BY <1>1, <1>5, <1>6, <1>7 DEF CrawlTyped, Stages
<1>9. tokenTopic' \in Seq(TwoTokens) /\ Len(tokenTopic') <= MaxPending
  <2>1. tokenTopic \in Seq(TwoTokens) /\ Len(tokenTopic) <= MaxPending /\ MaxPending \in Nat
    BY DiscoveryBounds DEF OutputTyped
  <2>2. CASE tokenTopic' = tokenTopic
    BY <2>1, <2>2
  <2>3. CASE m \in TwoTokens /\ Len(tokenTopic) < MaxPending /\ tokenTopic' = Append(tokenTopic, m)
    BY <2>1, <2>3
  <2>4. QED  BY <1>2, <2>2, <2>3
<1>10. fails' \in 0..MaxFailures
  BY <1>2, DiscoveryBounds DEF Fail, OutputTyped
<1>11. QED  BY <1>1, <1>8, <1>9, <1>10 DEF OutputTyped

LEMMA NewPollTyped ==
  ASSUME CrawlTyped, OutputTyped, StartPoll \/ Restart
  PROVE  CrawlTyped' /\ OutputTyped'
<1>1. NewPoll /\ UNCHANGED <<list, outputs, changes>>
  BY DEF StartPoll, Restart, bounds
<1>2. fails' \in 0..MaxFailures
  BY DiscoveryBounds DEF StartPoll, Restart, Fail, OutputTyped, bounds
<1>3. CrawlTyped'
  BY <1>1, DiscoveryBounds DEF NewPoll, CrawlTyped, Stages
<1>4. QED  BY <1>1, <1>2, <1>3 DEF OutputTyped, outputs

\* A market that closes takes an event with it, and leaves lists of markets.
LEMMA WithoutType ==
  ASSUME NEW items \in Seq(Seq(Market)), NEW m
  PROVE  Without(items, m) \in Seq(Seq(Market))
<1> DEFINE left == [i \in DOMAIN items |-> Filter(items[i], Market \ {m})]
<1>1. PICK n \in Nat : n = Len(items) /\ DOMAIN items = 1..n
  BY LenProperties
<1>2. \A i \in 1..n : items[i] \in Seq(Market)
  BY <1>1
<1>3. \A i \in 1..n : Filter(items[i], Market \ {m}) \in Seq(Market)
  BY <1>2, FilterType
<1>4. left \in [1..n -> Seq(Market)]
  BY <1>1, <1>3
<1> HIDE DEF left
<1>5. left \in Seq(Seq(Market))
  BY <1>4
<1>6. Filter(left, Seq(Market) \ {<<>>}) \in Seq(Seq(Market))
  BY <1>5, FilterType
<1>7. QED  BY <1>6 DEF Without, left

LEMMA ListTyped ==
  ASSUME CrawlTyped, OutputTyped, NEW m \in Market, MarketCloses(m) \/ MarketOpens(m)
  PROVE  CrawlTyped' /\ OutputTyped'
<1>1. Change
  BY DEF MarketCloses, MarketOpens
<1>2. \A c \in Crawl : list[c] \in Seq(Seq(Market))
  BY DEF CrawlTyped
<1>3. list' \in [Crawl -> Seq(Seq(Market))]
  <2>1. CASE MarketCloses(m)
    <3>1. \A c \in Crawl : Without(list[c], m) \in Seq(Seq(Market))
      BY <1>2, WithoutType
    <3>2. QED  BY <2>1, <3>1 DEF MarketCloses
  <2>2. CASE MarketOpens(m)
    <3>1. <<<<m>>>> \in Seq(Seq(Market))
      OBVIOUS
    <3>2. \A c \in Crawl : <<<<m>>>> \o list[c] \in Seq(Seq(Market)) /\ list[c] \o <<<<m>>>> \in Seq(Seq(Market))
      BY <1>2, <3>1
    <3>3. QED  BY <2>2, <3>2 DEF MarketOpens
  <2>3. QED  BY <2>1, <2>2
<1>4. changes' \in 0..MaxChanges
  BY <1>1, DiscoveryBounds DEF Change, OutputTyped
<1>5. QED  BY <1>1, <1>3, <1>4 DEF Change, CrawlTyped, OutputTyped, crawls, outputs

LEMMA DiscoveryTyped ==
  ASSUME DiscoveryTypeOK, DiscoveryNext
  PROVE  DiscoveryTypeOK'
<1>1. CrawlTyped /\ OutputTyped
  BY DiscoveryTypeParts
<1>2. CrawlTyped' /\ OutputTyped'
  BY <1>1, FetchTyped, FetchFailsTyped, MapTyped, PublishTyped, NewPollTyped, ListTyped
  DEF DiscoveryNext, CrawlStep
<1>3. QED  BY <1>2, DiscoveryTypeParts, PTL

LEMMA OneElement ==
  ASSUME NEW S, NEW x \in Seq(S), NEW y \in S, Len(x) = 1, x[1] = y
  PROVE  x = <<y>>
OBVIOUS

\* What is left to add once a token has been.
LEMMA AddingType ==
  ASSUME adding \in {<<>>} \cup Pairs \cup {<<t>> : t \in Token}, adding # <<>>
  PROVE  Head(adding) \in Token /\ Tail(adding) \in {<<>>} \cup {<<t>> : t \in Token}
<1>1. CASE adding \in Pairs
  <2>1. adding \in Seq(Token) /\ Len(adding) = 2
    BY <1>1, PairAssumption
  <2>2. adding[1] \in Token /\ adding[2] \in Token
    BY <2>1
  <2>3. /\ Head(adding) = adding[1]
        /\ Tail(adding) \in Seq(Token) /\ Len(Tail(adding)) = 1 /\ Tail(adding)[1] = adding[2]
    BY <2>1
  <2>4. Tail(adding) = <<adding[2]>>
    <3>1. PICK x \in Seq(Token), y \in Token : x = Tail(adding) /\ y = adding[2] /\ Len(x) = 1 /\ x[1] = y
      BY <2>2, <2>3
    <3>2. x = <<y>>
      BY <3>1, OneElement
    <3>3. QED  BY <3>1, <3>2
  <2>5. QED  BY <2>2, <2>3, <2>4
<1>2. ASSUME NEW t \in Token, adding = <<t>>
      PROVE  Head(adding) \in Token /\ Tail(adding) = <<>>
  BY <1>2
<1>3. QED  BY <1>1, <1>2

LEMMA WorkerStepTyped ==
  ASSUME WorkerTypeOK, WorkerStep
  PROVE  WorkerTypeOK'
<1> USE WorkerBounds DEF WorkerTypeOK, worker, wire
<1>1. CASE Dial            BY <1>1 DEF Dial
<1>2. CASE WaitEnds        BY <1>2 DEF WaitEnds, Doubled
<1>3. CASE Connect
  <2>1. client' \in 0..conn' /\ conn' \in 0..MaxConns /\ backoff' \in 1..MaxBackoff
    BY <1>3 DEF Connect
  <2>2. asked' \subseteq Token /\ subscribed' \in BOOLEAN /\ stage' = "reading"
    BY <1>3 DEF Connect, InitialSubscription
  <2>3. UNCHANGED <<tokens, adding, alive, crashes>>
    BY <1>3 DEF Connect
  <2>4. QED  BY <2>1, <2>2, <2>3
<1>4. CASE ReadFails       BY <1>4 DEF ReadFails
<1>5. CASE DialFails       BY <1>5 DEF DialFails
<1>6. CASE Stop            BY <1>6 DEF Stop
<1>7. CASE ConnectionDies  BY <1>7 DEF ConnectionDies
<1>8. CASE Crash
  <2>1. client' \in 0..conn' /\ conn' \in 0..MaxConns /\ backoff' \in 1..MaxBackoff /\ crashes' \in 0..MaxCrashes
    BY <1>8 DEF Crash
  <2>2. stage' = "looping" /\ tokens' = {} /\ subscribed' = FALSE /\ alive' = FALSE /\ asked' = asked
    BY <1>8 DEF Crash
  <2>3. adding' \in {<<>>} \cup Pairs \cup {<<t>> : t \in Token}
    BY <1>8 DEF Crash
  <2>4. QED  BY <2>1, <2>2, <2>3
<1>9. CASE AddToken
  <2> DEFINE t == Head(adding)
  <2>1. t \in Token /\ adding' \in {<<>>} \cup Pairs \cup {<<x>> : x \in Token}
    BY <1>9, AddingType DEF AddToken
  <2>2. UNCHANGED <<stage, client, backoff, conn, alive, crashes>>
    BY <1>9 DEF AddToken
  <2>3. tokens' \subseteq Token /\ asked' \subseteq Token
    BY <1>9, <2>1 DEF AddToken, AsksFor
  <2>4. subscribed' \in BOOLEAN
    BY <1>9 DEF AddToken
  <2>5. QED  BY <2>1, <2>2, <2>3, <2>4
<1>10. QED  BY <1>1, <1>2, <1>3, <1>4, <1>5, <1>6, <1>7, <1>8, <1>9 DEF WorkerStep, Run

\* The reader hands over a pair of tokens, or drops the message.
LEMMA TakeTyped ==
  ASSUME TypeOK, Take \/ TakeFails
  PROVE  TypeOK'
<1>1. tokenTopic # <<>> /\ tokenTopic' = Tail(tokenTopic)
  BY DEF Take, TakeFails
<1>2. tokenTopic \in Seq(TwoTokens) /\ Len(tokenTopic) <= MaxPending /\ MaxPending \in Nat
  BY DiscoveryBounds DEF TypeOK, DiscoveryTypeOK
<1>3. tokenTopic' \in Seq(TwoTokens) /\ Len(tokenTopic') <= MaxPending /\ Head(tokenTopic) \in TwoTokens
  BY <1>1, <1>2
<1>4. UNCHANGED <<list, at, offset, page, attempt, mapped, changes, met, disturbed, unmapped>>
  BY DEF Take, TakeFails
<1>5. fails' \in 0..MaxFailures
  BY DiscoveryBounds DEF Take, TakeFails, Fail, TypeOK, DiscoveryTypeOK
<1>6. DiscoveryTypeOK'
  BY <1>3, <1>4, <1>5 DEF TypeOK, DiscoveryTypeOK
<1>7. adding' = Tokens[Head(tokenTopic)] \/ adding' = adding
  BY DEF Take, TakeFails, Fetch, workerVars
<1>8. Tokens[Head(tokenTopic)] \in Pairs
  BY <1>3, TokensAssumption
<1>9. UNCHANGED <<stage, worker, backoff, wire, crashes>>
  BY DEF Take, TakeFails, Fetch, workerVars
<1>10. WorkerTypeOK'
  BY <1>7, <1>8, <1>9 DEF TypeOK, WorkerTypeOK, worker, wire
<1>11. QED  BY <1>6, <1>10 DEF TypeOK

\* Every variable of both processes has its type: a crawl holds a page exactly
\* while it processes one, and a worker's reader is one of the connections dialed.
THEOREM TypesHold == Spec => []TypeOK
<1>1. Init => TypeOK
  <2> SUFFICES ASSUME Init PROVE TypeOK
    OBVIOUS
  <2>1. DiscoveryTypeOK
    BY MarketAssumption, DiscoveryBounds DEF Init, DiscoveryInit, DiscoveryTypeOK
  <2>2. WorkerTypeOK
    <3>1. client \in 0..conn /\ conn \in 0..MaxConns /\ backoff \in 1..MaxBackoff /\ crashes \in 0..MaxCrashes
      BY WorkerBounds DEF Init, WorkerInit
    <3>2. adding \in {<<>>} \cup Pairs \cup {<<t>> : t \in Token}
      BY DEF Init, WorkerInit
    <3>3. QED  BY <3>1, <3>2 DEF Init, WorkerInit, WorkerTypeOK
  <2>3. QED  BY <2>1, <2>2 DEF TypeOK
<1>2. TypeOK /\ [Next]_vars => TypeOK'
  <2> SUFFICES ASSUME TypeOK, [Next]_vars PROVE TypeOK'
    OBVIOUS
  <2>1. CASE DiscoveryNext /\ UNCHANGED workerVars
    <3>1. WorkerTypeOK'
      BY <2>1 DEF TypeOK, WorkerTypeOK, workerVars, worker, wire
    <3>2. QED  BY <2>1, <3>1, DiscoveryTyped DEF TypeOK
  <2>2. CASE WorkerStep /\ UNCHANGED discoveryVars
    <3>1. DiscoveryTypeOK'
      BY <2>2 DEF TypeOK, DiscoveryTypeOK, discoveryVars, crawls, outputs, bounds
    <3>2. QED  BY <2>2, <3>1, WorkerStepTyped DEF TypeOK
  <2>3. CASE UNCHANGED vars
    BY <2>3 DEF vars, TypeOK, DiscoveryTypeOK, WorkerTypeOK, discoveryVars, crawls, outputs, bounds,
                workerVars, worker, wire
  <2>4. QED  BY <2>1, <2>2, <2>3, TakeTyped DEF Next
<1>3. QED  BY <1>1, <1>2, PTL DEF Spec

---------------------------------------------------------------------------
(* What a crawl has met                                                    *)

\* How many items of its list a crawl has fetched.
Reached(c) == Least(offset[c] + (IF at[c] \in {"mapping", "publishing"} THEN Limit ELSE 0), Len(list[c]))

\* Unless it was disturbed, what a crawl has met and what is left of its page
\* are the items it has fetched, laid flat; and it ends behind the last one.
InStep(c) ==
  /\ met[c] \o page[c] = FlattenSeq(SubSeq(list[c], 1, Reached(c)))
  /\ at[c] = "ended" => Len(list[c]) <= offset[c]

CrawlInv == \A c \in Crawl : ~disturbed[c] => InStep(c)

\* A crawl a step does not touch.
LEMMA OthersInStep ==
  ASSUME NEW d \in Crawl, InStep(d),
         list'[d] = list[d], at'[d] = at[d], offset'[d] = offset[d], page'[d] = page[d], met'[d] = met[d]
  PROVE  InStep(d)'
BY DEF InStep, Reached

\* A page comes up: the items behind the ones that were met.
LEMMA FetchInStep ==
  ASSUME CrawlTyped, NEW c \in Crawl, FetchPage(c), InStep(c)
  PROVE  InStep(c)'
<1> DEFINE items == SubSeq(list[c], offset[c] + 1, Least(offset[c] + Limit, Len(list[c])))
           found == FlattenSeq(items)
           next  == items # <<>> /\ found = <<>>
<1>1. /\ at[c] = "fetching"
      /\ page' = [page EXCEPT ![c] = found]
      /\ at' = [at EXCEPT ![c] = IF items = <<>> THEN "ended" ELSE IF next THEN @ ELSE "mapping"]
      /\ offset' = [offset EXCEPT ![c] = IF next THEN @ + Limit ELSE @]
      /\ list' = list /\ met' = met
  BY DEF FetchPage, NextOffset
<1>2. list[c] \in Seq(Seq(Market)) /\ offset[c] \in Nat /\ met[c] \in Seq(Market) /\ page[c] = <<>>
  BY <1>1 DEF CrawlTyped
<1>3. PICK a, b : a = Least(offset[c], Len(list[c])) /\ b = Least(offset[c] + Limit, Len(list[c]))
  OBVIOUS
<1>4. /\ found \in Seq(Market)
      /\ FlattenSeq(SubSeq(list[c], 1, b)) = FlattenSeq(SubSeq(list[c], 1, a)) \o found
      /\ items = <<>> <=> Len(list[c]) <= offset[c]
  BY <1>2, <1>3, PageOfList
<1>5. met[c] = FlattenSeq(SubSeq(list[c], 1, a))
  <2>1. met[c] \o page[c] = met[c]
    BY <1>2, ConcatEmptySeq
  <2>2. Reached(c) = a
    <3>1. offset[c] + 0 = offset[c]
      BY <1>2
    <3>2. QED  BY <1>1, <1>3, <3>1 DEF Reached
  <2>3. QED  BY <2>1, <2>2 DEF InStep
<1>6. FlattenSeq(SubSeq(list[c], 1, b)) = met[c] \o found
  BY <1>4, <1>5
<1>7. page'[c] = found /\ met'[c] = met[c] /\ list'[c] = list[c]
  BY <1>1, <1>2 DEF CrawlTyped
<1>8. items = <<>> => found = <<>>
  <2>1. FlattenSeq(<<>>) = <<>>
    BY FlattenNone
  <2>2. QED  BY <2>1
<1> HIDE DEF items, found
<1>9. CASE items = <<>>
  <2>1. at'[c] = "ended" /\ offset'[c] = offset[c]
    BY <1>1, <1>9 DEF CrawlTyped
  <2>2. Reached(c)' = a
    <3>1. offset[c] + 0 = offset[c]
      BY <1>2
    <3>2. QED  BY <1>3, <1>7, <2>1, <3>1 DEF Reached
  <2>3. met[c] \o found = met[c]
    BY <1>2, <1>8, <1>9, ConcatEmptySeq
  <2>4. QED  BY <1>4, <1>5, <1>7, <1>9, <2>1, <2>2, <2>3 DEF InStep
<1>10. CASE items # <<>> /\ found = <<>>
  <2>1. at'[c] = "fetching" /\ offset'[c] = offset[c] + Limit
    BY <1>1, <1>10 DEF CrawlTyped
  <2>2. Reached(c)' = b
    <3>1. (offset[c] + Limit) + 0 = offset[c] + Limit
      BY <1>2, DiscoveryBounds
    <3>2. QED  BY <1>3, <1>7, <2>1, <3>1 DEF Reached
  <2>3. QED  BY <1>6, <1>7, <2>1, <2>2 DEF InStep
<1>11. CASE items # <<>> /\ found # <<>>
  <2>1. at'[c] = "mapping" /\ offset'[c] = offset[c]
    BY <1>1, <1>11 DEF CrawlTyped
  <2>2. Reached(c)' = b
    BY <1>3, <1>7, <2>1 DEF Reached
  <2>3. QED  BY <1>6, <1>7, <2>1, <2>2 DEF InStep
<1>12. QED  BY <1>9, <1>10, <1>11

\* The first market of the page goes from there to what was met.
LEMMA MoveOver ==
  ASSUME NEW S, NEW p \in Seq(S), NEW q \in Seq(S), q # <<>>
  PROVE  Append(p, Head(q)) \o Tail(q) = p \o q
OBVIOUS

LEMMA PublishInStep ==
  ASSUME CrawlTyped, NEW c \in Crawl, PublishTokens(c), InStep(c)
  PROVE  InStep(c)'
<1> DEFINE m == Head(page[c])
           rest == Tail(page[c])
<1>1. /\ at[c] = "publishing"
      /\ met' = [met EXCEPT ![c] = Append(@, m)]
      /\ page' = [page EXCEPT ![c] = rest]
      /\ at' = [at EXCEPT ![c] = IF rest = <<>> THEN "fetching" ELSE "mapping"]
      /\ offset' = [offset EXCEPT ![c] = IF rest = <<>> THEN @ + Limit ELSE @]
      /\ list' = list
  BY DEF PublishTokens, NextOffset
<1>2. page[c] # <<>> /\ page[c] \in Seq(Market) /\ met[c] \in Seq(Market) /\ offset[c] \in Nat
  BY <1>1 DEF CrawlTyped
<1>3. Append(met[c], m) \o rest = met[c] \o page[c]
  BY <1>2, MoveOver
<1> HIDE DEF m, rest
<1>4. met'[c] = Append(met[c], m) /\ page'[c] = rest
  BY <1>1 DEF CrawlTyped
<1>5. Reached(c)' = Reached(c) /\ at'[c] # "ended"
  <2>1. CASE rest = <<>>
    <3>1. at'[c] = "fetching" /\ offset'[c] = offset[c] + Limit
      BY <1>1, <2>1 DEF CrawlTyped
    <3>2. (offset[c] + Limit) + 0 = offset[c] + Limit
      BY <1>2, DiscoveryBounds
    <3>3. QED  BY <1>1, <3>1, <3>2 DEF Reached
  <2>2. CASE rest # <<>>
    <3>1. at'[c] = "mapping" /\ offset'[c] = offset[c]
      BY <1>1, <2>2 DEF CrawlTyped
    <3>2. QED  BY <1>1, <3>1 DEF Reached
  <2>3. QED  BY <2>1, <2>2
<1>6. QED  BY <1>1, <1>3, <1>4, <1>5 DEF InStep

LEMMA MapInStep ==
  ASSUME CrawlTyped, NEW c \in Crawl, MapTokens(c), InStep(c)
  PROVE  InStep(c)'
<1>1. /\ at[c] = "mapping" /\ at'[c] = "publishing"
      /\ UNCHANGED <<list, offset, page, met>>
  BY DEF MapTokens, CrawlTyped
<1>2. Reached(c)' = Reached(c)
  BY <1>1 DEF Reached
<1>3. QED  BY <1>1, <1>2 DEF InStep

\* A crawl that begins has met nothing, and fetched nothing.
LEMMA FreshInStep ==
  ASSUME NEW s \in Seq(Seq(Market))
  PROVE  <<>> \o <<>> = FlattenSeq(SubSeq(s, 1, Least(0 + 0, Len(s))))
<1>1. Least(0 + 0, Len(s)) = 0
  <2>1. Len(s) \in Nat /\ 0 + 0 = 0
    BY LenProperties
  <2>2. QED  BY <2>1 DEF Least
<1>2. SubSeq(s, 1, 0) = <<>>
  OBVIOUS
<1>3. FlattenSeq(<<>>) = <<>> /\ <<>> \in Seq(Market)
  BY FlattenNone
<1>4. <<>> \o <<>> = <<>>
  BY <1>3, ConcatEmptySeq
<1>5. QED  BY <1>1, <1>2, <1>3, <1>4

LEMMA NewPollInStep ==
  ASSUME CrawlTyped, StartPoll \/ Restart
  PROVE  CrawlInv'
<1>1. NewPoll /\ UNCHANGED list
  BY DEF StartPoll, Restart
<1>2. ASSUME NEW c \in Crawl PROVE InStep(c)'
  <2>1. at'[c] = "fetching" /\ offset'[c] = 0 /\ page'[c] = <<>> /\ met'[c] = <<>> /\ list'[c] = list[c]
    BY <1>1 DEF NewPoll
  <2>2. list[c] \in Seq(Seq(Market))
    BY DEF CrawlTyped
  <2>3. QED  BY <2>1, <2>2, FreshInStep DEF InStep, Reached
<1>3. QED  BY <1>2 DEF CrawlInv

\* A step of one crawl that keeps it in step keeps all of them.
LEMMA CrawlStepInStep ==
  ASSUME CrawlTyped, CrawlInv, NEW c \in Crawl, CrawlStep(c)
  PROVE  CrawlInv'
<1>1. UNCHANGED disturbed
  BY DEF CrawlStep, FetchPage, MapTokens, PublishTokens
<1>2. ~disturbed[c] => InStep(c)'
  BY FetchInStep, MapInStep, PublishInStep DEF CrawlInv, CrawlStep
<1>3. ASSUME NEW d \in Crawl, d # c, ~disturbed[d] PROVE InStep(d)'
  <2>1. list'[d] = list[d] /\ at'[d] = at[d] /\ offset'[d] = offset[d] /\ page'[d] = page[d] /\ met'[d] = met[d]
    BY <1>3 DEF CrawlStep, FetchPage, MapTokens, PublishTokens, CrawlTyped
  <2>2. QED  BY <1>3, <2>1, OthersInStep DEF CrawlInv
<1>4. QED  BY <1>1, <1>2, <1>3 DEF CrawlInv

\* A request that fails for good gives up the crawl.
LEMMA FetchFailsInStep ==
  ASSUME CrawlTyped, CrawlInv, NEW c \in Crawl, FetchFails(c)
  PROVE  CrawlInv'
<1>1. UNCHANGED <<list, offset, page, met>>
  BY DEF FetchFails
<1>2. ASSUME NEW d \in Crawl, ~disturbed'[d] PROVE ~disturbed[d] /\ at'[d] = at[d]
  BY <1>2 DEF FetchFails, CrawlTyped
<1>3. ASSUME NEW d \in Crawl, ~disturbed'[d] PROVE InStep(d)'
  BY <1>1, <1>2, <1>3, OthersInStep DEF CrawlInv
<1>4. QED  BY <1>3 DEF CrawlInv

\* A crawl that ends undisturbed has met every listed market once, in order
\* (discovery/main.go: the offset of discoverMarkets and discoverEvents).
THEOREM CrawlsAreComplete == Spec => []CrawlComplete
<1>1. Init => CrawlInv
  <2> SUFFICES ASSUME Init, NEW c \in Crawl PROVE InStep(c)
    BY DEF CrawlInv
  <2>1. at[c] = "fetching" /\ offset[c] = 0 /\ page[c] = <<>> /\ met[c] = <<>>
    BY DEF Init, DiscoveryInit
  <2>2. list[c] \in Seq(Seq(Market))
    BY MarketAssumption DEF Init, DiscoveryInit
  <2>3. QED  BY <2>1, <2>2, FreshInStep DEF InStep, Reached
<1>2. TypeOK /\ CrawlInv /\ [Next]_vars => CrawlInv'
  <2> SUFFICES ASSUME TypeOK, CrawlInv, [Next]_vars PROVE CrawlInv'
    OBVIOUS
  <2>1. CrawlTyped
    BY DiscoveryTypeParts DEF TypeOK
  <2>2. CASE UNCHANGED <<list, at, offset, page, met, disturbed>>
    BY <2>2 DEF CrawlInv, InStep, Reached
  <2>3. CASE DiscoveryNext
    <3>1. ASSUME NEW m \in Market, MarketCloses(m) \/ MarketOpens(m) PROVE CrawlInv'
      <4>1. disturbed' = [c \in Crawl |-> TRUE]
        BY <3>1 DEF MarketCloses, MarketOpens, Change
      <4>2. QED  BY <4>1 DEF CrawlInv
    <3>2. QED  BY <2>1, <2>3, <3>1, NewPollInStep, CrawlStepInStep, FetchFailsInStep DEF DiscoveryNext
  <2>4. CASE Take \/ TakeFails \/ (WorkerStep /\ UNCHANGED discoveryVars) \/ UNCHANGED vars
    BY <2>2, <2>4 DEF Take, TakeFails, vars, discoveryVars, crawls
  <2>5. QED  BY <2>3, <2>4 DEF Next
<1>3. TypeOK /\ CrawlInv => CrawlComplete
  <2> SUFFICES ASSUME TypeOK, CrawlInv, NEW c \in Crawl, at[c] = "ended", ~disturbed[c]
               PROVE  met[c] = FlattenSeq(list[c])
    BY DEF CrawlComplete, Listed
  <2>1. /\ list[c] \in Seq(Seq(Market)) /\ met[c] \in Seq(Market) /\ page[c] = <<>> /\ offset[c] \in Nat
        /\ InStep(c)
    BY DiscoveryTypeParts DEF TypeOK, CrawlTyped, CrawlInv
  <2>2. Reached(c) = Len(list[c])
    <3>1. PICK n \in Nat : n = Len(list[c])
      BY <2>1, LenProperties
    <3>2. n <= offset[c] /\ offset[c] + 0 = offset[c]
      BY <2>1, <3>1 DEF InStep
    <3>3. Reached(c) = Least(offset[c], n)
      BY <3>1, <3>2 DEF Reached
    <3>4. QED  BY <2>1, <3>1, <3>2, <3>3 DEF Least
  <2>3. SubSeq(list[c], 1, Len(list[c])) = list[c]
    BY <2>1, WholeSeq
  <2>4. met[c] \o <<>> = met[c]
    BY <2>1, ConcatEmptySeq
  <2>5. QED  BY <2>1, <2>2, <2>3, <2>4 DEF InStep
<1>4. QED  BY <1>1, <1>2, <1>3, TypesHold, PTL DEF Spec

===========================================================================
