--------------------------- MODULE MarketStreaming --------------------------
(***************************************************************************)
(* From a market at Polymarket to its price stream: the discovery service  *)
(* publishes tokens on pmaxis.tokens.extracted, and the manager of the     *)
(* stream workers reads them from there.  Discovery and ingestion are two  *)
(* processes and restart apart from each other.                            *)
(***************************************************************************)
EXTENDS Discovery, StreamWorker

CONSTANT Tokens   \* per market, its <<TokenYes, TokenNo>>

TokensOf(m) == {Tokens[m][1], Tokens[m][2]}

ASSUME TokensAssumption ==
  /\ Pairs = {Tokens[m] : m \in TwoTokens}
  /\ \A m, n \in TwoTokens : m # n => TokensOf(m) \cap TokensOf(n) = {}

vars == <<discoveryVars, workerVars>>

TypeOK == DiscoveryTypeOK /\ WorkerTypeOK

Init == DiscoveryInit /\ WorkerInit

\* The manager's reader takes the next message and commits it.
Take ==
  /\ tokenTopic # <<>>
  /\ Fetch(Tokens[Head(tokenTopic)])
  /\ tokenTopic' = Tail(tokenTopic)
  /\ UNCHANGED <<list, at, offset, page, attempt, mapped, changes, fails, met, disturbed, unmapped>>

\* The commit fails: the loop goes on without the message.
TakeFails ==
  /\ tokenTopic # <<>>
  /\ adding = <<>> /\ stage # "stopped"
  /\ Fail
  /\ tokenTopic' = Tail(tokenTopic)
  /\ UNCHANGED <<list, at, offset, page, attempt, mapped, changes, met, disturbed, unmapped, workerVars>>

WorkerStep ==
  \/ Run
  \/ DialFails
  \/ Stop
  \/ AddToken
  \/ ConnectionDies
  \/ Crash

Next ==
  \/ DiscoveryNext /\ UNCHANGED workerVars
  \/ WorkerStep /\ UNCHANGED discoveryVars
  \/ Take
  \/ TakeFails

Spec == Init /\ [][Next]_vars

\* The goroutines of both processes run and a dead connection's read fails; a
\* dial that is tried again and again succeeds.
FairSpec ==
  /\ Spec
  /\ DiscoveryFairness
  /\ WF_vars(Run /\ UNCHANGED discoveryVars)
  /\ SF_vars(Dial /\ UNCHANGED discoveryVars)
  /\ WF_vars(AddToken /\ UNCHANGED discoveryVars)
  /\ WF_vars(Take)

---------------------------------------------------------------------------
(* Properties                                                              *)

\* A token that is streamed can be resolved to its market, by the storage and
\* processor services that look it up in Redis: discovery writes the keys
\* before it publishes the tokens, so that only a failed Redis call leaves one
\* out.
StreamedTokensResolve ==
  \A m \in TwoTokens : TokensOf(m) \cap (tokens \cup asked) # {} => m \in mapped \cup unmapped

Open(m) == m \in UNION {ToSet(Listed(c)) : c \in Crawl}

\* Every market that stays open is streamed in the end, for good: although a
\* crawl that is overtaken by a change skips markets, pages and publications
\* fail, either process restarts, and ingestion keeps its tokens in memory only.
EveryMarketStreamed ==
  \A m \in TwoTokens :
    <>[](~Open(m) \/ stage = "stopped" \/ (alive /\ TokensOf(m) \subseteq asked))

===========================================================================
