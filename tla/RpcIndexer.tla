---------------------------- MODULE RpcIndexer -----------------------------
(***************************************************************************)
(* The on-chain indexer of services/ingestion: the RPC endpoint rotator    *)
(* (rpcRotator) and the goroutine that runs one indexing cycle after       *)
(* another on the endpoint it picked (startIndexerComponent and            *)
(* runIndexerCycle).                                                       *)
(*                                                                         *)
(* Time is counted in the 5 s the outer loop sleeps after a failure: a     *)
(* bench of 2 minutes is a number of such units left, and a unit can pass  *)
(* whenever the goroutine waits.  The chain is a head number that grows;   *)
(* a block stands for its logs.                                            *)
(***************************************************************************)
EXTENDS Integers, Sequences

CONSTANTS
  N,              \* number of endpoints; endpoint u is urls[u]
  WebSocketRPC,   \* endpoints on which SubscribeFilterLogs works
  Reliable,       \* endpoints whose calls succeed and are current, outages apart
  Dead,           \* endpoints on which every call fails
  Frozen,         \* endpoints that answer, but whose head never moves
  Cooldown,       \* bench time in units (2 min = 24 units of 5 s in the code)
  MaxErrors,      \* maxConsecutiveErrors (3)
  Back,           \* how far back a polling cycle starts (5)
  Span,           \* to - from is at most this (40)
  Lag,            \* how far an endpoint that is not Reliable may lag behind
  StartHead,      \* bound: head of the chain when the process starts
  MaxHead         \* bound: the chain stops growing here

Endpoint == 0..(N - 1)

ASSUME PoolAssumption    == /\ N \in Nat \ {0}
                            /\ WebSocketRPC \subseteq Endpoint
                            /\ Reliable \subseteq Endpoint
                            /\ Dead \subseteq Endpoint \ Reliable
                            /\ Frozen \subseteq Endpoint \ (Reliable \cup Dead)
ASSUME CadenceAssumption == Cooldown \in Nat \ {0} /\ MaxErrors \in Nat \ {0}
ASSUME RangeAssumption   == Back \in Nat /\ Span \in Nat /\ Lag \in Nat
\* Block numbers are far above Back + Lag, so currentBlock - 5 does not wrap and
\* 0 is free to mean "no block yet".
ASSUME ChainAssumption   == StartHead \in Nat /\ MaxHead \in Nat
                            /\ StartHead > Back + Lag /\ MaxHead >= StartHead

VARIABLES
  idx,           \* rpcRotator.idx
  cool,          \* units until rpcRotator.benched[u] lies in the past, 0 = not benched
  stage,         \* where the indexer goroutine is
  url,           \* the endpoint of the current cycle
  headerErrors, logErrors, lastBlock, from, to,   \* locals of runIndexerCycle
  head,          \* the chain
  outage,        \* nobody is reachable
  start,         \* history: lastBlock when the cycle got its first block number
  cycle,         \* history: blocks processed by this cycle, in order
  highest        \* history: highest block processed so far

rotator == <<idx, cool>>
locals  == <<url, headerErrors, logErrors, lastBlock, from, to>>
world   == <<head, outage>>
history == <<start, cycle, highest>>
vars    == <<rotator, stage, locals, world, history>>

Stage == {"picking", "dialing", "polling", "fetching", "streaming", "sleeping", "stopped"}
Block == 1..MaxHead

TypeOK ==
  /\ idx \in Endpoint
  /\ cool \in [Endpoint -> 0..Cooldown]
  /\ stage \in Stage
  /\ url \in Endpoint
  /\ headerErrors \in 0..(MaxErrors - 1)
  /\ logErrors \in 0..(MaxErrors - 1)
  /\ lastBlock \in 0..MaxHead
  /\ from \in 0..MaxHead
  /\ to \in 0..MaxHead
  /\ head \in StartHead..MaxHead
  /\ outage \in BOOLEAN
  /\ start \in 0..MaxHead
  /\ cycle \in Seq(Block)
  /\ highest \in 0..MaxHead

Init ==
  /\ idx = 0
  /\ cool = [u \in Endpoint |-> 0]
  /\ stage = "picking"
  /\ url = 0
  /\ headerErrors = 0
  /\ logErrors = 0
  /\ lastBlock = 0
  /\ from = 0
  /\ to = 0
  /\ head = StartHead
  /\ outage \in BOOLEAN
  /\ start = 0
  /\ cycle = <<>>
  /\ highest = 0

---------------------------------------------------------------------------
(* Mutated forms of definitions below: plausible bugs, each used in place  *)
(* of its original to show that a property would notice it.                *)

\* a bench that never ends
ElapseNever == UNCHANGED cool

\* the last block of a chunk fetched again with the next one
NextBlockOverlaps(current) == IF lastBlock = 0 THEN current - Back ELSE lastBlock

\* every cycle starts over from the first block
ResumeFromGenesis(current) == IF lastBlock = 0 THEN 1 ELSE lastBlock

---------------------------------------------------------------------------
(* rpcRotator                                                              *)

Benched(u) == cool[u] > 0

\* pick tries urls[idx], urls[idx+1], ... once around; these are the numbers of
\* steps after which it meets an endpoint that is not benched.
Free == {i \in 0..(N - 1) : ~Benched((idx + i) % N)}

\* pick: the first endpoint that is not benched; when all are, idx has gone
\* once around and is where it was.
Pick ==
  /\ stage = "picking"
  /\ \/ /\ Free = {}
        /\ url' = idx
        /\ UNCHANGED idx
     \/ \E i \in Free :
          /\ \A j \in Free : i <= j
          /\ url' = (idx + i) % N
          /\ idx' = (idx + i + 1) % N
  /\ stage' = "dialing"
  /\ UNCHANGED <<cool, headerErrors, logErrors, lastBlock, from, to, world, history>>

\* A unit of time goes by.
Elapse == cool' = [u \in Endpoint |-> IF cool[u] > 0 THEN cool[u] - 1 ELSE 0]

\* The cycle returned an error: bench(rpcURL, 2*time.Minute), then sleep.  The
\* locals of runIndexerCycle are gone.
Fail ==
  /\ cool' = [cool EXCEPT ![url] = Cooldown]
  /\ stage' = "sleeping"
  /\ headerErrors' = 0
  /\ logErrors' = 0
  /\ lastBlock' = 0
  /\ from' = 0
  /\ to' = 0
  /\ start' = 0
  /\ cycle' = <<>>
  /\ UNCHANGED <<idx, url, world, highest>>

SleepEnds ==
  /\ stage = "sleeping"
  /\ Elapse
  /\ stage' = "picking"
  /\ UNCHANGED <<idx, locals, world, history>>

---------------------------------------------------------------------------
(* runIndexerCycle                                                         *)

MayFail(u)    == outage \/ u \notin Reliable
MaySucceed(u) == ~outage /\ u \notin Dead

\* Latest block numbers endpoint u may report.
Heads(u) ==
  IF u \in Reliable THEN {head}
  ELSE IF u \in Frozen THEN {StartHead}
  ELSE (head - Lag)..head

DialFails ==
  /\ stage = "dialing"
  /\ MayFail(url)
  /\ Fail

\* The endpoint takes a subscription, which starts at the chain's head;
\* lastBlock then stands for the last block the subscription has pushed.
SubscribeLogs ==
  /\ stage = "dialing"
  /\ MaySucceed(url)
  /\ url \in WebSocketRPC
  /\ stage' = "streaming"
  /\ lastBlock' = head
  /\ start' = head
  /\ UNCHANGED <<rotator, url, headerErrors, logErrors, from, to, world, cycle, highest>>

\* No subscription (an HTTPS endpoint, or the call failed): poll.
FallBackToPolling ==
  /\ stage = "dialing"
  /\ MaySucceed(url)
  /\ url \notin WebSocketRPC \/ MayFail(url)
  /\ stage' = "polling"
  /\ UNCHANGED <<rotator, locals, world, history>>

Highest(b) == IF b > highest THEN b ELSE highest

StreamLog ==
  /\ stage = "streaming"
  /\ MaySucceed(url)
  /\ lastBlock < head
  /\ lastBlock' = lastBlock + 1
  /\ cycle' = Append(cycle, lastBlock + 1)
  /\ highest' = Highest(lastBlock + 1)
  /\ UNCHANGED <<rotator, stage, url, headerErrors, logErrors, from, to, world, start>>

StreamFails ==
  /\ stage = "streaming"
  /\ MayFail(url)
  /\ Fail

HeaderFails ==
  /\ stage = "polling"
  /\ MayFail(url)
  /\ IF headerErrors + 1 >= MaxErrors
     THEN Fail
     ELSE /\ headerErrors' = headerErrors + 1
          /\ UNCHANGED <<rotator, stage, url, logErrors, lastBlock, from, to, world, history>>

\* lastBlock after "if lastBlock == 0 { lastBlock = currentBlock - 5 }"
Resume(current) == IF lastBlock = 0 THEN current - Back ELSE lastBlock

NextBlock(current) == Resume(current) + 1

ChunkEnd(first, current) == IF current - first > Span THEN first + Span ELSE current

HeaderOK(current) ==
  /\ stage = "polling"
  /\ MaySucceed(url)
  /\ headerErrors' = 0
  /\ lastBlock' = Resume(current)
  /\ start' = IF lastBlock = 0 THEN Resume(current) ELSE start
  /\ IF current <= Resume(current)
     THEN UNCHANGED <<stage, from, to>>
     ELSE /\ from' = NextBlock(current)
          /\ to' = ChunkEnd(NextBlock(current), current)
          /\ stage' = "fetching"
  /\ UNCHANGED <<rotator, url, logErrors, world, cycle, highest>>

FilterFails ==
  /\ stage = "fetching"
  /\ MayFail(url)
  /\ IF logErrors + 1 >= MaxErrors
     THEN Fail
     ELSE /\ logErrors' = logErrors + 1
          /\ stage' = "polling"
          /\ UNCHANGED <<rotator, url, headerErrors, lastBlock, from, to, world, history>>

Blocks(first, final) == [i \in 1..(final - first + 1) |-> first + i - 1]

FilterOK ==
  /\ stage = "fetching"
  /\ MaySucceed(url)
  /\ logErrors' = 0
  /\ cycle' = cycle \o Blocks(from, to)
  /\ highest' = Highest(to)
  /\ lastBlock' = to
  /\ stage' = "polling"
  /\ UNCHANGED <<rotator, url, headerErrors, from, to, world, start>>

\* ctx.Done, seen by the outer loop or by either loop of the cycle
Stop ==
  /\ stage \in {"picking", "polling", "streaming"}
  /\ stage' = "stopped"
  /\ UNCHANGED <<rotator, locals, world, history>>

---------------------------------------------------------------------------
(* The world                                                               *)

\* A dial, a poll interval or a quiet subscription takes a unit of time.
TimePasses ==
  /\ stage \in {"dialing", "polling", "fetching", "streaming"}
  /\ \E u \in Endpoint : Benched(u)
  /\ Elapse
  /\ UNCHANGED <<idx, stage, locals, world, history>>

ChainGrows ==
  /\ head < MaxHead
  /\ head' = head + 1
  /\ UNCHANGED <<rotator, stage, locals, outage, history>>

OutageEnds ==
  /\ outage
  /\ outage' = FALSE
  /\ UNCHANGED <<rotator, stage, locals, head, history>>

Poll ==
  \/ HeaderFails
  \/ \E current \in Heads(url) : HeaderOK(current)
  \/ FilterFails
  \/ FilterOK

Indexer ==
  \/ Pick
  \/ DialFails
  \/ SubscribeLogs
  \/ FallBackToPolling
  \/ StreamLog
  \/ StreamFails
  \/ Poll
  \/ SleepEnds

Next == Indexer \/ Stop \/ TimePasses \/ ChainGrows \/ OutageEnds

Spec == Init /\ [][Next]_vars

\* The goroutine keeps running: every dial and RPC call returns, the ticker
\* fires and sleeps end.  A network outage is taken to end.
FairSpec == Spec /\ WF_vars(Indexer) /\ WF_vars(OutageEnds)

---------------------------------------------------------------------------
(* Properties                                                              *)

\* Within a cycle every block after its starting point is processed exactly
\* once and in order, through retried calls, lagging heads and chunking: a
\* failed FilterLogs (main.go:503-511) repeats the same range, and nothing is
\* skipped or processed again.
CycleInOrder ==
  cycle = Blocks(start + 1, lastBlock)

\* A benched endpoint is used only when every endpoint is benched.
PicksFree ==
  [][stage = "picking" /\ stage' = "dialing" =>
       ~Benched(url') \/ \A u \in Endpoint : Benched(u)]_vars

\* A new cycle, whatever the previous one had reached and however far the new
\* endpoint lags, processes again no more than Back + Lag blocks.
ReplayBounded ==
  [][start = 0 /\ start' > 0 /\ url \notin Frozen => highest - start' <= Back + Lag]_vars

\* The one thing that keeps the indexer from the head of the chain: however
\* endpoints fail, lag and recover, and after an outage of all of them, it is
\* again and again as near to the head as the endpoints that are up, or it polls
\* an endpoint for ever that answers with a head which never moves: that is no
\* error, so nothing ends the cycle or benches the endpoint (main.go:478-480).
OnlyFrozenStops ==
  \/ []<>(stage = "stopped" \/ lastBlock + Lag >= head)
  \/ <>[](stage = "polling" /\ url \in Frozen)

\* "a single bad provider can never permanently stop ingestion"
\* (rpc-failover-design.md:112-113): whatever one endpoint does, the indexer is
\* again and again as near to the head as the others allow.
IngestionContinues ==
  []<>(stage = "stopped" \/ lastBlock + Lag >= head)

===========================================================================
