--------------------------- MODULE IngestionProofs ---------------------------
(***************************************************************************)
(* The indexer: type correctness, the order of a cycle's blocks, the       *)
(* rotator's choice and how much a new cycle replays, for every pool,      *)
(* chunk size, lag and chain.                                              *)
(*                                                                         *)
(* The aggregator: type correctness, that no trade is lost or counted      *)
(* twice, and what a bucket stands for, for all histories of trades.       *)
(***************************************************************************)
EXTENDS RpcIndexer, Aggregator, DataLemmas

\* What the goroutine knows between its calls: the range being fetched starts
\* right after the last block done and ends at or before the head, and the
\* blocks done since the start of the cycle are all of them, in order.
CycleInv ==
  /\ start <= lastBlock /\ lastBlock <= head
  /\ stage = "fetching" => from = lastBlock + 1 /\ from <= to /\ to <= head
  /\ stage \in {"picking", "dialing", "sleeping"} => start = 0 /\ lastBlock = 0
  /\ CycleInOrder

Inv == TypeOK /\ CycleInv

USE DEF Endpoint, Block

---------------------------------------------------------------------------

\* A block range is a sequence of blocks of the expected length.
LEMMA BlocksType ==
  ASSUME NEW first \in Int, NEW final \in Int, first <= final + 1, first > 0, final <= MaxHead,
         MaxHead \in Int
  PROVE  /\ Blocks(first, final) \in Seq(1..MaxHead)
         /\ Len(Blocks(first, final)) = final - first + 1
BY DEF Blocks

\* Two adjacent ranges make one.
LEMMA BlocksConcat ==
  ASSUME NEW a \in Int, NEW b \in Int, NEW c \in Int,
         a > 0, a <= b + 1, b <= c, c <= MaxHead, MaxHead \in Int
  PROVE  Blocks(a, b) \o Blocks(b + 1, c) = Blocks(a, c)
<1> DEFINE S == 1..MaxHead
           l == Blocks(a, b)
           r == Blocks(b + 1, c)
           w == Blocks(a, c)
<1>1. /\ l \in Seq(S) /\ Len(l) = b - a + 1
      /\ r \in Seq(S) /\ Len(r) = c - b
      /\ w \in Seq(S) /\ Len(w) = c - a + 1
  <2>1. l \in Seq(S) /\ Len(l) = b - a + 1
    BY BlocksType
  <2>2. r \in Seq(S) /\ Len(r) = c - (b + 1) + 1
    <3>1. b + 1 \in Int /\ b + 1 <= c + 1 /\ b + 1 > 0
      OBVIOUS
    <3>2. QED  BY <3>1, BlocksType
  <2>3. w \in Seq(S) /\ Len(w) = c - a + 1
    <3>1. a <= c + 1
      OBVIOUS
    <3>2. QED  BY <3>1, BlocksType
  <2>4. QED  BY <2>1, <2>2, <2>3
<1>2. \A i \in 1..Len(l) : l[i] = a + i - 1
  BY <1>1 DEF Blocks
<1>3. \A i \in 1..Len(r) : r[i] = b + i
  <2>1. \A i \in 1..(c - (b + 1) + 1) : r[i] = b + 1 + i - 1
    BY DEF Blocks
  <2>2. c - (b + 1) + 1 = c - b /\ \A i \in 1..(c - b) : b + 1 + i - 1 = b + i
    OBVIOUS
  <2>3. QED  BY <1>1, <2>1, <2>2
<1>4. \A i \in 1..Len(w) : w[i] = a + i - 1
  BY <1>1 DEF Blocks
<1> HIDE DEF S, l, r, w
<1>5. /\ l \o r \in Seq(S)
      /\ Len(l \o r) = Len(l) + Len(r)
      /\ \A i \in 1..(Len(l) + Len(r)) :
            (l \o r)[i] = IF i <= Len(l) THEN l[i] ELSE r[i - Len(l)]
  BY <1>1, ConcatProperties
<1>6. ASSUME NEW i \in 1..Len(l \o r)
      PROVE  (l \o r)[i] = w[i]
  <2>1. i \in 1..Len(w) /\ w[i] = a + i - 1
    BY <1>1, <1>4, <1>5
  <2>2. CASE i <= Len(l)
    BY <1>1, <1>2, <1>5, <2>1, <2>2
  <2>3. CASE i > Len(l)
    <3>1. i - Len(l) \in 1..Len(r)
      <4>1. Len(l) \in Int /\ Len(r) \in Int /\ i \in Int /\ i <= Len(l) + Len(r)
        BY <1>1, <1>5
      <4>2. QED  BY <2>3, <4>1
    <3>2. (l \o r)[i] = r[i - Len(l)]
      BY <1>1, <1>5, <2>3
    <3>3. r[i - Len(l)] = b + (i - Len(l))
      BY <1>3, <3>1
    <3>4. QED  BY <1>1, <2>1, <3>2, <3>3
  <2>4. i \in Int /\ Len(l) \in Int
    BY <1>1, <1>5
  <2>5. QED  BY <2>2, <2>3, <2>4
<1>7. Len(l \o r) = Len(w)
  BY <1>1, <1>5
<1>8. l \o r = w
  BY <1>1, <1>5, <1>6, <1>7, SeqEqual
<1>9. QED  BY <1>8 DEF l, r, w

\* A range that ends before it begins is empty.
LEMMA EmptyBlocks ==
  ASSUME NEW b \in Int
  PROVE  Blocks(b + 1, b) = <<>>
<1>1. b - (b + 1) + 1 = 0
  OBVIOUS
<1>2. QED  BY <1>1 DEF Blocks

\* A failed cycle leaves nothing of its locals behind.
LEMMA FailInv ==
  ASSUME Inv, Fail
  PROVE  Inv'
<1>1. TypeOK'
  <2>1. /\ cool' \in [Endpoint -> 0..Cooldown]
        /\ UNCHANGED <<idx, url, head, outage, highest>>
    BY CadenceAssumption DEF Inv, TypeOK, Fail, world
  <2>2. /\ stage' \in Stage /\ cycle' \in Seq(Block)
        /\ headerErrors' \in 0..(MaxErrors - 1) /\ logErrors' \in 0..(MaxErrors - 1)
        /\ lastBlock' \in 0..MaxHead /\ from' \in 0..MaxHead /\ to' \in 0..MaxHead
        /\ start' \in 0..MaxHead
    BY CadenceAssumption, ChainAssumption DEF Fail, Stage
  <2>3. QED  BY <2>1, <2>2 DEF Inv, TypeOK
<1>2. Blocks(0 + 1, 0) = <<>>
  BY EmptyBlocks
<1>3. CycleInv'
  <2>1. /\ start' = 0 /\ lastBlock' = 0 /\ cycle' = <<>> /\ stage' = "sleeping"
        /\ head' = head /\ head \in Nat
    BY ChainAssumption DEF Inv, TypeOK, Fail, world
  <2>2. CycleInOrder'
    BY <1>2, <2>1 DEF CycleInOrder
  <2>3. QED  BY <2>1, <2>2 DEF CycleInv
<1>4. QED  BY <1>1, <1>3 DEF Inv

\* The rotator moves within the pool.
LEMMA PickInv ==
  ASSUME Inv, Pick
  PROVE  Inv'
<1>1. \A i \in Int : (idx + i) % N \in Endpoint
  BY PoolAssumption DEF Inv, TypeOK
<1>2. idx' \in Endpoint /\ url' \in Endpoint
  <2>1. CASE url' = idx /\ UNCHANGED idx
    BY <2>1 DEF Inv, TypeOK
  <2>2. CASE \E i \in Free : url' = (idx + i) % N /\ idx' = (idx + i + 1) % N
    <3>1. PICK i \in Free : url' = (idx + i) % N /\ idx' = (idx + i + 1) % N
      BY <2>2
    <3>2. i \in Int /\ i + 1 \in Int /\ idx + i + 1 = idx + (i + 1)
      BY <3>1, PoolAssumption DEF Free, Inv, TypeOK
    <3>3. QED  BY <1>1, <3>1, <3>2
  <2>3. QED  BY <2>1, <2>2 DEF Pick
<1>3. TypeOK'
  BY <1>2 DEF Pick, Inv, TypeOK, Stage, world, history
<1>4. CycleInv'
  BY DEF Pick, Inv, CycleInv, CycleInOrder, world, history
<1>5. QED  BY <1>3, <1>4 DEF Inv

\* Dialing: a fresh cycle has its locals at zero; a subscription starts at the
\* head, with nothing before it owed.
LEMMA DialInv ==
  ASSUME Inv, DialFails \/ SubscribeLogs \/ FallBackToPolling
  PROVE  Inv'
<1>1. CASE DialFails  BY <1>1, FailInv DEF DialFails
<1>2. CASE SubscribeLogs
  <2>0. head \in Nat /\ head > 0 /\ head <= MaxHead /\ MaxHead \in Nat
    BY ChainAssumption, RangeAssumption DEF Inv, TypeOK
  <2>1. TypeOK'
    <3>1. start' \in 0..MaxHead /\ lastBlock' \in 0..MaxHead /\ stage' \in Stage
      BY <1>2, <2>0 DEF SubscribeLogs, Stage
    <3>2. QED  BY <1>2, <3>1 DEF SubscribeLogs, Inv, TypeOK, rotator, world
  <2>2. /\ start = 0 /\ lastBlock = 0 /\ cycle = Blocks(0 + 1, 0) /\ head \in Nat /\ head > 0
        /\ start' = head /\ lastBlock' = head /\ cycle' = cycle /\ head' = head
        /\ stage' = "streaming"
    <3>1. stage = "dialing" /\ start = 0 /\ lastBlock = 0
      BY <1>2 DEF SubscribeLogs, Inv, CycleInv
    <3>2. cycle = Blocks(0 + 1, 0)
      BY <3>1 DEF Inv, CycleInv, CycleInOrder
    <3>3. QED  BY <1>2, <2>0, <3>1, <3>2 DEF SubscribeLogs, world
  <2>3. Blocks(0 + 1, 0) = Blocks(head + 1, head)
    BY <2>2, EmptyBlocks
  <2>4. CycleInOrder'
    BY <2>2, <2>3 DEF CycleInOrder
  <2>5. CycleInv'
    BY <2>2, <2>4 DEF CycleInv
  <2>6. QED  BY <2>1, <2>5 DEF Inv
<1>3. CASE FallBackToPolling
  BY <1>3 DEF FallBackToPolling, Inv, TypeOK, CycleInv, CycleInOrder, Stage, rotator, locals,
              world, history
<1>4. QED  BY <1>1, <1>2, <1>3

\* Block number k after the ones already there extends the range by one.
LEMMA BlocksAppend ==
  ASSUME NEW a \in Int, NEW b \in Int, a > 0, a <= b + 1, b + 1 <= MaxHead, MaxHead \in Int
  PROVE  Append(Blocks(a, b), b + 1) = Blocks(a, b + 1)
<1>1. Blocks(a, b) \in Seq(1..MaxHead) /\ b + 1 \in 1..MaxHead
  BY BlocksType
<1>2. Append(Blocks(a, b), b + 1) = Blocks(a, b) \o <<b + 1>>
  BY <1>1, AppendIsConcat
<1>3. Blocks(b + 1, b + 1) = <<b + 1>>
  <2>1. (b + 1) - (b + 1) + 1 = 1 /\ b + 1 + 1 - 1 = b + 1
    OBVIOUS
  <2>2. QED  BY <2>1 DEF Blocks
<1>4. b <= b + 1 /\ b + 1 \in Int
  OBVIOUS
<1>5. Blocks(a, b) \o Blocks(b + 1, b + 1) = Blocks(a, b + 1)
  BY <1>4, BlocksConcat
<1>6. QED  BY <1>2, <1>3, <1>5

\* The subscription pushes one block after another.
LEMMA StreamInv ==
  ASSUME Inv, StreamLog \/ StreamFails
  PROVE  Inv'
<1>1. CASE StreamFails  BY <1>1, FailInv DEF StreamFails
<1>2. CASE StreamLog
  <2>1. /\ lastBlock \in Nat /\ start \in Nat /\ head \in Nat /\ MaxHead \in Int
        /\ head <= MaxHead /\ start <= lastBlock /\ lastBlock < head
        /\ lastBlock + 1 \in Block /\ highest \in 0..MaxHead
    BY <1>2, ChainAssumption DEF StreamLog, Inv, TypeOK, CycleInv
  <2>2. cycle' = Blocks(start + 1, lastBlock + 1)
    <3>1. start + 1 > 0 /\ start + 1 <= lastBlock + 1 /\ lastBlock + 1 <= MaxHead
      BY <2>1
    <3>2. QED  BY <1>2, <2>1, <3>1, BlocksAppend DEF StreamLog, Inv, CycleInv, CycleInOrder
  <2>3. highest' \in 0..MaxHead
    BY <1>2, <2>1 DEF StreamLog, Highest
  <2>4. cycle' \in Seq(Block)
    BY <1>2, <2>1, AppendProperties DEF StreamLog, Inv, TypeOK
  <2>5. TypeOK'
    BY <1>2, <2>1, <2>3, <2>4 DEF StreamLog, Inv, TypeOK, rotator, world
  <2>6. CycleInv'
    BY <1>2, <2>1, <2>2 DEF StreamLog, Inv, CycleInv, CycleInOrder, world
  <2>7. QED  BY <2>5, <2>6 DEF Inv
<1>3. QED  BY <1>1, <1>2

\* A header puts the cycle at its starting point if it had none, and the range
\* it leads to begins right after the last block done.
LEMMA HeaderInv ==
  ASSUME Inv, HeaderFails \/ \E current \in Heads(url) : HeaderOK(current)
  PROVE  Inv'
<1>1. CASE HeaderFails
  <2>1. CASE Fail  BY <2>1, FailInv
  <2>2. CASE ~Fail
    <3>1. headerErrors' = headerErrors + 1 /\ headerErrors + 1 \in 0..(MaxErrors - 1)
      BY <1>1, <2>2, CadenceAssumption DEF HeaderFails, Inv, TypeOK
    <3>2. UNCHANGED <<rotator, stage, url, logErrors, lastBlock, from, to, world, history>>
      BY <1>1, <2>2 DEF HeaderFails
    <3>3. QED
      BY <3>1, <3>2 DEF Inv, TypeOK, CycleInv, CycleInOrder, rotator, world, history
  <2>3. QED  BY <2>1, <2>2
<1>2. ASSUME NEW current \in Heads(url), HeaderOK(current)
      PROVE  Inv'
  <2> DEFINE res == Resume(current)
  <2>1. /\ current \in Nat /\ current > Back /\ current <= head
        /\ head \in Nat /\ head <= MaxHead /\ MaxHead \in Nat /\ lastBlock \in Nat
        /\ start \in Nat /\ Back \in Nat /\ Span \in Nat
    BY RangeAssumption, ChainAssumption DEF Heads, Inv, TypeOK
  <2>2. /\ res \in Nat /\ res > 0 /\ res <= head
        /\ lastBlock # 0 => res = lastBlock
    BY <2>1 DEF Resume, Inv, CycleInv
  <2>3. /\ lastBlock' = res /\ headerErrors' = 0 /\ stage = "polling"
        /\ start' = IF lastBlock = 0 THEN res ELSE start
        /\ UNCHANGED <<rotator, url, logErrors, world, cycle, highest>>
    BY <1>2 DEF HeaderOK
  <2>4. \/ UNCHANGED <<stage, from, to>>
        \/ /\ stage' = "fetching"
           /\ from' = res + 1 /\ from' <= to' /\ to' <= head /\ to' \in Nat
    <3>1. CASE current <= res
      BY <1>2, <3>1 DEF HeaderOK
    <3>2. CASE current > res
      <4>1. stage' = "fetching" /\ from' = res + 1 /\ to' = ChunkEnd(res + 1, current)
        BY <1>2, <2>1, <2>2, <3>2 DEF HeaderOK, NextBlock
      <4>2. ChunkEnd(res + 1, current) \in (res + 1)..current
        BY <2>1, <2>2, <3>2 DEF ChunkEnd
      <4>3. QED  BY <2>1, <2>2, <4>1, <4>2
    <3>3. QED  BY <2>1, <2>2, <3>1, <3>2
  <2> HIDE DEF res
  <2>5. start' \in Nat /\ start' <= res /\ cycle = Blocks(start' + 1, res)
    <3>1. CASE lastBlock = 0
      <4>1. start = 0 /\ cycle = Blocks(0 + 1, 0)
        BY <3>1, <2>1 DEF Inv, CycleInv, CycleInOrder
      <4>2. cycle = <<>> /\ Blocks(res + 1, res) = <<>>
        BY <2>2, <4>1, EmptyBlocks
      <4>3. QED  BY <2>2, <2>3, <3>1, <4>2
    <3>2. CASE lastBlock # 0
      BY <2>1, <2>2, <2>3, <3>2 DEF Inv, CycleInv, CycleInOrder
    <3>3. QED  BY <3>1, <3>2
  <2>6. TypeOK'
    <3>1. /\ headerErrors' \in 0..(MaxErrors - 1) /\ lastBlock' \in 0..MaxHead
          /\ start' \in 0..MaxHead /\ stage' \in Stage
      BY <2>1, <2>2, <2>3, <2>4, <2>5, CadenceAssumption DEF Inv, TypeOK, Stage
    <3>2. from' \in 0..MaxHead /\ to' \in 0..MaxHead
      BY <2>1, <2>2, <2>4 DEF Inv, TypeOK
    <3>3. QED  BY <2>3, <3>1, <3>2 DEF Inv, TypeOK, rotator, world
  <2>7. CycleInv'
    <3>1. CycleInOrder'
      BY <2>3, <2>5 DEF CycleInOrder
    <3>2. QED
      BY <2>1, <2>2, <2>3, <2>4, <2>5, <3>1 DEF CycleInv, world
  <2>8. QED  BY <2>6, <2>7 DEF Inv
<1>3. QED  BY <1>1, <1>2

\* A fetched range is appended to the blocks done; a failed fetch moves nothing.
LEMMA FilterInv ==
  ASSUME Inv, FilterFails \/ FilterOK
  PROVE  Inv'
<1>1. CASE FilterFails
  <2>1. CASE Fail  BY <2>1, FailInv
  <2>2. CASE ~Fail
    <3>1. logErrors' = logErrors + 1 /\ logErrors + 1 \in 0..(MaxErrors - 1)
      BY <1>1, <2>2, CadenceAssumption DEF FilterFails, Inv, TypeOK
    <3>2. /\ stage' = "polling"
          /\ UNCHANGED <<rotator, url, headerErrors, lastBlock, from, to, world, history>>
      BY <1>1, <2>2 DEF FilterFails
    <3>3. QED
      BY <3>1, <3>2 DEF Inv, TypeOK, CycleInv, CycleInOrder, Stage, rotator, world, history
  <2>3. QED  BY <2>1, <2>2
<1>2. CASE FilterOK
  <2>1. /\ from = lastBlock + 1 /\ from <= to /\ to <= head /\ start <= lastBlock
        /\ lastBlock \in Nat /\ start \in Nat /\ to \in Nat /\ from \in Nat /\ head \in Nat
        /\ head <= MaxHead /\ MaxHead \in Nat /\ highest \in 0..MaxHead
    BY <1>2, ChainAssumption DEF FilterOK, Inv, TypeOK, CycleInv
  <2>2. /\ cycle' = cycle \o Blocks(from, to) /\ lastBlock' = to /\ stage' = "polling"
        /\ highest' = Highest(to) /\ logErrors' = 0
        /\ UNCHANGED <<rotator, url, headerErrors, from, to, world, start>>
    BY <1>2 DEF FilterOK
  <2>3. cycle' = Blocks(start + 1, to)
    <3>1. /\ start + 1 > 0 /\ start + 1 <= lastBlock + 1 /\ lastBlock <= to /\ to <= MaxHead
          /\ start + 1 \in Int /\ lastBlock \in Int /\ to \in Int /\ MaxHead \in Int
      BY <2>1
    <3>2. Blocks(start + 1, lastBlock) \o Blocks(lastBlock + 1, to) = Blocks(start + 1, to)
      BY <3>1, BlocksConcat
    <3>3. QED  BY <2>1, <2>2, <3>2 DEF Inv, CycleInv, CycleInOrder
  <2>4. cycle' \in Seq(Block)
    <3>1. start + 1 \in Int /\ start + 1 <= to + 1 /\ start + 1 > 0 /\ to <= MaxHead
      BY <2>1
    <3>2. QED  BY <2>1, <2>3, <3>1, BlocksType
  <2>5. TypeOK'
    BY <2>1, <2>2, <2>4, CadenceAssumption
       DEF Inv, TypeOK, Stage, Highest, rotator, world
  <2>6. CycleInv'
    BY <2>1, <2>2, <2>3 DEF Inv, CycleInv, CycleInOrder, world
  <2>7. QED  BY <2>5, <2>6 DEF Inv
<1>3. QED  BY <1>1, <1>2

\* Time, the chain and a stop leave the cycle as it is.
LEMMA WorldInv ==
  ASSUME Inv, SleepEnds \/ Stop \/ TimePasses \/ ChainGrows \/ OutageEnds \/ UNCHANGED vars
  PROVE  Inv'
<1>1. CASE SleepEnds \/ TimePasses
  <2>1. cool' \in [Endpoint -> 0..Cooldown]
    BY <1>1, CadenceAssumption DEF SleepEnds, TimePasses, Elapse, Inv, TypeOK
  <2>2. UNCHANGED <<idx, locals, world, history>> /\ (stage' = stage \/ stage' = "picking")
        /\ (stage' # stage => stage = "sleeping")
    BY <1>1 DEF SleepEnds, TimePasses
  <2>3. QED
    BY <2>1, <2>2 DEF Inv, TypeOK, Stage, CycleInv, CycleInOrder, locals, world, history
<1>2. CASE Stop
  BY <1>2 DEF Stop, Inv, TypeOK, Stage, CycleInv, CycleInOrder, rotator, locals, world, history
<1>3. CASE ChainGrows
  BY <1>3, ChainAssumption
     DEF ChainGrows, Inv, TypeOK, CycleInv, CycleInOrder, rotator, locals, history
<1>4. CASE OutageEnds
  BY <1>4 DEF OutageEnds, Inv, TypeOK, CycleInv, CycleInOrder, rotator, locals, history
<1>5. CASE UNCHANGED vars
  BY <1>5 DEF vars, Inv, TypeOK, CycleInv, CycleInOrder, rotator, locals, world, history
<1>6. QED  BY <1>1, <1>2, <1>3, <1>4, <1>5

---------------------------------------------------------------------------

LEMMA InitInv == Init => Inv
<1> SUFFICES ASSUME Init
             PROVE  Inv
  OBVIOUS
<1>1. TypeOK
  BY PoolAssumption, CadenceAssumption, ChainAssumption DEF Init, TypeOK, Stage
<1>2. CycleInOrder
  BY EmptyBlocks DEF Init, CycleInOrder
<1>3. CycleInv
  BY <1>2, ChainAssumption DEF Init, CycleInv
<1>4. QED  BY <1>1, <1>3 DEF Inv

LEMMA NextInv == Inv /\ [Next]_vars => Inv'
  BY PickInv, DialInv, StreamInv, HeaderInv, FilterInv, WorldInv DEF Next, Indexer, Poll

\* Whatever endpoints fail, lag or recover, and whenever they do, the blocks a
\* cycle processes are start+1, start+2, ... up to lastBlock, each once.
THEOREM CycleIsInOrder == Spec => []CycleInOrder
<1>1. Inv => CycleInOrder
  BY DEF Inv, CycleInv
<1>2. QED  BY <1>1, InitInv, NextInv, PTL DEF Spec

\* Every variable keeps its type; in particular the error counters stay below
\* the threshold and the rotator's index within the pool.
THEOREM TypeCorrect == Spec => []TypeOK
<1>1. Inv => TypeOK
  BY DEF Inv
<1>2. QED  BY <1>1, InitInv, NextInv, PTL DEF Spec

\* Going once around from idx meets every endpoint.
LEMMA OnceAround ==
  ASSUME TypeOK, NEW u \in Endpoint
  PROVE  \E i \in 0..(N - 1) : (idx + i) % N = u
<1>1. N \in Nat /\ N > 0 /\ idx \in 0..(N - 1) /\ u \in 0..(N - 1)
  BY PoolAssumption DEF TypeOK
<1>2. CASE u >= idx
  <2>1. u - idx \in 0..(N - 1) /\ idx + (u - idx) = u /\ u % N = u
    BY <1>1, <1>2
  <2>2. QED  BY <2>1
<1>3. CASE u < idx
  <2>1. u - idx + N \in 0..(N - 1) /\ idx + (u - idx + N) = u + N
    BY <1>1, <1>3
  <2>2. (u + N) % N = u
    BY <1>1
  <2>3. QED  BY <2>1, <2>2
<1>4. QED  BY <1>1, <1>2, <1>3

\* The rotator hands out a benched endpoint only when it has no other.
THEOREM BenchIsRespected == Spec => PicksFree
<1>1. ASSUME Inv, Next, stage = "picking", stage' = "dialing"
      PROVE  ~Benched(url') \/ \A u \in Endpoint : Benched(u)
  <2>1. Pick
    BY <1>1 DEF Next, Indexer, Poll, DialFails, SubscribeLogs, FallBackToPolling, StreamLog,
                StreamFails, HeaderFails, HeaderOK, FilterFails, FilterOK, SleepEnds, Stop,
                TimePasses, ChainGrows, OutageEnds, Fail
  <2>2. CASE Free = {}
    <3>1. ASSUME NEW u \in Endpoint
          PROVE  Benched(u)
      <4>1. PICK i \in 0..(N - 1) : (idx + i) % N = u
        BY <1>1, OnceAround DEF Inv
      <4>2. Benched((idx + i) % N)
        BY <2>2 DEF Free
      <4>3. QED  BY <4>1, <4>2
    <3>2. QED  BY <3>1
  <2>3. CASE Free # {}
    <3>1. PICK i \in Free : url' = (idx + i) % N
      BY <2>1, <2>3 DEF Pick
    <3>2. ~Benched((idx + i) % N)
      BY <3>1 DEF Free
    <3>3. QED  BY <3>1, <3>2
  <2>4. QED  BY <2>2, <2>3
<1>2. ASSUME UNCHANGED vars, stage = "picking"
      PROVE  stage' # "dialing"
  BY <1>2 DEF vars
<1>3. QED  BY <1>1, <1>2, InitInv, NextInv, PTL DEF Spec, PicksFree

---------------------------------------------------------------------------
(* Replays                                                                 *)

\* No block beyond the head of the chain has been processed.
ProcessedExist == highest <= head

LEMMA ProcessedStep ==
  ASSUME Inv, ProcessedExist, [Next]_vars
  PROVE  ProcessedExist'
<1> USE DEF ProcessedExist
<1>1. highest \in Nat /\ head \in Nat /\ lastBlock \in Nat /\ to \in Nat
  BY ChainAssumption DEF Inv, TypeOK
<1>2. CASE StreamLog
  <2>1. lastBlock < head /\ highest' = Highest(lastBlock + 1) /\ head' = head
    BY <1>2 DEF StreamLog, world
  <2>2. QED  BY <1>1, <2>1 DEF Highest
<1>3. CASE FilterOK
  <2>1. to <= head /\ highest' = Highest(to) /\ head' = head
    BY <1>3 DEF FilterOK, Inv, CycleInv, world
  <2>2. QED  BY <1>1, <2>1 DEF Highest
<1>4. CASE ChainGrows
  BY <1>1, <1>4 DEF ChainGrows, history
<1>5. CASE UNCHANGED <<highest, head>>
  BY <1>5
<1>6. Pick \/ DialFails \/ SubscribeLogs \/ FallBackToPolling \/ StreamFails \/ SleepEnds
        => UNCHANGED <<highest, head>>
  BY DEF Pick, DialFails, SubscribeLogs, FallBackToPolling, StreamFails, SleepEnds, Fail, world, history
<1>7. HeaderFails \/ (\E current \in Heads(url) : HeaderOK(current)) \/ FilterFails
        => UNCHANGED <<highest, head>>
  BY DEF HeaderFails, HeaderOK, FilterFails, Fail, world, history
<1>8. Stop \/ TimePasses \/ OutageEnds \/ UNCHANGED vars => UNCHANGED <<highest, head>>
  BY DEF Stop, TimePasses, OutageEnds, vars, world, history
<1>9. QED  BY <1>2, <1>3, <1>4, <1>5, <1>6, <1>7, <1>8 DEF Next, Indexer, Poll

\* A cycle gets its first block number from the subscription or the first
\* header, and from nothing else.
LEMMA StartsAtDialOrHeader ==
  ASSUME Inv, [Next]_vars, start = 0, start' > 0
  PROVE  SubscribeLogs \/ \E current \in Heads(url) : HeaderOK(current)
<1>1. ~(0 > 0)
  OBVIOUS
<1>2. Pick \/ DialFails \/ FallBackToPolling \/ StreamLog \/ StreamFails \/ SleepEnds => start' = 0
  BY DEF Pick, DialFails, FallBackToPolling, StreamLog, StreamFails, SleepEnds, Fail, history
<1>3. HeaderFails \/ FilterFails \/ FilterOK => start' = 0
  BY DEF HeaderFails, FilterFails, FilterOK, Fail, history
<1>4. Stop \/ TimePasses \/ ChainGrows \/ OutageEnds \/ UNCHANGED vars => start' = 0
  BY DEF Stop, TimePasses, ChainGrows, OutageEnds, vars, history
<1>5. QED  BY <1>1, <1>2, <1>3, <1>4 DEF Next, Indexer, Poll

\* A new cycle goes back over no more than Back + Lag blocks, whichever endpoint
\* it is on (ingestion/main.go:475-477, lastBlock = currentBlock - 5), unless the
\* endpoint is frozen.
THEOREM ReplaysAreShort == Spec => ReplayBounded
<1>1. Init => ProcessedExist
  BY ChainAssumption, RangeAssumption DEF Init, ProcessedExist
<1>2. ASSUME Inv, ProcessedExist, [Next]_vars, start = 0, start' > 0, url \notin Frozen
      PROVE  highest - start' <= Back + Lag
  <2>1. highest \in Nat /\ head \in Nat /\ lastBlock \in Nat /\ Back \in Nat /\ Lag \in Nat /\ highest <= head
    BY <1>2, ChainAssumption, RangeAssumption DEF Inv, TypeOK, ProcessedExist
  <2>2. CASE SubscribeLogs
    <3>1. start' = head
      BY <2>2 DEF SubscribeLogs
    <3>2. QED  BY <2>1, <3>1
  <2>3. ASSUME NEW current \in Heads(url), HeaderOK(current)
        PROVE  highest - start' <= Back + Lag
    <3>1. current \in Int /\ current >= head - Lag
      BY <1>2, <2>1 DEF Heads
    <3>2. start' = (IF lastBlock = 0 THEN current - Back ELSE 0)
      BY <1>2, <2>3 DEF HeaderOK, Resume
    <3>3. start' = current - Back
      BY <1>2, <3>2
    <3>4. QED  BY <2>1, <3>1, <3>3
  <2>4. QED  BY <1>2, <2>2, <2>3, StartsAtDialOrHeader
<1>3. Inv /\ ProcessedExist /\ [Next]_vars => ProcessedExist'
  BY ProcessedStep
<1>4. QED  BY <1>1, <1>2, <1>3, InitInv, NextInv, PTL DEF Spec, ReplayBounded

---------------------------------------------------------------------------
(* Buckets and rows                                                      *)

\* The keys and the buckets there may be.
Keys   == {Key(t, tr) : t \in Table, tr \in Trade}
Bucket == [key : Keys, open : Nat, high : Nat, low : Nat, close : Nat,
           count : Nat, volume : Nat, weighted : Nat]

\* A table's map, what is being flushed of it, and its rows.
MapOK(m)   == m \in [DOMAIN m -> Bucket] /\ IsFiniteSet(DOMAIN m) /\ \A k \in DOMAIN m : m[k].key = k
FlushOK(s) == s \in SUBSET Bucket /\ IsFiniteSet(s) /\ \A b, c \in s : b.key = c.key => b = c
RowsOK(bag) == IsABag(bag) /\ IsFiniteSet(DOMAIN bag) /\ \A r \in DOMAIN bag : r.count \in Nat

\* The buckets of a map.
In(m) == {m[k] : k \in DOMAIN m}

\* The numbers of a trade.
LEMMA TradeIs ==
  ASSUME NEW tr \in Trade
  PROVE  tr.second \in Nat /\ tr.price \in Nat \ {0} /\ tr.size \in Nat \ {0}
BY TradeAssumption

\* What a set of buckets counts.
LEMMA CountIs ==
  ASSUME NEW s, IsFiniteSet(s), \A b \in s : b.count \in Nat
  PROVE  /\ Count(s) \in Nat
         /\ Count(s) = SumFunctionOnSet([b \in s |-> b.count], s)
<1> DEFINE f == [b \in s |-> b.count]
<1>1. \A b \in s : f[b] \in Nat
  OBVIOUS
<1>2. Count(s) = SumFunctionOnSet(f, s)
  BY DEF Count, SumFunction
<1> HIDE DEF f
<1>3. SumFunctionOnSet(f, s) \in Nat
  BY <1>1, SumAny
<1>4. QED  BY <1>2, <1>3 DEF f

\* No bucket counts no trade.
LEMMA CountOfNone == Count({}) = 0
<1>1. Count({}) = SumFunctionOnSet([b \in {} |-> b.count], {})
  BY DEF Count, SumFunction
<1>2. QED  BY <1>1, SumNone

\* The buckets of a map are as many as its keys, and count what they count.
LEMMA InMap ==
  ASSUME NEW m, MapOK(m)
  PROVE  /\ FlushOK(In(m)) /\ Count(In(m)) \in Nat
         /\ \A k \in DOMAIN m : m[k].count \in Nat
         /\ Count(In(m)) = SumFunctionOnSet([k \in DOMAIN m |-> m[k].count], DOMAIN m)
<1> DEFINE D == DOMAIN m
           f == [k \in D |-> m[k].count]
           g == [b \in In(m) |-> b.count]
<1>1. IsFiniteSet(D) /\ \A k \in D : m[k] \in Bucket /\ m[k].key = k
  BY DEF MapOK
<1>2. \A k \in D : m[k].count \in Nat
  BY <1>1 DEF Bucket
<1>3. In(m) = {m[k] : k \in D}
  BY DEF In
<1>4. \A k \in D : f[k] \in Nat /\ g[m[k]] = f[k]
  BY <1>2, <1>3
<1>5. \A k, l \in D : m[k] = m[l] => k = l
  BY <1>1
<1> HIDE DEF f, g
<1>6. /\ IsFiniteSet({m[k] : k \in D})
      /\ SumFunctionOnSet(g, {m[k] : k \in D}) = SumFunctionOnSet(f, D)
  <2> HIDE DEF D
  <2>1. IsFiniteSet(D)
    BY <1>1
  <2>2. QED  BY <1>4, <1>5, <2>1, SumRenamed
<1>7. FlushOK(In(m))
  BY <1>1, <1>3, <1>6 DEF FlushOK
<1>8. \A b \in In(m) : b.count \in Nat
  BY <1>2, <1>3
<1>9. Count(In(m)) \in Nat /\ Count(In(m)) = SumFunctionOnSet(g, In(m))
  BY <1>6, <1>3, <1>8, CountIs DEF g
<1>10. QED  BY <1>2, <1>3, <1>6, <1>7, <1>9 DEF f

\* What is empty.
LEMMA EmptyMap ==
  /\ MapOK(<<>>) /\ In(<<>>) = {}
  /\ FlushOK({}) /\ RowsOK(EmptyBag)
<1>1. DOMAIN <<>> = {}
  OBVIOUS
<1>2. <<>> \in [{} -> Bucket]
  OBVIOUS
<1>3. QED  BY <1>1, <1>2, FS_EmptySet DEF MapOK, In, FlushOK, RowsOK, EmptyBag, IsABag, SetToBag

\* A bucket with one more trade, field by field.
LEMMA AddedIs ==
  ASSUME NEW b \in Bucket, NEW tr \in Trade
  PROVE  /\ Added(b, tr) \in Bucket
         /\ Added(b, tr).key = b.key /\ Added(b, tr).open = b.open
         /\ Added(b, tr).high = (IF tr.price > b.high THEN tr.price ELSE b.high)
         /\ Added(b, tr).low = (IF tr.price < b.low THEN tr.price ELSE b.low)
         /\ Added(b, tr).close = tr.price
         /\ Added(b, tr).count = b.count + 1
         /\ Added(b, tr).volume = b.volume + tr.size
         /\ Added(b, tr).weighted = b.weighted + tr.price * tr.size
<1>1. tr.price \in Nat /\ tr.size \in Nat
  BY TradeIs
<1>2. PICK w \in Nat : w = tr.price * tr.size
  BY <1>1
<1>3. PICK h \in Nat : h = IF tr.price > b.high THEN tr.price ELSE b.high
  BY <1>1 DEF Bucket
<1>4. PICK l \in Nat : l = IF tr.price < b.low THEN tr.price ELSE b.low
  BY <1>1 DEF Bucket
<1>5. b.count + 1 \in Nat /\ b.volume + tr.size \in Nat /\ b.weighted + w \in Nat
  BY <1>1, <1>2 DEF Bucket
<1>6. Added(b, tr) = [b EXCEPT !.count = b.count + 1, !.volume = b.volume + tr.size,
                               !.weighted = b.weighted + w, !.high = h, !.low = l, !.close = tr.price]
  BY <1>2, <1>3, <1>4 DEF Added
<1> DEFINE c == b.count + 1
           v == b.volume + tr.size
           u == b.weighted + w
           p == tr.price
<1> HIDE DEF c, v, u, p
<1>7. /\ Added(b, tr) = [b EXCEPT !.count = c, !.volume = v, !.weighted = u, !.high = h, !.low = l, !.close = p]
      /\ c \in Nat /\ v \in Nat /\ u \in Nat /\ p \in Nat
  BY <1>1, <1>5, <1>6 DEF c, v, u, p
<1>8. /\ Added(b, tr) \in Bucket /\ Added(b, tr).key = b.key /\ Added(b, tr).open = b.open
      /\ Added(b, tr).high = h /\ Added(b, tr).low = l /\ Added(b, tr).close = p
      /\ Added(b, tr).count = c /\ Added(b, tr).volume = v /\ Added(b, tr).weighted = u
  BY <1>7 DEF Bucket
<1>9. QED  BY <1>2, <1>3, <1>4, <1>8 DEF c, v, u, p

\* A trade makes a map count one more.
LEMMA Updated ==
  ASSUME NEW m, MapOK(m), NEW t \in Table, NEW tr \in Trade
  PROVE  /\ MapOK(UpdateBucket(m, t, tr))
         /\ Count(In(UpdateBucket(m, t, tr))) = Count(In(m)) + 1
         /\ UpdateBucket(m, t, tr)[Key(t, tr)]
              = Added(IF Key(t, tr) \in DOMAIN m THEN m[Key(t, tr)] ELSE NewBucket(t, tr), tr)
<1> DEFINE k == Key(t, tr)
           D == DOMAIN m
           b == IF k \in D THEN m[k] ELSE NewBucket(t, tr)
           n == UpdateBucket(m, t, tr)
<1>1. tr.price \in Nat /\ tr.size \in Nat /\ k \in Keys
  BY TradeIs DEF Keys
<1>2. b \in Bucket /\ b.key = k /\ b.count = (IF k \in D THEN m[k].count ELSE 0)
  BY <1>1 DEF MapOK, NewBucket, Bucket
<1>3. Added(b, tr) \in Bucket /\ Added(b, tr).key = k /\ Added(b, tr).count = b.count + 1
  <2> HIDE DEF b, k
  <2>1. QED  BY <1>2, AddedIs
<1>4. n = [l \in D \cup {k} |-> IF l = k THEN Added(b, tr) ELSE m[l]]
  BY DEF UpdateBucket
<1> HIDE DEF k, b, n
<1>5. /\ DOMAIN n = D \cup {k} /\ n[k] = Added(b, tr)
      /\ \A l \in D \ {k} : n[l] = m[l]
  BY <1>4
<1>6. IsFiniteSet(D) /\ IsFiniteSet(D \cup {k}) /\ IsFiniteSet(D \ {k})
  BY FS_AddElement, FS_RemoveElement DEF MapOK
<1>7. MapOK(n)
  <2>1. \A l \in DOMAIN n : n[l] \in Bucket /\ n[l].key = l
    BY <1>3, <1>5 DEF MapOK
  <2>2. n = [l \in DOMAIN n |-> n[l]]
    BY <1>4
  <2>3. QED  BY <1>5, <1>6, <2>1, <2>2 DEF MapOK
<1> DEFINE f == [l \in D |-> m[l].count]
           g == [l \in D \cup {k} |-> n[l].count]
           R == D \ {k}
<1>8. Count(In(m)) \in Nat /\ Count(In(m)) = SumFunctionOnSet(f, D) /\ \A l \in D : f[l] \in Nat
  BY InMap
<1>9. Count(In(n)) = SumFunctionOnSet(g, D \cup {k}) /\ \A l \in D \cup {k} : g[l] \in Nat
  BY <1>5, <1>7, InMap
<1>10. \A l \in R : f[l] = g[l]
  BY <1>5
<1>11. g[k] = b.count + 1 /\ (k \in D => f[k] = b.count) /\ (k \notin D => b.count = 0)
  BY <1>2, <1>3, <1>5
<1> HIDE DEF f, g
<1>12. SumFunctionOnSet(f, R) = SumFunctionOnSet(g, R) /\ SumFunctionOnSet(f, R) \in Nat
  <2>1. \A l \in R : f[l] \in Nat
    BY <1>8
  <2>2. QED  BY <1>6, <1>10, <2>1, SumEqual, SumAny
<1>13. SumFunctionOnSet(g, D \cup {k}) = g[k] + SumFunctionOnSet(g, R)
  <2>1. (D \cup {k}) \ {k} = R
    OBVIOUS
  <2>2. SumFunctionOnSet(g, D \cup {k}) = g[k] + SumFunctionOnSet(g, (D \cup {k}) \ {k})
    BY <1>6, <1>9, SumAny
  <2>3. QED  BY <2>1, <2>2
<1>14. SumFunctionOnSet(f, D) = b.count + SumFunctionOnSet(f, R)
  <2>1. CASE k \in D
    <3>1. SumFunctionOnSet(f, D) = f[k] + SumFunctionOnSet(f, D \ {k})
      BY <1>6, <1>8, <2>1, SumAny
    <3>2. QED  BY <1>11, <2>1, <3>1
  <2>2. CASE k \notin D
    <3>1. R = D
      BY <2>2
    <3>2. QED  BY <1>11, <1>12, <2>2, <3>1
  <2>3. QED  BY <2>1, <2>2
<1>15. b.count \in Nat
  BY <1>2 DEF Bucket
<1>16. Count(In(n)) = Count(In(m)) + 1
  BY <1>8, <1>9, <1>11, <1>12, <1>13, <1>14, <1>15
<1>17. n[k] = Added(IF k \in D THEN m[k] ELSE NewBucket(t, tr), tr)
  BY <1>5 DEF b
<1>18. QED  BY <1>7, <1>16, <1>17 DEF n, k

\* A bag of rows, what it counts, and what is in two of them together.
LEMMA CountBagIs ==
  ASSUME NEW A, RowsOK(A)
  PROVE  /\ CountBag(A) \in Nat
         /\ \A r \in DOMAIN A : A[r] \in Nat \ {0} /\ A[r] * r.count \in Nat
         /\ CountBag(A) = SumFunctionOnSet([r \in DOMAIN A |-> A[r] * r.count], DOMAIN A)
<1> DEFINE f == [r \in DOMAIN A |-> A[r] * r.count]
<1>1. \A r \in DOMAIN A : A[r] \in Nat \ {0} /\ r.count \in Nat
  BY DEF RowsOK, IsABag
<1>2. \A r \in DOMAIN A : f[r] \in Nat /\ A[r] * r.count \in Nat
  BY <1>1
<1>3. CountBag(A) = SumFunctionOnSet(f, DOMAIN A)
  BY DEF CountBag, SumFunction, BagToSet
<1> HIDE DEF f
<1>4. SumFunctionOnSet(f, DOMAIN A) \in Nat
  BY <1>2, SumAny DEF RowsOK
<1>5. QED  BY <1>1, <1>2, <1>3, <1>4 DEF f

\* Rows and more rows count what both count.
LEMMA BagPlus ==
  ASSUME NEW A, NEW B, RowsOK(A), RowsOK(B)
  PROVE  RowsOK(A (+) B) /\ CountBag(A (+) B) = CountBag(A) + CountBag(B)
<1> DEFINE D == DOMAIN A \cup DOMAIN B
           a == [r \in D |-> IF r \in DOMAIN A THEN A[r] ELSE 0]
           b == [r \in D |-> IF r \in DOMAIN B THEN B[r] ELSE 0]
           C == A (+) B
<1>1. IsFiniteSet(D)
  BY FS_Union DEF RowsOK
<1>2. C = [r \in D |-> a[r] + b[r]]
  BY DEF (+)
<1>3. \A r \in DOMAIN A : A[r] \in Nat /\ A[r] > 0 /\ r.count \in Nat
  BY DEF RowsOK, IsABag
<1>4. \A r \in DOMAIN B : B[r] \in Nat /\ B[r] > 0 /\ r.count \in Nat
  BY DEF RowsOK, IsABag
<1>5. \A r \in D : a[r] \in Nat /\ b[r] \in Nat /\ a[r] + b[r] > 0 /\ r.count \in Nat
  BY <1>3, <1>4
<1> HIDE DEF C
<1>6. RowsOK(C)
  <2>1. DOMAIN C = D /\ \A r \in D : C[r] \in {n \in Nat : n > 0} /\ r.count \in Nat
    <3> HIDE DEF a, b
    <3>1. QED  BY <1>2, <1>5
  <2>2. C = [r \in DOMAIN C |-> C[r]]
    BY <1>2
  <2> HIDE DEF D
  <2>3. QED  BY <1>1, <2>1, <2>2 DEF RowsOK, IsABag
<1> DEFINE f == [r \in D |-> a[r] * r.count]
           g == [r \in D |-> b[r] * r.count]
           h == [r \in D |-> C[r] * r.count]
<1>7. \A r \in D : f[r] \in Nat /\ g[r] \in Nat /\ h[r] = f[r] + g[r]
  <2> SUFFICES ASSUME NEW r \in D PROVE f[r] \in Nat /\ g[r] \in Nat /\ h[r] = f[r] + g[r]
    OBVIOUS
  <2>1. PICK x \in Nat, y \in Nat, c \in Nat : x = a[r] /\ y = b[r] /\ c = r.count
    BY <1>5
  <2>2. C[r] = x + y
    BY <1>2, <2>1
  <2>3. (x + y) * c = x * c + y * c /\ x * c \in Nat /\ y * c \in Nat
    OBVIOUS
  <2>4. f[r] = x * c /\ g[r] = y * c /\ h[r] = (x + y) * c
    BY <2>1, <2>2
  <2>5. QED  BY <2>3, <2>4
<1>8. CountBag(C) = SumFunctionOnSet(h, D)
  <2>1. DOMAIN C = D
    BY <1>2
  <2>2. QED  BY <1>6, <2>1, CountBagIs
<1>9. CountBag(A) = SumFunctionOnSet(f, D)
  <2> DEFINE e == [r \in DOMAIN A |-> A[r] * r.count]
  <2>1. CountBag(A) = SumFunctionOnSet(e, DOMAIN A)
    BY CountBagIs
  <2>2. \A r \in DOMAIN A : e[r] = f[r]
    OBVIOUS
  <2>3. ASSUME NEW r \in D \ DOMAIN A PROVE f[r] = 0
    <3>1. PICK c \in Nat : c = r.count
      BY <1>5
    <3>2. a[r] = 0 /\ 0 * c = 0
      OBVIOUS
    <3>3. QED  BY <3>1, <3>2
  <2>4. IsFiniteSet(DOMAIN A) /\ DOMAIN A \in SUBSET D
    BY DEF RowsOK
  <2> HIDE DEF e, f
  <2>5. SumFunctionOnSet(e, DOMAIN A) = SumFunctionOnSet(f, DOMAIN A)
    BY <2>2, <2>4, SumEqual
  <2>6. SumFunctionOnSet(f, D) = SumFunctionOnSet(f, DOMAIN A)
    <3> HIDE DEF D
    <3>1. \A r \in D : f[r] \in Nat
      BY <1>7
    <3>2. QED  BY <1>1, <2>3, <2>4, <3>1, SumZeros
  <2>7. QED  BY <2>1, <2>5, <2>6
<1>10. CountBag(B) = SumFunctionOnSet(g, D)
  <2> DEFINE e == [r \in DOMAIN B |-> B[r] * r.count]
  <2>1. CountBag(B) = SumFunctionOnSet(e, DOMAIN B)
    BY CountBagIs
  <2>2. \A r \in DOMAIN B : e[r] = g[r]
    OBVIOUS
  <2>3. ASSUME NEW r \in D \ DOMAIN B PROVE g[r] = 0
    <3>1. PICK c \in Nat : c = r.count
      BY <1>5
    <3>2. b[r] = 0 /\ 0 * c = 0
      OBVIOUS
    <3>3. QED  BY <3>1, <3>2
  <2>4. IsFiniteSet(DOMAIN B) /\ DOMAIN B \in SUBSET D
    BY DEF RowsOK
  <2> HIDE DEF e, g
  <2>5. SumFunctionOnSet(e, DOMAIN B) = SumFunctionOnSet(g, DOMAIN B)
    BY <2>2, <2>4, SumEqual
  <2>6. SumFunctionOnSet(g, D) = SumFunctionOnSet(g, DOMAIN B)
    <3> HIDE DEF D
    <3>1. \A r \in D : g[r] \in Nat
      BY <1>7
    <3>2. QED  BY <1>1, <2>3, <2>4, <3>1, SumZeros
  <2>7. QED  BY <2>1, <2>5, <2>6
<1> HIDE DEF f, g, h, D
<1>11. SumFunctionOnSet(h, D) = SumFunctionOnSet(f, D) + SumFunctionOnSet(g, D)
  BY <1>1, <1>7, SumPlus
<1>12. QED  BY <1>6, <1>8, <1>9, <1>10, <1>11 DEF C

\* Rows of a set, one copy of each.
LEMMA BagOfSet ==
  ASSUME NEW s, IsFiniteSet(s), \A r \in s : r.count \in Nat
  PROVE  RowsOK(SetToBag(s)) /\ CountBag(SetToBag(s)) = Count(s)
<1> DEFINE A == SetToBag(s)
           f == [r \in s |-> A[r] * r.count]
           g == [r \in s |-> r.count]
<1>1. A = [r \in s |-> 1]
  BY DEF SetToBag
<1> HIDE DEF A
<1>2. DOMAIN A = s
  BY <1>1
<1>3. RowsOK(A)
  BY <1>1 DEF RowsOK, IsABag
<1>4. CountBag(A) = SumFunctionOnSet(f, s)
  BY <1>2, <1>3, CountBagIs
<1>5. \A r \in s : f[r] = g[r]
  BY <1>1
<1>6. Count(s) = SumFunctionOnSet(g, s)
  BY CountIs
<1> HIDE DEF f, g
<1>7. SumFunctionOnSet(f, s) = SumFunctionOnSet(g, s)
  BY <1>5, SumEqual
<1>8. QED  BY <1>3, <1>4, <1>6, <1>7 DEF A

\* Part of a bag taken out of it.
LEMMA BagMinus ==
  ASSUME NEW A, NEW P, RowsOK(A), RowsOK(P), P \sqsubseteq A
  PROVE  RowsOK(A (-) P) /\ CountBag(A) = CountBag(A (-) P) + CountBag(P)
<1> DEFINE B == A (-) P
           left == [r \in DOMAIN A |-> IF r \in DOMAIN P THEN A[r] - P[r] ELSE A[r]]
<1>1. /\ DOMAIN P \subseteq DOMAIN A
      /\ \A r \in DOMAIN P : P[r] <= A[r] /\ P[r] \in Nat /\ P[r] > 0
      /\ \A r \in DOMAIN A : A[r] \in Nat /\ A[r] > 0 /\ r.count \in Nat
  BY DEF RowsOK, IsABag, \sqsubseteq
<1>2. B = [r \in {d \in DOMAIN left : left[d] > 0} |-> left[r]]
  BY DEF (-)
<1>3. \A r \in DOMAIN A : left[r] \in Nat /\ left[r] + (IF r \in DOMAIN P THEN P[r] ELSE 0) = A[r]
  BY <1>1
<1> HIDE DEF B
<1>4. /\ DOMAIN B = {d \in DOMAIN A : left[d] > 0}
      /\ \A r \in DOMAIN B : B[r] = left[r]
  BY <1>2
<1> HIDE DEF left
<1>5. RowsOK(B)
  <2>1. DOMAIN B \in SUBSET DOMAIN A
    BY <1>4
  <2>2. IsFiniteSet(DOMAIN B)
    BY <2>1, FS_Subset DEF RowsOK
  <2>3. \A r \in DOMAIN B : B[r] \in {n \in Nat : n > 0} /\ r.count \in Nat
    BY <1>1, <1>3, <1>4
  <2>4. B = [r \in DOMAIN B |-> B[r]]
    BY <1>2
  <2>5. QED  BY <2>2, <2>3, <2>4 DEF RowsOK, IsABag
<1>6. B (+) P = A
  <2>1. B (+) P = [r \in DOMAIN B \cup DOMAIN P |->
                     (IF r \in DOMAIN B THEN B[r] ELSE 0) + (IF r \in DOMAIN P THEN P[r] ELSE 0)]
    BY DEF (+)
  <2>2. DOMAIN B \cup DOMAIN P = DOMAIN A
    BY <1>1, <1>3, <1>4
  <2>3. ASSUME NEW r \in DOMAIN A
        PROVE (IF r \in DOMAIN B THEN B[r] ELSE 0) + (IF r \in DOMAIN P THEN P[r] ELSE 0) = A[r]
    <3>1. (IF r \in DOMAIN B THEN B[r] ELSE 0) = left[r]
      BY <1>3, <1>4
    <3>2. QED  BY <1>3, <3>1
  <2>4. A = [r \in DOMAIN A |-> A[r]]
    BY DEF RowsOK, IsABag
  <2>5. QED  BY <2>1, <2>2, <2>3, <2>4
<1>7. QED  BY <1>5, <1>6, BagPlus DEF B

\* One row.
LEMMA RowOfOne ==
  ASSUME NEW row, row.count \in Nat
  PROVE  RowsOK(SetToBag({row})) /\ CountBag(SetToBag({row})) = row.count
<1>1. IsFiniteSet({row})
  BY FS_Singleton
<1>2. \A r \in {row} : r.count \in Nat
  OBVIOUS
<1> DEFINE f == [b \in {row} |-> b.count]
<1>3. Count({row}) = SumFunctionOnSet(f, {row})
  BY <1>1, <1>2, CountIs
<1>4. f[row] = row.count /\ row \in {row} /\ \A r \in {row} : f[r] \in Nat
  OBVIOUS
<1> HIDE DEF f
<1>5. SumFunctionOnSet(f, {row}) = f[row] + SumFunctionOnSet(f, {row} \ {row})
  BY <1>1, <1>4, SumAny
<1>6. {row} \ {row} = {}
  OBVIOUS
<1>7. SumFunctionOnSet(f, {row} \ {row}) = 0
  BY <1>6, SumNone
<1>8. Count({row}) = row.count
  BY <1>3, <1>4, <1>5, <1>7
<1>9. QED  BY <1>1, <1>2, <1>8, BagOfSet

\* The rows of buckets are as many, and count what the buckets count.
LEMMA RowsCount ==
  ASSUME NEW s, FlushOK(s), NEW t \in Table
  PROVE  LET bag == SetToBag({RowOf(t, b) : b \in s})
         IN  RowsOK(bag) /\ CountBag(bag) = Count(s) /\ Count(s) \in Nat
<1> DEFINE m == [b \in s |-> RowOf(t, b)]
           R == {RowOf(t, b) : b \in s}
           f == [b \in s |-> b.count]
           g == [r \in R |-> r.count]
<1>1. IsFiniteSet(s) /\ \A b \in s : b.count \in Nat
  BY DEF FlushOK, Bucket
<1>2. \A b \in s : RowOf(t, b).key = b.key /\ RowOf(t, b).count = b.count
  BY DEF RowOf
<1>3. \A b \in s : f[b] \in Nat /\ g[m[b]] = f[b]
  BY <1>1, <1>2
<1>4. \A b, c \in s : m[b] = m[c] => b = c
  BY <1>2 DEF FlushOK
<1>5. R = {m[b] : b \in s}
  OBVIOUS
<1>6. \A r \in R : r.count \in Nat
  BY <1>1, <1>2
<1> HIDE DEF m, R, f, g
<1>7. /\ IsFiniteSet({m[b] : b \in s})
      /\ SumFunctionOnSet(g, {m[b] : b \in s}) = SumFunctionOnSet(f, s)
  BY <1>1, <1>3, <1>4, SumRenamed
<1>8. Count(R) = SumFunctionOnSet(g, R)
  BY <1>5, <1>6, <1>7, CountIs DEF g
<1>9. Count(s) = SumFunctionOnSet(f, s) /\ Count(s) \in Nat
  BY <1>1, CountIs DEF f
<1>10. RowsOK(SetToBag(R)) /\ CountBag(SetToBag(R)) = Count(R)
  BY <1>5, <1>6, <1>7, BagOfSet
<1>11. QED  BY <1>5, <1>7, <1>8, <1>9, <1>10 DEF R

---------------------------------------------------------------------------
(* The aggregator's invariant                                              *)

\* The trades on their way.
FlowOK ==
  /\ published \in Seq(Trade) /\ Len(published) <= MaxTrades
  /\ inserted \in 0..Len(published) /\ viewed \in 0..inserted
  /\ fetched \subseteq 1..Len(published) /\ hand \in fetched \cup {0}
  /\ connected \in BOOLEAN
  /\ crashes \in 0..MaxCrashes
  /\ counted \in Seq(Trade)
  /\ extra \in [Table -> Nat] /\ lost \in [Table -> Nat]

\* The maps, the flushes and the tables.
TablesOK ==
  /\ live = [t \in Table |-> live[t]] /\ flight = [t \in Table |-> flight[t]]
  /\ rows = [t \in Table |-> rows[t]]
  /\ attempt \in [Table -> 0..MaxAttempts]
  /\ \A t \in Table : /\ MapOK(live[t]) /\ FlushOK(flight[t]) /\ RowsOK(rows[t])
                      /\ attempt[t] = 0 <=> flight[t] = {}

\* The inductive invariant: the balance, and what makes counts add up.
FlushInv == FlowOK /\ TablesOK /\ TradesAccountedFor

\* The types follow from the invariant.
LEMMA TypesFollow == FlushInv => AggregatorTypeOK
<1> SUFFICES ASSUME FlushInv PROVE AggregatorTypeOK
  OBVIOUS
<1>1. \A t \in Table : /\ \A k \in DOMAIN live[t] : live[t][k].key = k
                       /\ \A b, c \in flight[t] : b.key = c.key => b = c
                       /\ IsABag(rows[t])
  BY DEF FlushInv, TablesOK, MapOK, FlushOK, RowsOK
<1>2. viewed \in 0..MaxTrades
  BY BoundAssumption DEF FlushInv, FlowOK
<1>3. QED  BY <1>1, <1>2 DEF FlushInv, FlowOK, TablesOK, AggregatorTypeOK

\* What the parts of the balance are.
LEMMA Parts ==
  ASSUME TablesOK, NEW t \in Table
  PROVE  /\ Buckets(t) = In(live[t]) /\ FlushOK(Buckets(t)) /\ Count(Buckets(t)) \in Nat
         /\ FlushOK(flight[t]) /\ Count(flight[t]) \in Nat
         /\ CountRows(t) = CountBag(rows[t]) /\ CountRows(t) \in Nat
         /\ RowsOK(RowsOf(t)) /\ CountBag(RowsOf(t)) = Count(flight[t])
         /\ RowsOK(rows[t] (+) RowsOf(t))
         /\ CountBag(rows[t] (+) RowsOf(t)) = CountRows(t) + Count(flight[t])
<1>1. MapOK(live[t]) /\ FlushOK(flight[t]) /\ RowsOK(rows[t])
  BY DEF TablesOK
<1>2. Buckets(t) = In(live[t])
  BY DEF Buckets, In
<1>3. FlushOK(In(live[t])) /\ Count(In(live[t])) \in Nat
  BY <1>1, InMap
<1>4. CountRows(t) = CountBag(rows[t]) /\ CountBag(rows[t]) \in Nat
  BY <1>1, CountBagIs DEF CountRows
<1>5. RowsOK(RowsOf(t)) /\ CountBag(RowsOf(t)) = Count(flight[t]) /\ Count(flight[t]) \in Nat
  BY <1>1, RowsCount DEF RowsOf
<1>6. RowsOK(rows[t] (+) RowsOf(t)) /\ CountBag(rows[t] (+) RowsOf(t)) = CountRows(t) + Count(flight[t])
  BY <1>1, <1>4, <1>5, BagPlus
<1>7. QED  BY <1>1, <1>2, <1>3, <1>4, <1>5, <1>6

\* A trade of one of the histories that may happen fits in.
LEMMA HistoryEnds ==
  ASSUME NEW s \in Seq(Trade), NEW tr \in Trade, NEW h \in Histories, IsPrefix(Append(s, tr), h)
  PROVE  Len(Append(s, tr)) <= MaxTrades
<1> DEFINE l == [i \in Histories |-> Len(i)]
           L == {Len(i) : i \in Histories}
<1>1. \A i \in Histories : Len(i) \in Nat
  <2>1. \A i \in Histories : i \in Seq(Trade)
    BY TradeAssumption
  <2>2. QED  BY <2>1
<1>2. L = {l[i] : i \in Histories}
  OBVIOUS
<1>3. IsFiniteSet({l[i] : i \in Histories})
  <2> HIDE DEF l
  <2>1. QED  BY TradeAssumption, ImageIsFinite
<1>4. L \in SUBSET Nat /\ L # {} /\ Len(h) \in L
  BY <1>1, TradeAssumption
<1> HIDE DEF L
<1>5. Len(h) <= Max(L)
  BY <1>2, <1>3, <1>4, MaxIsMost
<1>6. Max(L) = MaxTrades
  BY DEF MaxTrades, L
<1>7. Len(Append(s, tr)) <= Len(h)
  BY DEF IsPrefix
<1>8. Len(Append(s, tr)) \in Nat /\ Len(h) \in Nat /\ MaxTrades \in Nat
  BY <1>1, BoundAssumption
<1>9. QED  BY <1>5, <1>6, <1>7, <1>8

\* Nothing that is counted moves.
LEMMA NothingMoves ==
  ASSUME TablesOK, TradesAccountedFor, UNCHANGED <<viewed, counted, live, flusher, rows>>
  PROVE  TablesOK' /\ TradesAccountedFor'
BY DEF TablesOK, TradesAccountedFor, flusher, Buckets, CountRows

\* The numbers of the balance.
LEMMA Numbers ==
  ASSUME FlushInv, NEW t \in Table
  PROVE  /\ CountRows(t) \in Nat /\ Count(Buckets(t)) \in Nat /\ Count(flight[t]) \in Nat
         /\ lost[t] \in Nat /\ extra[t] \in Nat /\ Len(counted) \in Nat /\ viewed \in Nat
BY Parts DEF FlushInv, FlowOK

\* A trade published is not counted yet.
LEMMA HappensKeeps ==
  ASSUME FlushInv, NEW tr \in Trade, TradeHappens(tr)
  PROVE  FlushInv'
<1>1. UNCHANGED <<inserted, viewed, fetched, hand, counted, connected, live, flusher, extra, lost, rows, crashes>>
  BY DEF TradeHappens, loop, flusher
<1>2. TablesOK' /\ TradesAccountedFor'
  BY <1>1, NothingMoves DEF FlushInv
<1>3. published \in Seq(Trade) /\ published' = Append(published, tr)
  BY DEF TradeHappens, FlushInv, FlowOK
<1>4. published' \in Seq(Trade) /\ Len(published') <= MaxTrades /\ Len(published') = Len(published) + 1
  BY <1>3, HistoryEnds DEF TradeHappens
<1>5. FlowOK'
  BY <1>1, <1>3, <1>4 DEF FlushInv, FlowOK
<1>6. QED  BY <1>2, <1>5 DEF FlushInv

\* Nor is one fetched.
LEMMA FetchKeeps ==
  ASSUME FlushInv, Fetch
  PROVE  FlushInv'
<1>1. UNCHANGED <<published, inserted, viewed, counted, connected, live, flusher, extra, lost, rows, crashes>>
  BY DEF Fetch, source, flusher
<1>2. TablesOK' /\ TradesAccountedFor'
  BY <1>1, NothingMoves DEF FlushInv
<1>3. PICK i \in DOMAIN published \ fetched : fetched' = fetched \cup {i} /\ hand' \in {0, i}
  BY DEF Fetch
<1>4. i \in 1..Len(published)
  BY <1>3 DEF FlushInv, FlowOK
<1>5. FlowOK'
  BY <1>1, <1>3, <1>4 DEF FlushInv, FlowOK
<1>6. QED  BY <1>2, <1>5 DEF FlushInv

\* A row of the view comes with the trade it counts.
LEMMA InsertKeeps ==
  ASSUME FlushInv, InsertTrade
  PROVE  FlushInv'
<1> DEFINE c == "price_history_1m"
           row == ViewRow(published[inserted + 1])
<1>1. /\ inserted' = inserted + 1 /\ inserted < Len(published)
      /\ UNCHANGED <<published, fetched, hand, counted, connected, live, flight, attempt, extra, lost, crashes>>
  BY DEF InsertTrade, loop, flusher
<1>2. CASE UNCHANGED <<rows, viewed>>
  <2>1. TablesOK' /\ TradesAccountedFor'
    BY <1>1, <1>2, NothingMoves DEF FlushInv, flusher
  <2>2. FlowOK'
    BY <1>1, <1>2 DEF FlushInv, FlowOK
  <2>3. QED  BY <2>1, <2>2 DEF FlushInv
<1>3. CASE rows' = [rows EXCEPT ![c] = @ (+) SetToBag({row})] /\ viewed' = viewed + 1
  <2>1. row.count = 1
    BY DEF ViewRow
  <2>2. RowsOK(SetToBag({row})) /\ CountBag(SetToBag({row})) = 1
    <3> HIDE DEF row
    <3>1. QED  BY <2>1, RowOfOne
  <2> HIDE DEF row
  <2>3. /\ c \in Table /\ RowsOK(rows[c]) /\ rows' = [t \in Table |-> rows'[t]]
        /\ rows'[c] = rows[c] (+) SetToBag({row})
        /\ \A t \in Table \ {c} : rows'[t] = rows[t]
    BY <1>3 DEF FlushInv, TablesOK, Table
  <2>4. RowsOK(rows'[c]) /\ CountBag(rows'[c]) = CountBag(rows[c]) + 1
    BY <2>2, <2>3, BagPlus
  <2>5. TablesOK'
    BY <1>1, <2>3, <2>4 DEF FlushInv, TablesOK
  <2>6. FlowOK'
    BY <1>1, <1>3 DEF FlushInv, FlowOK
  <2>7. ASSUME NEW t \in Table
        PROVE  Len(counted') + extra'[t] + (IF t = c THEN viewed' ELSE 0)
                 = CountRows(t)' + Count(Buckets(t))' + Count(flight[t])' + lost'[t]
    <3>1. Count(Buckets(t))' = Count(Buckets(t)) /\ Count(flight[t])' = Count(flight[t])
      BY <1>1 DEF Buckets
    <3>2. CountRows(t)' = CountRows(t) + (IF t = c THEN 1 ELSE 0)
      BY <2>3, <2>4, Parts DEF CountRows, FlushInv
    <3>3. Len(counted) + extra[t] + (IF t = c THEN viewed ELSE 0)
            = CountRows(t) + Count(Buckets(t)) + Count(flight[t]) + lost[t]
      BY DEF FlushInv, TradesAccountedFor
    <3>0. /\ CountRows(t) \in Nat /\ Count(Buckets(t)) \in Nat /\ Count(flight[t]) \in Nat
          /\ lost[t] \in Nat /\ extra[t] \in Nat /\ Len(counted) \in Nat /\ viewed \in Nat
      BY Numbers
    <3>4. CASE t = c
      <4>1. Len(counted) + extra[t] + viewed
              = CountRows(t) + Count(Buckets(t)) + Count(flight[t]) + lost[t]
        BY <3>3, <3>4
      <4>2. CountRows(t)' = CountRows(t) + 1
        BY <3>2, <3>4
      <4>3. Len(counted) + extra[t] + (viewed + 1)
              = (CountRows(t) + 1) + Count(Buckets(t)) + Count(flight[t]) + lost[t]
        <5>1. PICK p \in Nat, q \in Nat, u \in Nat, w \in Nat, x \in Nat, y \in Nat, z \in Nat :
                 /\ p = Len(counted) /\ q = extra[t] /\ u = viewed
                 /\ w = CountRows(t) /\ x = Count(Buckets(t)) /\ y = Count(flight[t]) /\ z = lost[t]
          BY <3>0
        <5>2. p + q + u = w + x + y + z
          BY <4>1, <5>1
        <5>3. p + q + (u + 1) = (w + 1) + x + y + z
          BY <5>2
        <5>4. QED  BY <5>1, <5>3
      <4>4. QED  BY <1>1, <1>3, <3>1, <3>4, <4>2, <4>3
    <3>5. CASE t # c
      <4>1. CountRows(t)' = CountRows(t)
        BY <3>2, <3>5, Numbers
      <4>2. QED  BY <1>1, <3>1, <3>3, <3>5, <4>1
    <3>6. QED  BY <3>4, <3>5
  <2>8. QED  BY <2>5, <2>6, <2>7 DEF FlushInv, TradesAccountedFor
<1>4. QED  BY <1>2, <1>3 DEF InsertTrade

\* The balance of one table.
Balanced(t) ==
  Len(counted) + extra[t] + (IF t = "price_history_1m" THEN viewed ELSE 0)
    = CountRows(t) + Count(Buckets(t)) + Count(flight[t]) + lost[t]

\* The balance as plain numbers.
LEMMA InNumbers ==
  ASSUME FlushInv, NEW t \in Table
  PROVE  \E n, e, v, r, b, f, l \in Nat :
            /\ n = Len(counted) /\ e = extra[t] /\ v = (IF t = "price_history_1m" THEN viewed ELSE 0)
            /\ r = CountRows(t) /\ b = Count(Buckets(t)) /\ f = Count(flight[t]) /\ l = lost[t]
            /\ n + e + v = r + b + f + l
<1>1. /\ CountRows(t) \in Nat /\ Count(Buckets(t)) \in Nat /\ Count(flight[t]) \in Nat
      /\ lost[t] \in Nat /\ extra[t] \in Nat /\ Len(counted) \in Nat /\ viewed \in Nat
  BY Numbers
<1>2. (IF t = "price_history_1m" THEN viewed ELSE 0) \in Nat
  BY <1>1
<1>3. Len(counted) + extra[t] + (IF t = "price_history_1m" THEN viewed ELSE 0)
        = CountRows(t) + Count(Buckets(t)) + Count(flight[t]) + lost[t]
  BY DEF FlushInv, TradesAccountedFor
<1>4. QED  BY <1>1, <1>2, <1>3

\* The other table keeps its balance.
LEMMA Elsewhere ==
  ASSUME FlushInv, NEW t \in Table,
         UNCHANGED <<viewed, counted>>, extra'[t] = extra[t], lost'[t] = lost[t],
         live'[t] = live[t], flight'[t] = flight[t], rows'[t] = rows[t]
  PROVE  Balanced(t)'
<1>1. Balanced(t)
  BY DEF FlushInv, TradesAccountedFor, Balanced
<1>2. Buckets(t)' = Buckets(t) /\ CountRows(t)' = CountRows(t)
  BY DEF Buckets, CountRows
<1>3. QED  BY <1>1, <1>2 DEF Balanced

\* Two rows that are summed count together what they counted.
LEMMA MergeKeeps ==
  ASSUME FlushInv, MergeRows
  PROVE  FlushInv'
<1> DEFINE c == "price_history_1m"
           A == rows[c]
<1>1. PICK r \in BagToSet(A), s \in BagToSet(A) :
         LET pair == SetToBag({r}) (+) SetToBag({s})
         IN /\ r.key = s.key
            /\ pair \sqsubseteq A
            /\ rows' = [rows EXCEPT ![c] = (A (-) pair) (+) SetToBag({Summed(r, s)})]
            /\ UNCHANGED <<source, loop, connected, live, flusher, crashes>>
  BY DEF MergeRows
<1> DEFINE pair == SetToBag({r}) (+) SetToBag({s})
           sum == Summed(r, s)
<1>2. /\ pair \sqsubseteq A
      /\ rows' = [rows EXCEPT ![c] = (A (-) pair) (+) SetToBag({sum})]
      /\ UNCHANGED <<published, inserted, viewed, fetched, hand, counted, connected, live, flight,
                     attempt, extra, lost, crashes>>
  BY <1>1 DEF source, loop, flusher
<1>3. RowsOK(A) /\ c \in Table
  BY DEF FlushInv, TablesOK, Table
<1>4. r.count \in Nat /\ s.count \in Nat
  BY <1>3 DEF RowsOK, BagToSet
<1>5. sum.count = r.count + s.count
  BY DEF Summed
<1>6. ASSUME NEW x, x.count \in Nat
      PROVE  RowsOK(SetToBag({x})) /\ CountBag(SetToBag({x})) = x.count
  BY <1>6, RowOfOne
<1>7. /\ RowsOK(SetToBag({r})) /\ CountBag(SetToBag({r})) = r.count
      /\ RowsOK(SetToBag({s})) /\ CountBag(SetToBag({s})) = s.count
      /\ RowsOK(SetToBag({sum})) /\ CountBag(SetToBag({sum})) = r.count + s.count
  <2> HIDE DEF sum
  <2>1. sum.count \in Nat
    BY <1>4, <1>5
  <2>2. QED  BY <1>4, <1>5, <1>6, <2>1
<1> HIDE DEF A, sum
<1>8. RowsOK(pair) /\ CountBag(pair) = r.count + s.count
  BY <1>7, BagPlus
<1> HIDE DEF pair
<1>9. RowsOK(A (-) pair) /\ CountBag(A) = CountBag(A (-) pair) + CountBag(pair)
  BY <1>2, <1>3, <1>8, BagMinus
<1> DEFINE More == (A (-) pair) (+) SetToBag({sum})
<1>10. RowsOK(More) /\ CountBag(More) = CountBag(A)
  BY <1>7, <1>8, <1>9, BagPlus
<1>11. rows' = [rows EXCEPT ![c] = More]
  BY <1>2
<1> HIDE DEF More
<1>12. /\ \A t \in Table : RowsOK(rows'[t]) /\ CountBag(rows'[t]) = CountBag(rows[t])
       /\ rows' = [t \in Table |-> rows'[t]]
  BY <1>3, <1>10, <1>11 DEF FlushInv, TablesOK, A
<1>13. TablesOK'
  BY <1>2, <1>12 DEF FlushInv, TablesOK
<1>14. FlowOK'
  BY <1>2 DEF FlushInv, FlowOK
<1>15. TradesAccountedFor'
  <2>1. \A t \in Table : CountRows(t)' = CountRows(t) /\ Buckets(t)' = Buckets(t)
    BY <1>2, <1>12 DEF CountRows, Buckets
  <2>2. QED  BY <1>2, <2>1 DEF FlushInv, TradesAccountedFor
<1>16. QED  BY <1>13, <1>14, <1>15 DEF FlushInv

\* A trade is added to both maps and to the trades counted.
LEMMA UpdateKeeps ==
  ASSUME FlushInv, Update
  PROVE  FlushInv'
<1> DEFINE tr == published[hand]
<1>1. /\ hand # 0 /\ hand' = 0
      /\ live' = [t \in Table |-> UpdateBucket(live[t], t, tr)]
      /\ counted' = Append(counted, tr)
      /\ UNCHANGED <<published, inserted, viewed, fetched, connected, flight, attempt, extra, lost, rows, crashes>>
  BY DEF Update, source, flusher
<1>2. tr \in Trade
  BY <1>1 DEF FlushInv, FlowOK
<1> HIDE DEF tr
<1>3. counted' \in Seq(Trade) /\ Len(counted') = Len(counted) + 1
  BY <1>1, <1>2 DEF FlushInv, FlowOK
<1>4. FlowOK'
  BY <1>1, <1>3 DEF FlushInv, FlowOK
<1>5. \A t \in Table : MapOK(live'[t]) /\ Count(In(live'[t])) = Count(In(live[t])) + 1
  <2> SUFFICES ASSUME NEW t \in Table
               PROVE MapOK(live'[t]) /\ Count(In(live'[t])) = Count(In(live[t])) + 1
    OBVIOUS
  <2>1. MapOK(live[t])
    BY DEF FlushInv, TablesOK
  <2>2. live'[t] = UpdateBucket(live[t], t, tr)
    BY <1>1
  <2>3. QED  BY <1>2, <2>1, <2>2, Updated
<1>6. TablesOK'
  BY <1>1, <1>5 DEF FlushInv, TablesOK
<1>7. ASSUME NEW t \in Table PROVE Balanced(t)'
  <2>1. PICK n \in Nat, e \in Nat, v \in Nat, r \in Nat, b \in Nat, f \in Nat, l \in Nat :
            /\ n = Len(counted) /\ e = extra[t] /\ v = (IF t = "price_history_1m" THEN viewed ELSE 0)
            /\ r = CountRows(t) /\ b = Count(Buckets(t)) /\ f = Count(flight[t]) /\ l = lost[t]
            /\ n + e + v = r + b + f + l
    BY InNumbers
  <2>2. Count(Buckets(t))' = b + 1
    <3>1. Count(Buckets(t)) = Count(In(live[t])) /\ Count(Buckets(t))' = Count(In(live'[t]))
      BY DEF Buckets, In
    <3>2. QED  BY <1>5, <2>1, <3>1
  <2>3. CountRows(t)' = r
    BY <1>1, <2>1 DEF CountRows
  <2>4. (n + 1) + e + v = r + (b + 1) + f + l
    <3>1. n + e + v = r + b + f + l
      BY <2>1
    <3>2. QED  BY <3>1
  <2>5. QED  BY <1>1, <1>3, <2>1, <2>2, <2>3, <2>4 DEF Balanced
<1>8. QED  BY <1>4, <1>6, <1>7 DEF FlushInv, TradesAccountedFor, Balanced

\* Buckets swapped out without a connection are given up.
LEMMA DiscardKeeps ==
  ASSUME FlushInv, NEW t \in Table, Discard(t)
  PROVE  FlushInv'
<1>1. /\ live' = [live EXCEPT ![t] = <<>>]
      /\ lost' = [lost EXCEPT ![t] = @ + Count(Buckets(t))]
      /\ UNCHANGED <<published, inserted, viewed, fetched, hand, counted, connected, flight, attempt,
                     extra, rows, crashes>>
  BY DEF Discard, source, loop
<1>2. PICK n \in Nat, e \in Nat, v \in Nat, r \in Nat, b \in Nat, f \in Nat, l \in Nat :
          /\ n = Len(counted) /\ e = extra[t] /\ v = (IF t = "price_history_1m" THEN viewed ELSE 0)
          /\ r = CountRows(t) /\ b = Count(Buckets(t)) /\ f = Count(flight[t]) /\ l = lost[t]
          /\ n + e + v = r + b + f + l
  BY InNumbers
<1>3. live'[t] = <<>> /\ \A s \in Table \ {t} : live'[s] = live[s]
  BY <1>1 DEF FlushInv, TablesOK
<1>4. /\ lost' \in [Table -> Nat] /\ lost'[t] = l + b
      /\ \A s \in Table \ {t} : lost'[s] = lost[s]
  <2>1. l + b \in Nat
    OBVIOUS
  <2>2. lost' = [lost EXCEPT ![t] = l + b]
    BY <1>1, <1>2 DEF FlushInv, FlowOK
  <2>3. QED  BY <2>1, <2>2 DEF FlushInv, FlowOK
<1>5. FlowOK'
  BY <1>1, <1>4 DEF FlushInv, FlowOK
<1>6. TablesOK'
  BY <1>1, <1>3, EmptyMap DEF FlushInv, TablesOK
<1>7. Balanced(t)'
  <2>1. Count(Buckets(t))' = 0 /\ CountRows(t)' = r
    <3>1. Buckets(t)' = {}
      BY <1>3, EmptyMap DEF Buckets, In
    <3>2. QED  BY <1>1, <1>2, <3>1, CountOfNone DEF CountRows
  <2>2. n + e + v = r + 0 + f + (l + b)
    <3>1. n + e + v = r + b + f + l
      BY <1>2
    <3>2. QED  BY <3>1
  <2>3. QED  BY <1>1, <1>2, <1>4, <2>1, <2>2 DEF Balanced
<1>8. \A s \in Table \ {t} : Balanced(s)'
  BY <1>1, <1>3, <1>4, Elsewhere
<1>9. QED  BY <1>5, <1>6, <1>7, <1>8 DEF FlushInv, TradesAccountedFor, Balanced

\* The buckets of a map go into a flush that was empty.
LEMMA TickKeeps ==
  ASSUME FlushInv, NEW t \in Table, Tick(t)
  PROVE  FlushInv'
<1>1. /\ attempt[t] = 0 /\ live[t] # <<>>
      /\ flight' = [flight EXCEPT ![t] = Buckets(t)]
      /\ live' = [live EXCEPT ![t] = <<>>]
      /\ attempt' = [attempt EXCEPT ![t] = 1]
      /\ UNCHANGED <<published, inserted, viewed, fetched, hand, counted, connected, extra, lost, rows, crashes>>
  BY DEF Tick, source, loop
<1>2. PICK n \in Nat, e \in Nat, v \in Nat, r \in Nat, b \in Nat, f \in Nat, l \in Nat :
          /\ n = Len(counted) /\ e = extra[t] /\ v = (IF t = "price_history_1m" THEN viewed ELSE 0)
          /\ r = CountRows(t) /\ b = Count(Buckets(t)) /\ f = Count(flight[t]) /\ l = lost[t]
          /\ n + e + v = r + b + f + l
  BY InNumbers
<1>3. /\ live'[t] = <<>> /\ flight'[t] = Buckets(t) /\ attempt'[t] = 1
      /\ \A s \in Table \ {t} : live'[s] = live[s] /\ flight'[s] = flight[s] /\ attempt'[s] = attempt[s]
  BY <1>1 DEF FlushInv, TablesOK
<1>4. FlushOK(Buckets(t)) /\ flight[t] = {} /\ f = 0 /\ Buckets(t) # {}
  <2>1. flight[t] = {}
    BY <1>1 DEF FlushInv, TablesOK
  <2>2. Buckets(t) # {}
    <3>1. live[t] \in [DOMAIN live[t] -> Bucket]
      BY DEF FlushInv, TablesOK, MapOK
    <3>2. DOMAIN live[t] # {}
      <4>1. \A m \in [{} -> Bucket] : m = <<>>
        BY SMT
      <4>2. QED  BY <1>1, <3>1, <4>1
    <3>3. QED  BY <3>2 DEF Buckets
  <2>3. QED  BY <1>2, <2>1, <2>2, CountOfNone, Parts DEF FlushInv
<1>5. FlowOK'
  BY <1>1 DEF FlushInv, FlowOK
<1>6. TablesOK'
  <2>1. 1 \in 0..MaxAttempts
    BY BoundAssumption
  <2>2. attempt' \in [Table -> 0..MaxAttempts]
    BY <1>1, <2>1 DEF FlushInv, TablesOK
  <2>3. live' = [s \in Table |-> live'[s]] /\ flight' = [s \in Table |-> flight'[s]]
    BY <1>1 DEF FlushInv, TablesOK
  <2>4. \A s \in Table : /\ MapOK(live'[s]) /\ FlushOK(flight'[s])
                         /\ attempt'[s] = 0 <=> flight'[s] = {}
    BY <1>3, <1>4, EmptyMap DEF FlushInv, TablesOK
  <2>5. QED  BY <1>1, <2>2, <2>3, <2>4 DEF FlushInv, TablesOK
<1>7. Balanced(t)'
  <2>1. Count(Buckets(t))' = 0 /\ CountRows(t)' = r /\ Count(flight[t])' = b
    <3>1. Buckets(t)' = {}
      BY <1>3, EmptyMap DEF Buckets, In
    <3>2. QED  BY <1>1, <1>2, <1>3, <3>1, CountOfNone DEF CountRows
  <2>2. n + e + v = r + 0 + b + l
    BY <1>2, <1>4
  <2>3. QED  BY <1>1, <1>2, <2>1, <2>2 DEF Balanced
<1>8. \A s \in Table \ {t} : Balanced(s)'
  BY <1>1, <1>3, Elsewhere
<1>9. QED  BY <1>5, <1>6, <1>7, <1>8 DEF FlushInv, TradesAccountedFor, Balanced

\* Rows are stored, and their flush is over.
LEMMA SendKeeps ==
  ASSUME FlushInv, NEW t \in Table, Send(t)
  PROVE  FlushInv'
<1> DEFINE More == rows[t] (+) RowsOf(t)
<1>1. /\ rows' = [rows EXCEPT ![t] = More]
      /\ flight' = [flight EXCEPT ![t] = {}]
      /\ attempt' = [attempt EXCEPT ![t] = 0]
      /\ UNCHANGED <<published, inserted, viewed, fetched, hand, counted, connected, live, extra, lost, crashes>>
  BY DEF Send, source, loop
<1>2. PICK n \in Nat, e \in Nat, v \in Nat, r \in Nat, b \in Nat, f \in Nat, l \in Nat :
          /\ n = Len(counted) /\ e = extra[t] /\ v = (IF t = "price_history_1m" THEN viewed ELSE 0)
          /\ r = CountRows(t) /\ b = Count(Buckets(t)) /\ f = Count(flight[t]) /\ l = lost[t]
          /\ n + e + v = r + b + f + l
  BY InNumbers
<1>3. RowsOK(More) /\ CountBag(More) = r + f
  BY <1>2, Parts DEF FlushInv
<1> HIDE DEF More
<1>4. /\ rows'[t] = More /\ flight'[t] = {} /\ attempt'[t] = 0
      /\ \A s \in Table \ {t} : rows'[s] = rows[s] /\ flight'[s] = flight[s] /\ attempt'[s] = attempt[s]
  BY <1>1 DEF FlushInv, TablesOK
<1>5. FlowOK'
  BY <1>1 DEF FlushInv, FlowOK
<1>6. TablesOK'
  <2>1. attempt' \in [Table -> 0..MaxAttempts]
    BY <1>1, BoundAssumption DEF FlushInv, TablesOK
  <2>2. rows' = [s \in Table |-> rows'[s]] /\ flight' = [s \in Table |-> flight'[s]]
    BY <1>1 DEF FlushInv, TablesOK
  <2>3. \A s \in Table : /\ RowsOK(rows'[s]) /\ FlushOK(flight'[s])
                         /\ attempt'[s] = 0 <=> flight'[s] = {}
    BY <1>3, <1>4, EmptyMap DEF FlushInv, TablesOK
  <2>4. QED  BY <1>1, <2>1, <2>2, <2>3 DEF FlushInv, TablesOK
<1>7. Balanced(t)'
  <2>1. Count(Buckets(t))' = b /\ CountRows(t)' = r + f /\ Count(flight[t])' = 0
    BY <1>1, <1>2, <1>3, <1>4, CountOfNone DEF CountRows, Buckets
  <2>2. n + e + v = (r + f) + b + 0 + l
    BY <1>2
  <2>3. QED  BY <1>1, <1>2, <2>1, <2>2 DEF Balanced
<1>8. \A s \in Table \ {t} : Balanced(s)'
  BY <1>1, <1>4, Elsewhere
<1>9. QED  BY <1>5, <1>6, <1>7, <1>8 DEF FlushInv, TradesAccountedFor, Balanced

\* A send that fails stores its rows or not, and tries again or gives them up.
LEMMA FailureKeeps ==
  ASSUME FlushInv, NEW t \in Table, SendFails(t)
  PROVE  FlushInv'
<1> DEFINE More == rows[t] (+) RowsOf(t)
<1>1. /\ attempt[t] > 0
      /\ UNCHANGED <<published, inserted, viewed, fetched, hand, counted, connected, live, crashes>>
  BY DEF SendFails, source, loop
<1>2. PICK n \in Nat, e \in Nat, v \in Nat, r \in Nat, b \in Nat, f \in Nat, l \in Nat :
          /\ n = Len(counted) /\ e = extra[t] /\ v = (IF t = "price_history_1m" THEN viewed ELSE 0)
          /\ r = CountRows(t) /\ b = Count(Buckets(t)) /\ f = Count(flight[t]) /\ l = lost[t]
          /\ n + e + v = r + b + f + l
  BY InNumbers
<1>3. RowsOK(More) /\ CountBag(More) = r + f
  BY <1>2, Parts DEF FlushInv
<1> HIDE DEF More
<1>4. PICK x \in Nat : /\ extra' = [extra EXCEPT ![t] = e + x]
                       /\ rows' = [rows EXCEPT ![t] = rows'[t]]
                       /\ RowsOK(rows'[t]) /\ CountBag(rows'[t]) = r + x
  <2>1. CASE UNCHANGED <<rows, extra>>
    <3>1. RowsOK(rows[t]) /\ CountBag(rows[t]) = r + 0
      BY <1>2, Parts DEF FlushInv, TablesOK
    <3>2. extra = [extra EXCEPT ![t] = e + 0] /\ rows = [rows EXCEPT ![t] = rows[t]]
      <4>0. e = extra[t]
        BY <1>2
      <4>1. e + 0 = extra[t] /\ extra \in [Table -> Nat]
        <5>1. e + 0 = e
          OBVIOUS
        <5>2. QED  BY <4>0, <5>1 DEF FlushInv, FlowOK
      <4>2. rows = [s \in Table |-> rows[s]]
        BY DEF FlushInv, TablesOK
      <4>3. rows = [rows EXCEPT ![t] = rows[t]]
        BY <4>2
      <4>4. QED  BY <4>1, <4>3
    <3>3. QED  BY <2>1, <3>1, <3>2
  <2>2. CASE rows' = [rows EXCEPT ![t] = More] /\ extra' = [extra EXCEPT ![t] = @ + Count(flight[t])]
    <3>1. extra' = [extra EXCEPT ![t] = e + f]
      BY <1>2, <2>2 DEF FlushInv, FlowOK
    <3>2. rows'[t] = More
      BY <2>2 DEF FlushInv, TablesOK
    <3>3. QED  BY <1>3, <2>2, <3>1, <3>2
  <2>3. QED  BY <2>1, <2>2 DEF SendFails, More
<1> DEFINE Given(y, g) ==
             /\ y + g = f
             /\ lost' = [lost EXCEPT ![t] = l + y]
             /\ flight' = [flight EXCEPT ![t] = flight'[t]]
             /\ FlushOK(flight'[t]) /\ Count(flight'[t]) = g
             /\ attempt' = [attempt EXCEPT ![t] = attempt'[t]]
             /\ attempt'[t] \in 0..MaxAttempts /\ (attempt'[t] = 0 <=> flight'[t] = {})
<1>5. PICK y \in Nat, g \in Nat : Given(y, g)
  <2>1. CASE LastAttempt(t)
    <3>1. /\ flight' = [flight EXCEPT ![t] = {}] /\ attempt' = [attempt EXCEPT ![t] = 0]
          /\ lost' = [lost EXCEPT ![t] = @ + Count(flight[t])]
      BY <2>1 DEF SendFails
    <3>2. lost' = [lost EXCEPT ![t] = l + f]
      BY <1>2, <3>1 DEF FlushInv, FlowOK
    <3>3. flight'[t] = {} /\ attempt'[t] = 0
      BY <3>1 DEF FlushInv, TablesOK
    <3>4. 0 \in 0..MaxAttempts /\ f + 0 = f
      BY BoundAssumption
    <3>5. FlushOK(flight'[t]) /\ Count(flight'[t]) = 0
      BY <3>3, EmptyMap, CountOfNone
    <3>6. flight' = [flight EXCEPT ![t] = flight'[t]] /\ attempt' = [attempt EXCEPT ![t] = attempt'[t]]
      BY <3>1, <3>3
    <3>7. attempt'[t] \in 0..MaxAttempts /\ (attempt'[t] = 0 <=> flight'[t] = {})
      BY <3>3, <3>4
    <3>8. Given(f, 0)
      BY <3>2, <3>4, <3>5, <3>6, <3>7
    <3> HIDE DEF Given
    <3>9. QED  BY <3>8
  <2>2. CASE ~LastAttempt(t)
    <3>1. attempt' = [attempt EXCEPT ![t] = @ + 1] /\ flight' = flight /\ lost' = lost
      BY <2>2 DEF SendFails
    <3>2. lost' = [lost EXCEPT ![t] = l + 0]
      BY <1>2, <3>1 DEF FlushInv, FlowOK
    <3>3. flight' = [flight EXCEPT ![t] = flight'[t]] /\ FlushOK(flight'[t])
      BY <3>1 DEF FlushInv, TablesOK
    <3>4. attempt[t] \in 0..MaxAttempts /\ attempt[t] < MaxAttempts
      BY <2>2, BoundAssumption DEF LastAttempt, FlushInv, TablesOK
    <3>5. attempt'[t] \in 1..MaxAttempts /\ attempt' = [attempt EXCEPT ![t] = attempt'[t]]
      BY <3>1, <3>4, BoundAssumption DEF FlushInv, TablesOK
    <3>6. flight'[t] # {} /\ attempt'[t] # 0
      BY <1>1, <3>1, <3>4, <3>5 DEF FlushInv, TablesOK
    <3>7. Count(flight'[t]) = f /\ 0 + f = f
      BY <1>2, <3>1
    <3>8. Given(0, f)
      BY <3>2, <3>3, <3>5, <3>6, <3>7
    <3> HIDE DEF Given
    <3>9. QED  BY <3>8
  <2>3. QED  BY <2>1, <2>2
<1>6. \A s \in Table \ {t} : /\ extra'[s] = extra[s] /\ rows'[s] = rows[s] /\ lost'[s] = lost[s]
                             /\ flight'[s] = flight[s] /\ attempt'[s] = attempt[s]
  BY <1>4, <1>5 DEF FlushInv, FlowOK, TablesOK
<1>7. FlowOK'
  <2>1. e + x \in Nat /\ l + y \in Nat
    OBVIOUS
  <2>2. extra' \in [Table -> Nat] /\ lost' \in [Table -> Nat]
    BY <1>4, <1>5, <2>1 DEF FlushInv, FlowOK
  <2>3. QED  BY <1>1, <2>2 DEF FlushInv, FlowOK
<1>8. TablesOK'
  <2>1. attempt' \in [Table -> 0..MaxAttempts]
    BY <1>5 DEF FlushInv, TablesOK
  <2>2. rows' = [s \in Table |-> rows'[s]] /\ flight' = [s \in Table |-> flight'[s]]
    BY <1>4, <1>5 DEF FlushInv, TablesOK
  <2>3. \A s \in Table : /\ RowsOK(rows'[s]) /\ FlushOK(flight'[s])
                         /\ attempt'[s] = 0 <=> flight'[s] = {}
    BY <1>4, <1>5, <1>6 DEF FlushInv, TablesOK
  <2>4. QED  BY <1>1, <2>1, <2>2, <2>3 DEF FlushInv, TablesOK
<1>9. Balanced(t)'
  <2>1. Count(Buckets(t))' = b /\ CountRows(t)' = r + x /\ Count(flight[t])' = g
    BY <1>1, <1>2, <1>4, <1>5 DEF CountRows, Buckets
  <2>2. extra'[t] = e + x /\ lost'[t] = l + y
    BY <1>4, <1>5 DEF FlushInv, FlowOK
  <2>3. n + (e + x) + v = (r + x) + b + g + (l + y)
    <3>1. n + e + v = r + b + f + l /\ y + g = f
      BY <1>2, <1>5
    <3>2. QED  BY <3>1
  <2>4. QED  BY <1>1, <1>2, <2>1, <2>2, <2>3 DEF Balanced
<1>10. \A s \in Table \ {t} : Balanced(s)'
  BY <1>1, <1>6, Elsewhere
<1>11. QED  BY <1>7, <1>8, <1>9, <1>10 DEF FlushInv, TradesAccountedFor, Balanced

\* A restart gives up what is in the maps and in the flushes.
LEMMA RestartKeeps ==
  ASSUME FlushInv, Restart
  PROVE  FlushInv'
<1>1. /\ crashes < MaxCrashes /\ crashes' = crashes + 1 /\ hand' = 0 /\ connected' \in BOOLEAN
      /\ live' = [t \in Table |-> <<>>]
      /\ flight' = [t \in Table |-> {}]
      /\ attempt' = [t \in Table |-> 0]
      /\ lost' = [t \in Table |-> lost[t] + Count(Buckets(t)) + Count(flight[t])]
      /\ UNCHANGED <<published, inserted, viewed, fetched, counted, extra, rows>>
  BY DEF Restart, source
<1>2. \A t \in Table : lost[t] + Count(Buckets(t)) + Count(flight[t]) \in Nat
  BY Numbers
<1>3. FlowOK'
  BY <1>1, <1>2, BoundAssumption DEF FlushInv, FlowOK
<1>4. TablesOK'
  BY <1>1, EmptyMap, BoundAssumption DEF FlushInv, TablesOK
<1>5. ASSUME NEW t \in Table PROVE Balanced(t)'
  <2>1. PICK n \in Nat, e \in Nat, v \in Nat, r \in Nat, b \in Nat, f \in Nat, l \in Nat :
            /\ n = Len(counted) /\ e = extra[t] /\ v = (IF t = "price_history_1m" THEN viewed ELSE 0)
            /\ r = CountRows(t) /\ b = Count(Buckets(t)) /\ f = Count(flight[t]) /\ l = lost[t]
            /\ n + e + v = r + b + f + l
    BY InNumbers
  <2>2. Count(Buckets(t))' = 0 /\ CountRows(t)' = r /\ Count(flight[t])' = 0
    <3>1. Buckets(t)' = {}
      BY <1>1, EmptyMap DEF Buckets, In
    <3>2. QED  BY <1>1, <2>1, <3>1, CountOfNone DEF CountRows
  <2>3. lost'[t] = l + b + f
    BY <1>1, <2>1
  <2>4. n + e + v = r + 0 + 0 + (l + b + f)
    <3>1. n + e + v = r + b + f + l
      BY <2>1
    <3>2. QED  BY <3>1
  <2>5. QED  BY <1>1, <2>1, <2>2, <2>3, <2>4 DEF Balanced
<1>6. QED  BY <1>3, <1>4, <1>5 DEF FlushInv, TradesAccountedFor, Balanced

\* Nothing is counted at first.
LEMMA FlushStarts == AggregatorInit => FlushInv
<1> SUFFICES ASSUME AggregatorInit PROVE FlushInv
  OBVIOUS
<1>1. FlowOK
  BY BoundAssumption DEF AggregatorInit, FlowOK
<1>2. TablesOK
  BY EmptyMap, BoundAssumption DEF AggregatorInit, TablesOK
<1>3. ASSUME NEW t \in Table PROVE Balanced(t)
  <2>1. Buckets(t) = {}
    BY EmptyMap DEF AggregatorInit, Buckets, In
  <2>2. CountBag(EmptyBag) = 0
    <3>1. EmptyBag = SetToBag({})
      BY DEF EmptyBag
    <3>2. QED  BY <3>1, BagOfSet, CountOfNone, FS_EmptySet
  <2>3. Count(Buckets(t)) = 0 /\ CountRows(t) = 0 /\ Count(flight[t]) = 0
    BY <2>1, <2>2, CountOfNone DEF AggregatorInit, CountRows
  <2>4. Len(counted) = 0 /\ viewed = 0 /\ extra[t] = 0 /\ lost[t] = 0
    BY DEF AggregatorInit
  <2>5. QED  BY <2>3, <2>4 DEF Balanced
<1>4. QED  BY <1>1, <1>2, <1>3 DEF FlushInv, TradesAccountedFor, Balanced

\* Every step keeps the invariant.
LEMMA FlushSteps == FlushInv /\ [AggregatorNext]_aggregatorVars => FlushInv'
<1> SUFFICES ASSUME FlushInv, [AggregatorNext]_aggregatorVars PROVE FlushInv'
  OBVIOUS
<1>1. CASE UNCHANGED aggregatorVars
  <2>1. UNCHANGED <<published, inserted, viewed, fetched, hand, counted, connected, live, flusher, extra, lost, rows, crashes>>
    BY <1>1 DEF aggregatorVars, source, loop, flusher
  <2>2. TablesOK' /\ TradesAccountedFor'
    BY <2>1, NothingMoves DEF FlushInv
  <2>3. FlowOK'
    BY <2>1 DEF FlushInv, FlowOK
  <2>4. QED  BY <2>2, <2>3 DEF FlushInv
<1>2. CASE \E tr \in Trade : TradeHappens(tr)
  BY <1>2, HappensKeeps
<1>3. CASE InsertTrade
  BY <1>3, InsertKeeps
<1>4. CASE MergeRows
  BY <1>4, MergeKeeps
<1>5. CASE Fetch
  BY <1>5, FetchKeeps
<1>6. CASE Update
  BY <1>6, UpdateKeeps
<1>7. CASE \E t \in Table : Discard(t)
  BY <1>7, DiscardKeeps
<1>8. CASE \E t \in Table : Tick(t)
  BY <1>8, TickKeeps
<1>9. CASE \E t \in Table : Send(t)
  BY <1>9, SendKeeps
<1>10. CASE \E t \in Table : SendFails(t)
  BY <1>10, FailureKeeps
<1>11. CASE Restart
  BY <1>11, RestartKeeps
<1>12. QED
  BY <1>1, <1>2, <1>3, <1>4, <1>5, <1>6, <1>7, <1>8, <1>9, <1>10, <1>11 DEF AggregatorNext, Loop, Flush

\* Whatever the trades, their order, the failures and the restarts, a trade that
\* was added to the maps is in the table, in the map, in a flush or in a batch
\* given up, once for either table: the swap under the mutex, the flush outside
\* it and its retries (ingestion/main.go:577-612) neither lose nor repeat one.
THEOREM EveryTradeCounts == AggregatorSpec => []TradesAccountedFor
<1>1. AggregatorSpec => []FlushInv
  BY FlushStarts, FlushSteps, PTL DEF AggregatorSpec
<1>2. FlushInv => TradesAccountedFor
  BY DEF FlushInv
<1>3. QED  BY <1>1, <1>2, PTL

\* The aggregator's state is what its types say.
THEOREM BucketsTypeCorrect == AggregatorSpec => []AggregatorTypeOK
<1>1. AggregatorSpec => []FlushInv
  BY FlushStarts, FlushSteps, PTL DEF AggregatorSpec
<1>2. QED  BY <1>1, TypesFollow, PTL

---------------------------------------------------------------------------
(* Summaries                                                             *)

\* One more trade is of its own key only.
LEMMA OfMore ==
  ASSUME NEW s \in Seq(Trade), NEW tr \in Trade, NEW t, NEW k
  PROVE  /\ Of(s, t, k) \in Seq(Trade)
         /\ Of(Append(s, tr), t, k) = IF Key(t, tr) = k THEN Append(Of(s, t, k), tr) ELSE Of(s, t, k)
<1> DEFINE K == {r \in Trade : Key(t, r) = k}
<1>1. tr \in K <=> Key(t, tr) = k
  OBVIOUS
<1>2. Of(s, t, k) = Filter(s, K) /\ Of(Append(s, tr), t, k) = Filter(Append(s, tr), K)
  BY DEF Of
<1> HIDE DEF K
<1>3. QED  BY <1>1, <1>2, FilterMore

\* What is picked are trades.
LEMMA OfTyped == ASSUME NEW s \in Seq(Trade), NEW t, NEW k PROVE Of(s, t, k) \in Seq(Trade)
BY FilterType DEF Of

\* What Summarizes says, with bounds instead of Max and Min.
Prices(s) == {s[i].price : i \in DOMAIN s}
SizesOf(s)   == [i \in DOMAIN s |-> s[i].size]
WeightsOf(s) == [i \in DOMAIN s |-> s[i].size * s[i].price]

\* With bounds instead of the maximum and the minimum.
LEMMA SummaryIs ==
  ASSUME NEW b, NEW s \in Seq(Trade)
  PROVE  Summarizes(b, s) <=>
           /\ Len(s) > 0 /\ b.open = s[1].price /\ b.close = s[Len(s)].price
           /\ b.high \in Prices(s) /\ \A p \in Prices(s) : p <= b.high
           /\ b.low \in Prices(s) /\ \A p \in Prices(s) : b.low <= p
           /\ b.count = Len(s)
           /\ b.volume = SumFunctionOnSet(SizesOf(s), 1..Len(s))
           /\ b.weighted = SumFunctionOnSet(WeightsOf(s), 1..Len(s))
<1>1. DOMAIN s = 1..Len(s) /\ Len(s) \in Nat /\ (s # <<>> <=> Len(s) > 0)
      /\ \A i \in 1..Len(s) : s[i] \in Trade
  OBVIOUS
<1>2. Prices(s) \in SUBSET Nat /\ IsFiniteSet(Prices(s)) /\ (Len(s) > 0 => Prices(s) # {})
  <2> DEFINE pr == [i \in DOMAIN s |-> s[i].price]
  <2>1. Prices(s) = {pr[i] : i \in DOMAIN s}
    BY DEF Prices
  <2>2. \A i \in DOMAIN s : s[i].price \in Nat
    BY <1>1, TradeIs
  <2>3. IsFiniteSet(DOMAIN s)
    BY <1>1, FS_Interval
  <2>4. IsFiniteSet({pr[i] : i \in DOMAIN s})
    <3> HIDE DEF pr
    <3>1. QED  BY <2>3, ImageIsFinite
  <2>5. Len(s) > 0 => 1 \in DOMAIN s
    BY <1>1
  <2>6. QED  BY <2>1, <2>2, <2>4, <2>5 DEF Prices
<1>3. /\ SumFunction([i \in DOMAIN s |-> s[i].size]) = SumFunctionOnSet(SizesOf(s), 1..Len(s))
      /\ SumFunction([i \in DOMAIN s |-> s[i].size * s[i].price]) = SumFunctionOnSet(WeightsOf(s), 1..Len(s))
  BY <1>1 DEF SumFunction, SizesOf, WeightsOf
<1>4. Len(s) > 0 => /\ (b.high = Max(Prices(s)) <=> b.high \in Prices(s) /\ \A p \in Prices(s) : p <= b.high)
                    /\ (b.low = Min(Prices(s)) <=> b.low \in Prices(s) /\ \A p \in Prices(s) : b.low <= p)
  <2> SUFFICES ASSUME Len(s) > 0
               PROVE  /\ (b.high = Max(Prices(s)) <=> b.high \in Prices(s) /\ \A p \in Prices(s) : p <= b.high)
                      /\ (b.low = Min(Prices(s)) <=> b.low \in Prices(s) /\ \A p \in Prices(s) : b.low <= p)
    OBVIOUS
  <2>1. Max(Prices(s)) \in Prices(s) /\ \A p \in Prices(s) : p <= Max(Prices(s))
    BY <1>2, MaxIsMost
  <2>2. Min(Prices(s)) \in Prices(s) /\ \A p \in Prices(s) : Min(Prices(s)) <= p
    <3>1. \E x \in Prices(s) : \A y \in Prices(s) : x =< y
      BY <1>2, LeastNumber
    <3>2. QED  BY <3>1 DEF Min
  <2>3. b.high \in Prices(s) /\ (\A p \in Prices(s) : p <= b.high) => b.high = Max(Prices(s))
    BY <1>2, BoundIs
  <2>4. b.low \in Prices(s) /\ (\A p \in Prices(s) : b.low <= p) => b.low = Min(Prices(s))
    BY <1>2, BoundIs
  <2>5. QED  BY <2>1, <2>2, <2>3, <2>4
<1>5. Summarizes(b, s) <=> /\ Len(s) > 0 /\ b.open = s[1].price /\ b.close = s[Len(s)].price
                           /\ b.high = Max(Prices(s)) /\ b.low = Min(Prices(s)) /\ b.count = Len(s)
                           /\ b.volume = SumFunctionOnSet(SizesOf(s), 1..Len(s))
                           /\ b.weighted = SumFunctionOnSet(WeightsOf(s), 1..Len(s))
  BY <1>1, <1>3 DEF Summarizes, Last, Prices
<1>6. QED  BY <1>4, <1>5

\* The sums over the trades of a sequence.
LEMMA Totals ==
  ASSUME NEW s \in Seq(Trade)
  PROVE  \A i \in 1..Len(s) : SizesOf(s)[i] = s[i].size /\ SizesOf(s)[i] \in Nat
                              /\ WeightsOf(s)[i] = s[i].size * s[i].price /\ WeightsOf(s)[i] \in Nat
<1> SUFFICES ASSUME NEW i \in 1..Len(s)
             PROVE SizesOf(s)[i] = s[i].size /\ SizesOf(s)[i] \in Nat
                   /\ WeightsOf(s)[i] = s[i].size * s[i].price /\ WeightsOf(s)[i] \in Nat
  OBVIOUS
<1>1. s[i].size \in Nat /\ s[i].price \in Nat
  <2>1. s[i] \in Trade
    OBVIOUS
  <2>2. QED  BY <2>1, TradeIs
<1>2. s[i].size * s[i].price \in Nat
  <2> DEFINE p == s[i].size
             q == s[i].price
  <2>1. p \in Nat /\ q \in Nat
    BY <1>1
  <2> HIDE DEF p, q
  <2>2. p * q \in Nat
    BY <2>1
  <2>3. QED  BY <2>2 DEF p, q
<1>3. i \in DOMAIN s
  OBVIOUS
<1>4. QED  BY <1>1, <1>2, <1>3 DEF SizesOf, WeightsOf

\* A bucket with one more trade summarizes one more trade.
LEMMA SummaryMore ==
  ASSUME NEW b \in Bucket, NEW s \in Seq(Trade), Summarizes(b, s), NEW tr \in Trade
  PROVE  Summarizes(Added(b, tr), Append(s, tr))
<1> DEFINE u == Append(s, tr)
           n == Len(s)
           a == Added(b, tr)
<1>1. /\ u \in Seq(Trade) /\ Len(u) = n + 1 /\ n \in Nat /\ u[n + 1] = tr
      /\ \A i \in 1..n : u[i] = s[i]
  BY AppendIs
<1>2. /\ a.open = b.open
      /\ a.high = (IF tr.price > b.high THEN tr.price ELSE b.high)
      /\ a.low = (IF tr.price < b.low THEN tr.price ELSE b.low)
      /\ a.close = tr.price /\ a.count = b.count + 1
      /\ a.volume = b.volume + tr.size
      /\ a.weighted = b.weighted + tr.price * tr.size
  BY AddedIs
<1> HIDE DEF u, a
<1>3. tr.price \in Nat /\ tr.size \in Nat /\ tr.size * tr.price \in Nat /\ tr.price * tr.size = tr.size * tr.price
  <2>1. PICK p \in Nat, q \in Nat : p = tr.price /\ q = tr.size
    BY TradeIs
  <2>2. q * p \in Nat /\ p * q = q * p
    OBVIOUS
  <2>3. QED  BY <2>1, <2>2
<1>4. /\ n > 0 /\ b.open = s[1].price /\ b.close = s[n].price
      /\ b.high \in Prices(s) /\ \A p \in Prices(s) : p <= b.high
      /\ b.low \in Prices(s) /\ \A p \in Prices(s) : b.low <= p
      /\ b.count = n
      /\ b.volume = SumFunctionOnSet(SizesOf(s), 1..n)
      /\ b.weighted = SumFunctionOnSet(WeightsOf(s), 1..n)
  BY SummaryIs
<1>5. Prices(u) = Prices(s) \cup {tr.price} /\ Prices(s) \in SUBSET Nat
  <2>1. DOMAIN u = (1..n) \cup {n + 1} /\ DOMAIN s = 1..n
    BY <1>1
  <2>2. Prices(u) = {s[i].price : i \in 1..n} \cup {tr.price}
    BY <1>1, <2>1 DEF Prices
  <2>3. \A i \in 1..n : s[i].price \in Nat
    <3>1. \A i \in 1..n : s[i] \in Trade
      OBVIOUS
    <3>2. QED  BY <3>1, TradeIs
  <2>4. QED  BY <2>1, <2>2, <2>3 DEF Prices
<1>6. /\ a.high \in Prices(u) /\ \A p \in Prices(u) : p <= a.high
      /\ a.low \in Prices(u) /\ \A p \in Prices(u) : a.low <= p
  <2> HIDE DEF Prices
  <2>1. b.high \in Nat /\ b.low \in Nat
    BY <1>4, <1>5
  <2>2. \A p \in Prices(s) : p \in Nat
    BY <1>5
  <2>3. a.high \in Prices(u) /\ a.low \in Prices(u)
    BY <1>2, <1>4, <1>5
  <2>4. b.high <= a.high /\ tr.price <= a.high /\ a.high \in Nat /\ a.low <= b.low /\ a.low <= tr.price /\ a.low \in Nat
    BY <1>2, <1>3, <2>1
  <2>5. ASSUME NEW p \in Prices(u) PROVE p <= a.high /\ a.low <= p
    <3>1. CASE p \in Prices(s)
      <4>1. p \in Nat /\ p <= b.high /\ b.low <= p
        BY <1>4, <2>2, <3>1
      <4>2. QED  BY <2>1, <2>4, <4>1
    <3>2. CASE p = tr.price
      BY <2>4, <3>2
    <3>3. QED  BY <1>5, <3>1, <3>2
  <2>6. QED  BY <2>3, <2>5
<1>7. /\ SumFunctionOnSet(SizesOf(u), 1..(n + 1)) = SumFunctionOnSet(SizesOf(s), 1..n) + tr.size
      /\ SumFunctionOnSet(WeightsOf(u), 1..(n + 1)) = SumFunctionOnSet(WeightsOf(s), 1..n) + tr.size * tr.price
  <2>1. \A i \in 1..n : /\ SizesOf(s)[i] = s[i].size /\ SizesOf(s)[i] \in Nat
                        /\ WeightsOf(s)[i] = s[i].size * s[i].price /\ WeightsOf(s)[i] \in Nat
    BY Totals
  <2>2. \A i \in 1..(n + 1) : SizesOf(u)[i] = u[i].size /\ WeightsOf(u)[i] = u[i].size * u[i].price
    BY <1>1, Totals
  <2>3. n + 1 \in 1..(n + 1) /\ \A i \in 1..n : i \in 1..(n + 1)
    BY <1>1
  <2>4. SizesOf(u)[n + 1] = tr.size /\ WeightsOf(u)[n + 1] = tr.size * tr.price
    BY <1>1, <2>2, <2>3
  <2>5. \A i \in 1..n : SizesOf(u)[i] = SizesOf(s)[i] /\ WeightsOf(u)[i] = WeightsOf(s)[i]
    BY <1>1, <2>1, <2>2, <2>3
  <2> DEFINE f == SizesOf(s)
             g == SizesOf(u)
             h == WeightsOf(s)
             k == WeightsOf(u)
  <2>6. /\ \A i \in 1..n : f[i] \in Nat /\ g[i] = f[i] /\ h[i] \in Nat /\ k[i] = h[i]
        /\ g[n + 1] \in Nat /\ k[n + 1] \in Nat
    BY <1>3, <2>1, <2>4, <2>5
  <2> HIDE DEF f, g, h, k
  <2>7. SumFunctionOnSet(g, 1..(n + 1)) = SumFunctionOnSet(f, 1..n) + g[n + 1]
    BY <1>1, <2>6, SumLonger
  <2>8. SumFunctionOnSet(k, 1..(n + 1)) = SumFunctionOnSet(h, 1..n) + k[n + 1]
    BY <1>1, <2>6, SumLonger
  <2>9. QED  BY <2>4, <2>7, <2>8 DEF f, g, h, k
<1>8. a.volume = SumFunctionOnSet(SizesOf(u), 1..(n + 1)) /\ a.weighted = SumFunctionOnSet(WeightsOf(u), 1..(n + 1))
  BY <1>2, <1>3, <1>4, <1>7
<1>9. a.open = u[1].price /\ a.close = u[n + 1].price /\ a.count = n + 1 /\ n + 1 > 0
  <2>1. u[1] = s[1]
    BY <1>1, <1>4
  <2>2. QED  BY <1>1, <1>2, <1>4, <2>1
<1>10. Summarizes(a, u)
  BY <1>1, <1>6, <1>8, <1>9, SummaryIs
<1>11. QED  BY <1>10 DEF a, u

\* A new bucket summarizes its first trade.
LEMMA SummaryOne ==
  ASSUME NEW t \in Table, NEW tr \in Trade
  PROVE  Summarizes(Added(NewBucket(t, tr), tr), <<tr>>)
<1> DEFINE b == NewBucket(t, tr)
           a == Added(b, tr)
           u == <<tr>>
<1>1. tr.price \in Nat /\ tr.size \in Nat /\ tr.size * tr.price \in Nat /\ tr.price * tr.size = tr.size * tr.price
  <2>1. PICK p \in Nat, q \in Nat : p = tr.price /\ q = tr.size
    BY TradeIs
  <2>2. q * p \in Nat /\ p * q = q * p
    OBVIOUS
  <2>3. QED  BY <2>1, <2>2
<1>2. /\ b \in Bucket /\ b.open = tr.price /\ b.high = tr.price /\ b.low = tr.price
      /\ b.count = 0 /\ b.volume = 0 /\ b.weighted = 0
  <2>1. Key(t, tr) \in Keys
    BY DEF Keys
  <2>2. QED  BY <1>1, <2>1 DEF NewBucket, Bucket
<1> HIDE DEF b
<1>3. /\ a.open = tr.price /\ a.high = tr.price /\ a.low = tr.price /\ a.close = tr.price
      /\ a.count = 1 /\ a.volume = tr.size /\ a.weighted = tr.size * tr.price
  <2>1. /\ a.open = b.open
        /\ a.high = (IF tr.price > b.high THEN tr.price ELSE b.high)
        /\ a.low = (IF tr.price < b.low THEN tr.price ELSE b.low)
        /\ a.close = tr.price /\ a.count = b.count + 1
        /\ a.volume = b.volume + tr.size
        /\ a.weighted = b.weighted + tr.price * tr.size
    BY <1>2, AddedIs
  <2>2. QED  BY <1>1, <1>2, <2>1
<1> HIDE DEF a
<1>4. u \in Seq(Trade) /\ Len(u) = 1 /\ u[1] = tr
  OBVIOUS
<1> HIDE DEF u
<1>5. Prices(u) = {tr.price}
  <2>1. DOMAIN u = {1}
    BY <1>4
  <2>2. QED  BY <1>4, <2>1 DEF Prices
<1>6. /\ SumFunctionOnSet(SizesOf(u), 1..1) = tr.size
      /\ SumFunctionOnSet(WeightsOf(u), 1..1) = tr.size * tr.price
  <2>1. IsFiniteSet({}) /\ {} \cup {1} = 1..1 /\ 1 \notin {}
    BY FS_EmptySet
  <2>2. SizesOf(u)[1] = tr.size /\ WeightsOf(u)[1] = tr.size * tr.price
    <3>1. 1 \in 1..1
      OBVIOUS
    <3>2. QED  BY <1>4, <3>1, Totals
  <2>3. /\ SumFunctionOnSet(SizesOf(u), {} \cup {1}) = SizesOf(u)[1] + SumFunctionOnSet(SizesOf(u), {})
        /\ SumFunctionOnSet(WeightsOf(u), {} \cup {1}) = WeightsOf(u)[1] + SumFunctionOnSet(WeightsOf(u), {})
    <3>1. \A i \in {} \cup {1} : SizesOf(u)[i] \in Nat /\ WeightsOf(u)[i] \in Nat
      BY <1>1, <2>2
    <3>2. QED  BY <2>1, <3>1, SumMore
  <2>4. QED  BY <1>1, <2>1, <2>2, <2>3, SumNone
<1>7. Summarizes(a, u)
  <2>1. tr.price <= tr.price
    BY <1>1
  <2>2. /\ Len(u) > 0 /\ a.open = u[1].price /\ a.close = u[Len(u)].price
        /\ a.high \in Prices(u) /\ \A p \in Prices(u) : p <= a.high
        /\ a.low \in Prices(u) /\ \A p \in Prices(u) : a.low <= p
        /\ a.count = Len(u)
    BY <1>3, <1>4, <1>5, <2>1
  <2>3. /\ a.volume = SumFunctionOnSet(SizesOf(u), 1..Len(u))
        /\ a.weighted = SumFunctionOnSet(WeightsOf(u), 1..Len(u))
    BY <1>3, <1>4, <1>6
  <2>4. QED  BY <1>4, <2>2, <2>3, SummaryIs
<1>8. QED  BY <1>7 DEF a, b, u

---------------------------------------------------------------------------
(* What the buckets stand for                                            *)

\* A bucket in a map stands for the last trades of its key, one in a flush for
\* consecutive ones.
UpToLast(b, s) == \E i \in 1..Len(s) : Summarizes(b, SubSeq(s, i, Len(s)))
Between(b, s)  == \E i, j \in 1..Len(s) : i <= j /\ Summarizes(b, SubSeq(s, i, j))

\* The buckets of either table.
SummaryInv ==
  \A t \in Table : /\ \A k \in DOMAIN live[t] : UpToLast(live[t][k], Of(counted, t, k))
                   /\ \A b \in flight[t] : Between(b, Of(counted, t, b.key))

\* What stands for the last trades stands for consecutive ones.
LEMMA LastAreBetween ==
  ASSUME NEW b, NEW s \in Seq(Trade), UpToLast(b, s)
  PROVE  Between(b, s)
<1>1. PICK i \in 1..Len(s) : Summarizes(b, SubSeq(s, i, Len(s)))
  BY DEF UpToLast
<1>2. Len(s) \in 1..Len(s) /\ i <= Len(s)
  OBVIOUS
<1>3. QED  BY <1>1, <1>2 DEF Between

\* One more trade leaves a flushed bucket what it is.
LEMMA BetweenStays ==
  ASSUME NEW b, NEW s \in Seq(Trade), NEW tr \in Trade, Between(b, s)
  PROVE  Between(b, Append(s, tr))
<1>1. PICK i \in 1..Len(s), j \in 1..Len(s) : i <= j /\ Summarizes(b, SubSeq(s, i, j))
  BY DEF Between
<1>2. j \in i..Len(s)
  BY <1>1
<1>3. SubSeq(Append(s, tr), i, j) = SubSeq(s, i, j)
  BY <1>2, PartOfMore
<1>4. i \in 1..Len(Append(s, tr)) /\ j \in 1..Len(Append(s, tr))
  BY AppendIs
<1>5. QED  BY <1>1, <1>3, <1>4 DEF Between

\* One more trade makes a bucket stand for one more.
LEMMA LastGrows ==
  ASSUME NEW b \in Bucket, NEW s \in Seq(Trade), NEW tr \in Trade, UpToLast(b, s)
  PROVE  UpToLast(Added(b, tr), Append(s, tr))
<1>1. PICK i \in 1..Len(s) : Summarizes(b, SubSeq(s, i, Len(s)))
  BY DEF UpToLast
<1>2. Len(s) \in i..Len(s)
  BY <1>1
<1>3. SubSeq(Append(s, tr), i, Len(s) + 1) = Append(SubSeq(s, i, Len(s)), tr)
  BY <1>2, PartOfMore
<1>4. SubSeq(s, i, Len(s)) \in Seq(Trade)
  BY <1>2, Segment
<1>5. Summarizes(Added(b, tr), Append(SubSeq(s, i, Len(s)), tr))
  BY <1>1, <1>4, SummaryMore
<1>6. Len(Append(s, tr)) = Len(s) + 1 /\ i \in 1..Len(Append(s, tr))
  BY AppendIs
<1>7. QED  BY <1>3, <1>5, <1>6 DEF UpToLast

\* The first trade of a new bucket is the last of its key.
LEMMA LastBegins ==
  ASSUME NEW t \in Table, NEW tr \in Trade, NEW s \in Seq(Trade)
  PROVE  UpToLast(Added(NewBucket(t, tr), tr), Append(s, tr))
<1>1. Summarizes(Added(NewBucket(t, tr), tr), SubSeq(Append(s, tr), Len(s) + 1, Len(s) + 1))
  BY PartOfOne, SummaryOne
<1>2. Len(Append(s, tr)) = Len(s) + 1 /\ Len(s) + 1 \in 1..Len(Append(s, tr))
  BY AppendIs
<1>3. QED  BY <1>1, <1>2 DEF UpToLast

\* A trade joins the bucket of its key; the others stay what they are.
LEMMA UpdateSummarizes ==
  ASSUME FlushInv, SummaryInv, Update
  PROVE  SummaryInv'
<1> DEFINE tr == published[hand]
           s == counted
<1>1. /\ hand # 0 /\ flight' = flight
      /\ live' = [t \in Table |-> UpdateBucket(live[t], t, tr)]
      /\ counted' = Append(s, tr)
  BY DEF Update, flusher
<1>2. tr \in Trade /\ s \in Seq(Trade)
  BY <1>1 DEF FlushInv, FlowOK
<1> HIDE DEF tr, s
<1>3. ASSUME NEW t \in Table, NEW k
      PROVE  /\ Of(s, t, k) \in Seq(Trade)
             /\ Of(counted', t, k) = IF Key(t, tr) = k THEN Append(Of(s, t, k), tr) ELSE Of(s, t, k)
  BY <1>1, <1>2, OfMore
<1>4. ASSUME NEW t \in Table, NEW b \in flight[t] PROVE Between(b, Of(counted', t, b.key))
  <2>1. Between(b, Of(s, t, b.key))
    BY DEF SummaryInv, s
  <2>2. CASE Key(t, tr) = b.key
    <3>1. Between(b, Append(Of(s, t, b.key), tr))
      BY <1>2, <1>3, <2>1, BetweenStays
    <3>2. QED  BY <1>3, <2>2, <3>1
  <2>3. CASE Key(t, tr) # b.key
    BY <1>3, <2>1, <2>3
  <2>4. QED  BY <2>2, <2>3
<1>5. ASSUME NEW t \in Table, NEW k \in DOMAIN live'[t] PROVE UpToLast(live'[t][k], Of(counted', t, k))
  <2>1. MapOK(live[t]) /\ \A l \in DOMAIN live[t] : live[t][l] \in Bucket
    BY DEF FlushInv, TablesOK, MapOK
  <2>2. live'[t] = UpdateBucket(live[t], t, tr)
    BY <1>1
  <2>3. \A l \in DOMAIN live[t] : UpToLast(live[t][l], Of(s, t, l))
    BY DEF SummaryInv, s
  <2>4. CASE k = Key(t, tr)
    <3>1. Of(counted', t, k) = Append(Of(s, t, k), tr) /\ Of(s, t, k) \in Seq(Trade)
      BY <1>3, <2>4
    <3>2. live'[t][k] = Added(IF k \in DOMAIN live[t] THEN live[t][k] ELSE NewBucket(t, tr), tr)
      BY <1>2, <2>1, <2>2, <2>4, Updated
    <3>3. CASE k \in DOMAIN live[t]
      <4>1. UpToLast(Added(live[t][k], tr), Append(Of(s, t, k), tr))
        BY <1>2, <2>1, <2>3, <3>1, <3>3, LastGrows
      <4>2. QED  BY <3>1, <3>2, <3>3, <4>1
    <3>4. CASE k \notin DOMAIN live[t]
      <4>1. UpToLast(Added(NewBucket(t, tr), tr), Append(Of(s, t, k), tr))
        BY <1>2, <3>1, LastBegins
      <4>2. QED  BY <3>1, <3>2, <3>4, <4>1
    <3>5. QED  BY <3>3, <3>4
  <2>5. CASE k # Key(t, tr)
    <3>1. k \in DOMAIN live[t] /\ live'[t][k] = live[t][k]
      BY <2>2, <2>5 DEF UpdateBucket
    <3>2. Of(counted', t, k) = Of(s, t, k)
      BY <1>3, <2>5
    <3>3. QED  BY <2>3, <3>1, <3>2
  <2>6. QED  BY <2>4, <2>5
<1>6. QED  BY <1>1, <1>4, <1>5 DEF SummaryInv

\* A tick turns the buckets of the map into those of the flush.
LEMMA TickSummarizes ==
  ASSUME FlushInv, SummaryInv, NEW t \in Table, Tick(t)
  PROVE  SummaryInv'
<1>1. /\ counted' = counted /\ live'[t] = <<>> /\ flight'[t] = Buckets(t)
      /\ \A s \in Table \ {t} : live'[s] = live[s] /\ flight'[s] = flight[s]
  BY DEF Tick, loop, FlushInv, TablesOK
<1>2. ASSUME NEW b \in Buckets(t) PROVE Between(b, Of(counted, t, b.key))
  <2>1. PICK k \in DOMAIN live[t] : b = live[t][k] /\ b.key = k
    BY DEF Buckets, FlushInv, TablesOK, MapOK
  <2>2. UpToLast(b, Of(counted, t, k))
    BY <2>1 DEF SummaryInv
  <2>3. Of(counted, t, k) \in Seq(Trade)
    BY OfTyped DEF FlushInv, FlowOK
  <2>4. QED  BY <2>1, <2>2, <2>3, LastAreBetween
<1>3. DOMAIN live'[t] = {}
  BY <1>1
<1>4. QED  BY <1>1, <1>2, <1>3 DEF SummaryInv

\* Buckets that are swapped out, stored or given up are no longer there.
LEMMA FewerSummarize ==
  ASSUME SummaryInv, counted' = counted,
         \A t \in Table : /\ live'[t] = live[t] \/ live'[t] = <<>>
                          /\ flight'[t] = flight[t] \/ flight'[t] = {}
  PROVE  SummaryInv'
<1>1. DOMAIN <<>> = {}
  OBVIOUS
<1>2. QED  BY <1>1 DEF SummaryInv

\* There is no bucket at first.
LEMMA SummaryStarts == AggregatorInit => SummaryInv
<1> SUFFICES ASSUME AggregatorInit PROVE SummaryInv
  OBVIOUS
<1>1. \A t \in Table : DOMAIN live[t] = {} /\ flight[t] = {}
  BY DEF AggregatorInit
<1>2. QED  BY <1>1 DEF SummaryInv

\* Every step keeps the buckets what they stand for.
LEMMA SummarySteps == FlushInv /\ SummaryInv /\ [AggregatorNext]_aggregatorVars => SummaryInv'
<1> SUFFICES ASSUME FlushInv, SummaryInv, [AggregatorNext]_aggregatorVars PROVE SummaryInv'
  OBVIOUS
<1>1. CASE UNCHANGED <<counted, live, flight>>
  BY <1>1, FewerSummarize
<1>2. CASE Update
  BY <1>2, UpdateSummarizes
<1>3. CASE \E t \in Table : Tick(t)
  BY <1>3, TickSummarizes
<1>4. CASE \E t \in Table : Discard(t)
  <2>1. PICK t \in Table : Discard(t)
    BY <1>4
  <2>2. counted' = counted /\ flight' = flight /\ \A s \in Table : live'[s] = live[s] \/ live'[s] = <<>>
    BY <2>1 DEF Discard, loop, FlushInv, TablesOK
  <2>3. QED  BY <2>2, FewerSummarize
<1>5. CASE \E t \in Table : Send(t) \/ SendFails(t)
  <2>1. PICK t \in Table : Send(t) \/ SendFails(t)
    BY <1>5
  <2>2. counted' = counted /\ live' = live /\ \A s \in Table : flight'[s] = flight[s] \/ flight'[s] = {}
    BY <2>1 DEF Send, SendFails, loop, FlushInv, TablesOK
  <2>3. QED  BY <2>2, FewerSummarize
<1>6. CASE Restart
  <2>1. counted' = counted /\ \A t \in Table : live'[t] = <<>> /\ flight'[t] = {}
    BY <1>6 DEF Restart
  <2>2. QED  BY <2>1, FewerSummarize
<1>7. CASE \/ \E tr \in Trade : TradeHappens(tr)
           \/ InsertTrade \/ MergeRows \/ Fetch \/ UNCHANGED aggregatorVars
  <2>1. UNCHANGED <<counted, live, flight>>
    BY <1>7 DEF TradeHappens, InsertTrade, MergeRows, Fetch, aggregatorVars, loop, flusher
  <2>2. QED  BY <1>1, <2>1
<1>8. QED
  BY <1>2, <1>3, <1>4, <1>5, <1>6, <1>7 DEF AggregatorNext, Loop, Flush

\* A bucket, in a map or in a flush, holds the open, high, low, close, volume and
\* count of consecutive trades of its market and window (updateBucket,
\* ingestion/main.go:633-651), wherever a flush or a restart cut them off.
THEOREM BucketsAreSummaries == AggregatorSpec => []BucketsSummarize
<1>1. AggregatorInit => FlushInv /\ SummaryInv
  BY FlushStarts, SummaryStarts
<1>2. FlushInv /\ SummaryInv /\ [AggregatorNext]_aggregatorVars => (FlushInv /\ SummaryInv)'
  BY FlushSteps, SummarySteps
<1>3. FlushInv /\ SummaryInv => BucketsSummarize
  <2> SUFFICES ASSUME FlushInv, SummaryInv, NEW t \in Table, NEW b \in Buckets(t) \cup flight[t]
               PROVE  LET s == Of(counted, t, b.key)
                      IN \E i, j \in DOMAIN s : i <= j /\ Summarizes(b, SubSeq(s, i, j))
    BY DEF BucketsSummarize
  <2> DEFINE s == Of(counted, t, b.key)
  <2>1. s \in Seq(Trade)
    BY OfTyped DEF FlushInv, FlowOK
  <2>2. Between(b, s)
    <3>1. CASE b \in Buckets(t)
      <4>1. PICK k \in DOMAIN live[t] : b = live[t][k] /\ b.key = k
        BY <3>1 DEF Buckets, FlushInv, TablesOK, MapOK
      <4>2. UpToLast(b, s)
        BY <4>1 DEF SummaryInv
      <4>3. QED  BY <2>1, <4>2, LastAreBetween
    <3>2. CASE b \in flight[t]
      BY <3>2 DEF SummaryInv
    <3>3. QED  BY <3>1, <3>2
  <2> HIDE DEF s
  <2>3. DOMAIN s = 1..Len(s)
    BY <2>1
  <2>4. QED  BY <2>2, <2>3 DEF Between, s
<1>4. QED  BY <1>1, <1>2, <1>3, PTL DEF AggregatorSpec

===========================================================================
