-------------------------- MODULE NormalizerProofs --------------------------
(***************************************************************************)
(* The normalizer keeps its types, loses no committed event, and stores    *)
(* and publishes no trade twice but by an insert that failed after taking  *)
(* effect, for any topics, events, trades per event, attempts and          *)
(* failures.                                                               *)
(*                                                                         *)
(* Types: an event taken up is begun with its first trade, whatever was in *)
(* hand before, and there are no more ambiguous inserts than failures.     *)
(* Events: what the reader has passed is committed, missed or about to be  *)
(* committed; what is flushed is the buffer; and what is inserted directly *)
(* never gets into the buffer.                                             *)
(***************************************************************************)
EXTENDS Normalizer, FiniteSetTheorems, TLAPS

IInv ==
  /\ TypeOK
  /\ step["ws"] \in {"read", "commit"} => part = 1
  /\ ambiguous <= fails

---------------------------------------------------------------------------
(* Items, tables and topics                                                *)

LEMMA PartsType ==
  ASSUME NEW t \in Topic, NEW i \in 0..N[t]
  PROVE  Parts(t, i) \in Nat \ {0}
BY EventAssumption DEF Parts, Topic

LEMMA PartIsItem ==
  ASSUME NEW t \in Topic, NEW i \in 0..N[t], NEW k \in 1..Parts(t, i)
  PROVE  <<t, i, k>> \in Item
<1>1. <<t, i, k>> \in {<<t, i, l>> : l \in 1..Parts(t, i)}
  OBVIOUS
<1>2. <<t, i, k>> \in PartsOf(t)
  BY <1>1 DEF PartsOf
<1>3. QED  BY <1>2 DEF Item

LEMMA PlusType ==
  ASSUME NEW table \in Rows, NEW xs \in Seq(Item)
  PROVE  Plus(table, xs) \in Rows
<1> SUFFICES ASSUME NEW x \in Item
             PROVE  table[x] + Cardinality({i \in DOMAIN xs : xs[i] = x}) \in Nat
  BY DEF Plus, Rows
<1>1. DOMAIN xs = 1..Len(xs) /\ Len(xs) \in Nat
  OBVIOUS
<1>2. IsFiniteSet(1..Len(xs))
  BY <1>1, FS_Interval
<1>3. IsFiniteSet({i \in DOMAIN xs : xs[i] = x})
  BY <1>1, <1>2, FS_Subset
<1>4. Cardinality({i \in DOMAIN xs : xs[i] = x}) \in Nat
  BY <1>3, FS_CardinalityType
<1>5. table[x] \in Nat
  BY DEF Rows
<1>6. QED  BY <1>4, <1>5

LEMMA ElementsType ==
  ASSUME NEW xs \in Seq(Item)
  PROVE  Elements(xs) \subseteq Item
BY DEF Elements

\* What a consumer works on is something to store.
LEMMA CurrentType ==
  ASSUME TypeOK, NEW t \in Topic
  PROVE  Current(t) \in Item /\ <<Current(t)>> \in Seq(Item)
<1>1. hand[t] \in 0..N[t]
  BY DEF TypeOK
<1>2. Parts(t, hand[t]) \in Nat \ {0}
  BY <1>1, PartsType
<1>3. (IF t = "ws" THEN part ELSE 1) \in 1..Parts(t, hand[t])
  BY <1>2 DEF TypeOK
<1>4. Current(t) \in Item
  BY <1>1, <1>3, PartIsItem DEF Current
<1>5. QED  BY <1>4

LEMMA InFlightType ==
  ASSUME TypeOK, NEW t \in Topic
  PROVE  InFlight(t) \subseteq Item
<1>1. hand[t] \in 0..N[t]
  BY DEF TypeOK
<1>2. Parts(t, hand[t]) \in Nat \ {0}
  BY <1>1, PartsType
<1>3. (IF t = "ws" THEN part ELSE 1) \in Nat \ {0}
  BY <1>2 DEF TypeOK
<1>4. \A k \in (IF t = "ws" THEN part ELSE 1)..Parts(t, hand[t]) : k \in 1..Parts(t, hand[t])
  BY <1>2, <1>3
<1>5. QED  BY <1>1, <1>4, PartIsItem DEF InFlight

\* Per-topic offsets stay within their topic when one of them is set.
LEMMA OffsetType ==
  ASSUME NEW f \in [Topic -> Nat], \A u \in Topic : f[u] \in 0..N[u],
         NEW t \in Topic, NEW v \in 0..N[t]
  PROVE  /\ [f EXCEPT ![t] = v] \in [Topic -> Nat]
         /\ \A u \in Topic : [f EXCEPT ![t] = v][u] \in 0..N[u]
<1>1. v \in Nat
  BY EventAssumption
<1>2. QED  BY <1>1

LEMMA NextType ==
  ASSUME NEW f \in [Topic -> Nat], \A u \in Topic : f[u] \in 1..(N[u] + 1),
         NEW t \in Topic, NEW v \in 1..(N[t] + 1)
  PROVE  /\ [f EXCEPT ![t] = v] \in [Topic -> Nat]
         /\ \A u \in Topic : [f EXCEPT ![t] = v][u] \in 1..(N[u] + 1)
<1>1. v \in Nat
  BY EventAssumption
<1>2. QED  BY <1>1

Step == {"read", "commit", "resolve", "publish", "insert", "append"}

\* TypeOK, in the groups that actions change together.
ReadersOK ==
  /\ next \in [Topic -> Nat] /\ \A u \in Topic : next[u] \in 1..(N[u] + 1)
  /\ committed \in [Topic -> Nat] /\ \A u \in Topic : committed[u] \in 0..N[u]
  /\ hand \in [Topic -> Nat] /\ \A u \in Topic : hand[u] \in 0..N[u]
StepsOK ==
  /\ step \in [Topic -> Step]
  /\ step["ws"] \in {"read", "commit"} => part = 1
PartOK    == part \in 1..Parts("ws", hand["ws"])
NamingOK  == mapped \in BOOLEAN /\ marketID \in [1..N["ws"] -> Name]
BuffersOK == buffer \in Seq(Item) /\ batch \in Seq(Item) /\ attempt \in 0..MaxAttempts
TablesOK  == raw \in Rows /\ own \in Rows /\ live \in Rows
FailsOK   == fails \in 0..MaxFailures /\ ambiguous \in 0..MaxFailures /\ ambiguous <= fails
LossesOK  == dropped \subseteq Item /\ missed \subseteq Topic \X Nat

LEMMA Groups ==
  IInv <=> /\ ReadersOK /\ StepsOK /\ PartOK /\ NamingOK
           /\ BuffersOK /\ TablesOK /\ FailsOK /\ LossesOK
BY DEF IInv, TypeOK, ReadersOK, StepsOK, PartOK, NamingOK, BuffersOK, TablesOK, FailsOK,
       LossesOK, Step

LEMMA WsTopic == "ws" \in Topic
BY DEF Topic

LEMMA FailKeeps ==
  ASSUME FailsOK, Fail, ambiguous' = ambiguous
  PROVE  FailsOK'
BY BoundAssumption DEF FailsOK, Fail

---------------------------------------------------------------------------
(* One lemma per action                                                    *)

LEMMA ReadMessageKeeps ==
  ASSUME IInv, NEW t \in Topic, ReadMessage(t)
  PROVE  IInv'
<1>1. ReadersOK /\ StepsOK /\ PartOK
  BY Groups
<1>2. N[t] \in Nat /\ next[t] \in 1..N[t] /\ next[t] + 1 \in 1..(N[t] + 1)
  BY <1>1, EventAssumption DEF ReadersOK, ReadMessage
<1>3. ReadersOK'
  BY <1>1, <1>2, OffsetType, NextType DEF ReadersOK, ReadMessage
<1>4. StepsOK'
  BY <1>1 DEF StepsOK, Step, ReadMessage, GoTo
<1>5. PartOK'
  <2>1. CASE t = "ws"
    <3>1. part' = 1
      BY <1>1, <2>1 DEF StepsOK, ReadMessage
    <3>2. Parts("ws", hand["ws"])' \in Nat \ {0}
      BY <1>3, WsTopic, PartsType DEF ReadersOK
    <3>3. QED  BY <3>1, <3>2 DEF PartOK
  <2>2. CASE t # "ws"
    BY <1>1, <2>2, WsTopic DEF PartOK, ReadersOK, ReadMessage, Parts
  <2>3. QED  BY <2>1, <2>2
<1>6. NamingOK' /\ BuffersOK' /\ TablesOK' /\ FailsOK' /\ LossesOK'
  BY Groups DEF ReadMessage, naming, flush, tables, losses, NamingOK, BuffersOK, TablesOK,
                FailsOK, LossesOK
<1>7. QED  BY <1>3, <1>4, <1>5, <1>6 DEF IInv, TypeOK, ReadersOK, StepsOK, PartOK,
                NamingOK, BuffersOK, TablesOK, FailsOK, LossesOK, Step

\* The groups, put together again after a step.
LEMMA GroupsAfter ==
  ASSUME ReadersOK', StepsOK', PartOK', NamingOK', BuffersOK', TablesOK', FailsOK', LossesOK'
  PROVE  IInv'
BY DEF IInv, TypeOK, ReadersOK, StepsOK, PartOK, NamingOK, BuffersOK, TablesOK, FailsOK,
       LossesOK, Step

LEMMA CommitKeeps ==
  ASSUME IInv, NEW t \in Topic, Commit(t)
  PROVE  IInv'
<1>1. ReadersOK /\ StepsOK /\ PartOK
  BY Groups
<1>2. ReadersOK'
  BY <1>1, OffsetType DEF ReadersOK, Commit
<1>3. FirstStep(t) \in Step
  BY DEF FirstStep, Step, Topic
<1>4. StepsOK' /\ PartOK'
  BY <1>1, <1>3 DEF StepsOK, PartOK, Commit, GoTo
<1>5. NamingOK' /\ BuffersOK' /\ TablesOK' /\ FailsOK' /\ LossesOK'
  BY Groups DEF Commit, naming, flush, tables, losses, NamingOK, BuffersOK, TablesOK,
                FailsOK, LossesOK
<1>6. QED  BY <1>2, <1>4, <1>5, GroupsAfter

LEMMA FetchFailsKeeps ==
  ASSUME IInv, NEW t \in Topic, FetchFails(t)
  PROVE  IInv'
<1>1. ReadersOK /\ StepsOK /\ PartOK
  BY Groups
<1>2. ReadersOK'
  <2>1. N[t] \in Nat /\ 0 \in 0..N[t]
    BY EventAssumption
  <2>2. hand' \in [Topic -> Nat] /\ \A u \in Topic : hand'[u] \in 0..N[u]
    BY <1>1, <2>1, OffsetType DEF ReadersOK, FetchFails
  <2>3. committed' \in [Topic -> Nat] /\ \A u \in Topic : committed'[u] \in 0..N[u]
    BY <1>1, OffsetType DEF ReadersOK, FetchFails
  <2>4. QED  BY <1>1, <2>2, <2>3 DEF ReadersOK, FetchFails
<1>3. FirstStep(t) \in Step /\ "read" \in Step
  BY DEF FirstStep, Step, Topic
<1>4. StepsOK'
  BY <1>1, <1>3 DEF StepsOK, FetchFails, GoTo
<1>5. PartOK'
  <2>1. CASE t = "ws"
    <3>1. part' = 1 /\ hand'["ws"] = 0
      BY <1>1, <2>1, WsTopic DEF StepsOK, ReadersOK, FetchFails
    <3>2. QED  BY <3>1 DEF PartOK, Parts
  <2>2. CASE t # "ws"
    BY <1>1, <2>2, WsTopic DEF PartOK, ReadersOK, FetchFails, Parts
  <2>3. QED  BY <2>1, <2>2
<1>6. LossesOK'
  BY <1>1, Groups DEF LossesOK, ReadersOK, FetchFails
<1>7. FailsOK'
  BY Groups, FailKeeps DEF FetchFails
<1>8. NamingOK' /\ BuffersOK' /\ TablesOK'
  BY Groups DEF FetchFails, naming, flush, tables, NamingOK, BuffersOK, TablesOK
<1>9. QED  BY <1>2, <1>4, <1>5, <1>6, <1>7, <1>8, GroupsAfter

LEMMA MapConditionKeeps ==
  ASSUME IInv, MapCondition
  PROVE  IInv'
BY DEF IInv, TypeOK, MapCondition, readers, flush, tables, losses

LEMMA ResolveKeeps ==
  ASSUME IInv, ResolveMarketID
  PROVE  IInv'
<1>1. ReadersOK' /\ PartOK' /\ BuffersOK' /\ TablesOK' /\ LossesOK'
  BY Groups DEF ResolveMarketID, flush, tables, losses, ReadersOK, PartOK, BuffersOK,
                TablesOK, LossesOK
<1>2. StepsOK'
  BY Groups, WsTopic DEF StepsOK, Step, ResolveMarketID, GoTo
<1>3. NamingOK'
  BY Groups DEF NamingOK, ResolveMarketID
<1>4. FailsOK'
  <2>1. ambiguous' = ambiguous /\ (UNCHANGED fails \/ Fail)
    BY DEF ResolveMarketID, losses
  <2>2. QED  BY <2>1, Groups, FailKeeps DEF FailsOK
<1>5. QED  BY <1>1, <1>2, <1>3, <1>4, GroupsAfter

\* The steps that write one item to a table.
LEMMA PublishKeeps ==
  ASSUME IInv, PublishTrade
  PROVE  IInv'
<1>1. ReadersOK' /\ PartOK' /\ NamingOK' /\ BuffersOK' /\ LossesOK'
  BY Groups DEF PublishTrade, naming, flush, losses, ReadersOK, PartOK, NamingOK, BuffersOK,
                LossesOK
<1>2. StepsOK'
  BY Groups, WsTopic DEF StepsOK, Step, PublishTrade, GoTo
<1>3. TablesOK'
  <2>1. <<Current("ws")>> \in Seq(Item)
    BY WsTopic, CurrentType DEF IInv
  <2>2. Plus(live, <<Current("ws")>>) \in Rows
    BY <2>1, Groups, PlusType DEF TablesOK
  <2>3. QED  BY <2>2, Groups DEF TablesOK, PublishTrade
<1>4. FailsOK'
  <2>1. ambiguous' = ambiguous /\ (UNCHANGED fails \/ Fail)
    BY DEF PublishTrade, losses
  <2>2. QED  BY <2>1, Groups, FailKeeps DEF FailsOK
<1>5. QED  BY <1>1, <1>2, <1>3, <1>4, GroupsAfter

LEMMA InsertTradeKeeps ==
  ASSUME IInv, InsertTrade
  PROVE  IInv'
<1>1. ReadersOK' /\ PartOK' /\ NamingOK' /\ BuffersOK' /\ LossesOK'
  BY Groups DEF InsertTrade, naming, flush, losses, ReadersOK, PartOK, NamingOK, BuffersOK,
                LossesOK
<1>2. StepsOK'
  BY Groups, WsTopic DEF StepsOK, Step, InsertTrade, GoTo
<1>3. TablesOK'
  <2>1. <<Current("ws")>> \in Seq(Item)
    BY WsTopic, CurrentType DEF IInv
  <2>2. Plus(own, <<Current("ws")>>) \in Rows
    BY <2>1, Groups, PlusType DEF TablesOK
  <2>3. QED  BY <2>2, Groups DEF TablesOK, InsertTrade
<1>4. FailsOK'
  <2>1. ambiguous' = ambiguous /\ (UNCHANGED fails \/ Fail)
    BY DEF InsertTrade, losses
  <2>2. QED  BY <2>1, Groups, FailKeeps DEF FailsOK
<1>5. QED  BY <1>1, <1>2, <1>3, <1>4, GroupsAfter

LEMMA InsertDirectKeeps ==
  ASSUME IInv, NEW t \in Topic, InsertDirect(t)
  PROVE  IInv'
<1>1. ReadersOK' /\ PartOK' /\ NamingOK' /\ BuffersOK'
  BY Groups DEF InsertDirect, naming, flush, ReadersOK, PartOK, NamingOK, BuffersOK
<1>2. StepsOK'
  BY Groups, WsTopic, TopicAssumption DEF StepsOK, Step, InsertDirect, GoTo
<1>3. Current(t) \in Item /\ <<Current(t)>> \in Seq(Item)
  BY CurrentType DEF IInv
<1>4. TablesOK'
  <2>1. Plus(own, <<Current(t)>>) \in Rows
    BY <1>3, Groups, PlusType DEF TablesOK
  <2>2. QED  BY <2>1, Groups DEF TablesOK, InsertDirect
<1>5. LossesOK'
  BY <1>3, Groups DEF LossesOK, InsertDirect
<1>6. FailsOK'
  <2>1. ambiguous' = ambiguous /\ (UNCHANGED fails \/ Fail)
    BY DEF InsertDirect
  <2>2. QED  BY <2>1, Groups, FailKeeps DEF FailsOK
<1>7. QED  BY <1>1, <1>2, <1>4, <1>5, <1>6, GroupsAfter

LEMMA AppendKeeps ==
  ASSUME IInv, NEW t \in Topic, AppendEvent(t)
  PROVE  IInv'
<1>1. ReadersOK' /\ NamingOK' /\ TablesOK' /\ FailsOK' /\ LossesOK'
  BY Groups DEF AppendEvent, naming, tables, losses, ReadersOK, NamingOK, TablesOK, FailsOK,
                LossesOK
<1>2. BuffersOK'
  <2>1. Current(t) \in Item
    BY CurrentType DEF IInv
  <2>2. Append(buffer, Current(t)) \in Seq(Item)
    BY <2>1, Groups DEF BuffersOK
  <2>3. QED  BY <2>2, Groups DEF BuffersOK, AppendEvent, flush
<1>3. hand["ws"] \in 0..N["ws"] /\ hand' = hand
  BY Groups, WsTopic DEF ReadersOK, AppendEvent
<1>4. Parts("ws", hand["ws"]) \in Nat \ {0} /\ Parts("ws", hand["ws"])' = Parts("ws", hand["ws"])
  BY <1>3, WsTopic, PartsType DEF Parts
<1>5. PartOK'
  BY <1>4, Groups DEF PartOK, AppendEvent
<1>6. StepsOK'
  BY Groups, WsTopic DEF StepsOK, Step, AppendEvent, GoTo
<1>7. QED  BY <1>1, <1>2, <1>5, <1>6, GroupsAfter

\* The flush and its retries.
LEMMA FlusherKeeps ==
  ASSUME IInv, Flusher
  PROVE  IInv'
<1>1. ReadersOK' /\ StepsOK' /\ PartOK' /\ NamingOK'
  BY Groups DEF Flusher, FlushTick, SendSucceeds, SendFails, readers, naming, ReadersOK,
                StepsOK, PartOK, NamingOK
<1>2. <<>> \in Seq(Item)
  OBVIOUS
<1>3. BuffersOK'
  <2>1. CASE FlushTick
    BY <2>1, Groups, BoundAssumption DEF BuffersOK, FlushTick
  <2>2. CASE SendSucceeds
    BY <1>2, <2>2, Groups, BoundAssumption DEF BuffersOK, SendSucceeds
  <2>3. CASE SendFails
    <3>1. attempt \in 0..MaxAttempts
      BY Groups DEF BuffersOK
    <3>2. attempt' \in 0..MaxAttempts
      BY <2>3, <3>1, BoundAssumption DEF SendFails, LastAttempt
    <3>3. buffer' \in {buffer, <<>>} /\ batch' \in {batch, <<>>}
      BY <2>3 DEF SendFails
    <3>4. QED  BY <1>2, <3>2, <3>3, Groups DEF BuffersOK
  <2>4. QED  BY <2>1, <2>2, <2>3 DEF Flusher
<1>4. TablesOK'
  <2>1. Plus(raw, batch) \in Rows
    BY Groups, PlusType DEF TablesOK, BuffersOK
  <2>2. QED  BY <2>1, Groups DEF TablesOK, Flusher, FlushTick, SendSucceeds, SendFails, tables
<1>5. FailsOK'
  <2>1. CASE FlushTick \/ SendSucceeds
    BY <2>1, Groups DEF FailsOK, FlushTick, SendSucceeds, losses
  <2>2. CASE SendFails
    BY <2>2, Groups, BoundAssumption DEF FailsOK, SendFails, Fail
  <2>3. QED  BY <2>1, <2>2 DEF Flusher
<1>6. LossesOK'
  <2>1. Elements(batch) \subseteq Item
    BY Groups, ElementsType DEF BuffersOK
  <2>2. QED  BY <2>1, Groups DEF LossesOK, Flusher, FlushTick, SendSucceeds, SendFails, losses
<1>7. QED  BY <1>1, <1>3, <1>4, <1>5, <1>6, GroupsAfter

LEMMA RestartKeeps ==
  ASSUME IInv, Restart
  PROVE  IInv'
<1>1. ReadersOK'
  <2>1. \A t \in Topic : N[t] \in Nat
    BY EventAssumption
  <2>2. \A t \in Topic : committed[t] \in 0..N[t]
    BY Groups DEF ReadersOK
  <2>3. \A t \in Topic : next'[t] \in 1..(N[t] + 1) /\ next'[t] \in Nat
    BY <2>1, <2>2 DEF Restart, Resume
  <2>4. \A t \in Topic : hand'[t] \in 0..N[t]
    BY <2>1 DEF Restart
  <2>5. next' \in [Topic -> Nat] /\ hand' \in [Topic -> Nat]
    BY <2>3, <2>4 DEF Restart, Resume
  <2>6. QED  BY <2>3, <2>4, <2>5, Groups DEF ReadersOK, Restart
<1>2. StepsOK' /\ PartOK'
  BY WsTopic DEF StepsOK, PartOK, Step, Restart, Parts
<1>3. BuffersOK'
  <2>1. <<>> \in Seq(Item) /\ 0 \in 0..MaxAttempts
    BY BoundAssumption
  <2>2. QED  BY <2>1 DEF BuffersOK, Restart
<1>4. LossesOK'
  <2>1. Elements(buffer) \subseteq Item
    BY Groups, ElementsType DEF BuffersOK
  <2>2. \A t \in Topic : InFlight(t) \subseteq Item
    BY InFlightType DEF IInv
  <2>3. UNION {InFlight(t) : t \in Topic} \subseteq Item
    BY <2>2
  <2>4. QED  BY <2>1, <2>3, Groups DEF LossesOK, Restart
<1>5. FailsOK'
  BY Groups, FailKeeps DEF Restart
<1>6. NamingOK' /\ TablesOK'
  BY Groups DEF Restart, naming, tables, NamingOK, TablesOK
<1>7. QED  BY <1>1, <1>2, <1>3, <1>4, <1>5, <1>6, GroupsAfter

LEMMA InitHolds ==
  ASSUME Init
  PROVE  IInv
<1>1. ReadersOK
  BY EventAssumption DEF Init, ReadersOK
<1>2. StepsOK /\ PartOK /\ NamingOK
  BY WsTopic DEF Init, StepsOK, PartOK, NamingOK, Step, Parts, Name
<1>3. BuffersOK
  <2>1. <<>> \in Seq(Item) /\ 0 \in 0..MaxAttempts
    BY BoundAssumption
  <2>2. QED  BY <2>1 DEF BuffersOK, Init
<1>4. TablesOK /\ FailsOK /\ LossesOK
  BY BoundAssumption DEF Init, TablesOK, FailsOK, LossesOK, Rows
<1>5. QED  BY <1>1, <1>2, <1>3, <1>4, Groups

LEMMA NextKeeps ==
  ASSUME IInv, [Next]_vars
  PROVE  IInv'
<1>1. ASSUME NEW t \in Topic, Consumer(t) \/ FetchFails(t) PROVE IInv'
  BY <1>1, ReadMessageKeeps, CommitKeeps, FetchFailsKeeps, ResolveKeeps, PublishKeeps,
     InsertTradeKeeps, InsertDirectKeeps, AppendKeeps DEF Consumer, WebsocketStep
<1>2. CASE MapCondition
  BY <1>2, MapConditionKeeps
<1>3. CASE Flusher
  BY <1>3, FlusherKeeps
<1>4. CASE Restart
  BY <1>4, RestartKeeps
<1>5. CASE UNCHANGED vars
  BY <1>5 DEF vars, readers, naming, flush, tables, losses, IInv, TypeOK, Parts
<1>6. QED  BY <1>1, <1>2, <1>3, <1>4, <1>5 DEF Next

\* TypeOK holds in every reachable state of the normalizer, for any topics,
\* events, trades per event, attempts and failures.
THEOREM TypeCorrect == Spec => []TypeOK
<1>1. IInv => TypeOK
  BY DEF IInv
<1>2. QED  BY <1>1, InitHolds, NextKeeps, PTL DEF Spec

---------------------------------------------------------------------------
(* Where an event is                                                       *)

\* What is to store of an event is with its consumer, in the buffer, given up
\* or stored.
Held(t, x) ==
  \/ x \in InFlight(t) \cup Elements(buffer) \cup dropped
  \/ IF t \in Direct THEN own[x] > 0 ELSE raw[x] > 0

\* An event the reader has passed is committed or missed, or about to be
\* committed.
Passed ==
  \A t \in Topic : \A i \in 1..(next[t] - 1) :
    \/ i <= committed[t]
    \/ <<t, i>> \in missed
    \/ step[t] = "commit" /\ i = hand[t]

HandIsLast == \A t \in Topic : step[t] = "commit" => hand[t] = next[t] - 1

BatchIsBuffer == attempt > 0 => batch = buffer

\* Only what goes to events_raw is buffered.
DirectApart ==
  /\ \A t \in Direct : step[t] \in {"read", "commit", "insert"}
  /\ \A i \in 1..Len(buffer) : buffer[i][1] \notin Direct

JInv == Passed /\ HandIsLast /\ BatchIsBuffer /\ DirectApart

LEMMA PlusHas ==
  ASSUME NEW table \in Rows, NEW xs \in Seq(Item), NEW x \in Item
  PROVE  /\ table[x] > 0 => Plus(table, xs)[x] > 0
         /\ x \in Elements(xs) => Plus(table, xs)[x] > 0
<1> DEFINE At == {i \in DOMAIN xs : xs[i] = x}
<1>1. DOMAIN xs = 1..Len(xs) /\ Len(xs) \in Nat
  OBVIOUS
<1>2. IsFiniteSet(At)
  <2>1. IsFiniteSet(1..Len(xs))
    BY <1>1, FS_Interval
  <2>2. QED  BY <1>1, <2>1, FS_Subset
<1>3. Cardinality(At) \in Nat /\ (At # {} => Cardinality(At) # 0)
  BY <1>2, FS_CardinalityType, FS_EmptySet
<1>4. table[x] \in Nat /\ Plus(table, xs)[x] = table[x] + Cardinality(At)
  BY DEF Rows, Plus
<1>5. x \in Elements(xs) => At # {}
  BY DEF Elements
<1> HIDE DEF At
<1>6. QED  BY <1>3, <1>4, <1>5

LEMMA ElementsAppend ==
  ASSUME NEW xs \in Seq(Item), NEW x \in Item
  PROVE  Elements(Append(xs, x)) = Elements(xs) \cup {x}
<1>1. /\ DOMAIN xs = 1..Len(xs) /\ Len(xs) \in Nat
      /\ DOMAIN Append(xs, x) = 1..(Len(xs) + 1)
      /\ Append(xs, x)[Len(xs) + 1] = x
      /\ \A i \in 1..Len(xs) : Append(xs, x)[i] = xs[i]
  OBVIOUS
<1>2. \A i \in 1..(Len(xs) + 1) : i \in 1..Len(xs) \/ i = Len(xs) + 1
  BY <1>1
<1>3. \A i \in 1..Len(xs) : i \in 1..(Len(xs) + 1)
  BY <1>1
<1>4. Len(xs) + 1 \in 1..(Len(xs) + 1)
  BY <1>1
<1>5. QED  BY <1>1, <1>2, <1>3, <1>4 DEF Elements

LEMMA NothingInFlight ==
  ASSUME NEW t, step[t] \in {"read", "commit"}
  PROVE  InFlight(t) = {}
BY DEF InFlight, Working

LEMMA SameInFlight ==
  ASSUME NEW t, Working(t)' = Working(t), hand'[t] = hand[t], t = "ws" => part' = part
  PROVE  InFlight(t)' = InFlight(t)
BY DEF InFlight, Parts

\* An event that is committed has parts to store.
LEMMA CommittedParts ==
  ASSUME IInv, NEW t \in Topic, NEW i \in 1..committed[t], NEW k \in 1..Parts(t, i)
  PROVE  i \in 0..N[t] /\ <<t, i, k>> \in PartsOf(t) /\ <<t, i, k>> \in Item
<1>1. i \in 0..N[t]
  BY EventAssumption DEF IInv, TypeOK
<1>2. <<t, i, k>> \in {<<t, i, l>> : l \in 1..Parts(t, i)}
  OBVIOUS
<1>3. QED  BY <1>1, <1>2, PartIsItem DEF PartsOf

LEMMA PartsAreItems ==
  ASSUME NEW t \in Topic, NEW x \in PartsOf(t)
  PROVE  x \in Item /\ x[1] = t
BY DEF Item, PartsOf

\* What is held stays so, and nothing new is committed.
LEMMA HeldIsAccounted ==
  ASSUME IInv, EventsAccountedFor, committed' = committed, missed' = missed,
         \A t \in Topic : \A x \in PartsOf(t) : Held(t, x) => Held(t, x)'
  PROVE  EventsAccountedFor'
<1> SUFFICES ASSUME NEW t \in Topic, NEW i \in 1..committed[t], NEW k \in 1..Parts(t, i),
                    <<t, i>> \notin missed
             PROVE  Held(t, <<t, i, k>>)'
  BY DEF EventsAccountedFor, Held, Parts
<1>1. Held(t, <<t, i, k>>)
  BY DEF EventsAccountedFor, Held
<1>2. QED  BY <1>1, CommittedParts

---------------------------------------------------------------------------
(* One lemma per action                                                    *)

\* The steps of a consumer that leave the offsets and the buffer alone.
LEMMA OffsetsFrame ==
  ASSUME IInv, JInv, UNCHANGED <<next, committed, hand, buffer, flush, missed>>,
         NEW t \in Topic, NEW s, step' = [step EXCEPT ![t] = s],
         step[t] # "commit", s # "commit",
         t \in Direct => s \in {"read", "commit", "insert"}
  PROVE  JInv'
<1>1. step \in [Topic -> Step]
  BY DEF IInv, TypeOK, Step
<1>2. Passed' /\ HandIsLast'
  BY <1>1 DEF JInv, Passed, HandIsLast
<1>3. BatchIsBuffer' /\ DirectApart'
  BY <1>1 DEF JInv, BatchIsBuffer, DirectApart, flush, Topic
<1>4. QED  BY <1>2, <1>3 DEF JInv

LEMMA ReadMessageAccounts ==
  ASSUME IInv, JInv, EventsAccountedFor, NEW t \in Topic, ReadMessage(t)
  PROVE  JInv' /\ EventsAccountedFor'
<1>1. /\ step \in [Topic -> Step] /\ next \in [Topic -> Nat] /\ hand \in [Topic -> Nat]
      /\ committed \in [Topic -> Nat]
  BY DEF IInv, TypeOK, Step
<1>2. Passed' /\ HandIsLast'
  BY <1>1 DEF JInv, Passed, HandIsLast, ReadMessage, GoTo, losses
<1>3. BatchIsBuffer' /\ DirectApart'
  BY <1>1 DEF JInv, BatchIsBuffer, DirectApart, ReadMessage, GoTo, flush, Topic
<1>4. \A u \in Topic : InFlight(u)' = InFlight(u)
  BY <1>1, SameInFlight, NothingInFlight DEF ReadMessage, GoTo, InFlight, Working, Parts
<1>5. \A u \in Topic : \A x \in PartsOf(u) : Held(u, x) => Held(u, x)'
  BY <1>4 DEF Held, ReadMessage, tables, losses
<1>6. EventsAccountedFor'
  BY <1>5, HeldIsAccounted DEF ReadMessage, losses
<1>7. QED  BY <1>2, <1>3, <1>6 DEF JInv

LEMMA CommitAccounts ==
  ASSUME IInv, JInv, EventsAccountedFor, NEW t \in Topic, Commit(t)
  PROVE  JInv' /\ EventsAccountedFor'
<1>1. /\ step \in [Topic -> Step] /\ next \in [Topic -> Nat] /\ hand \in [Topic -> Nat]
      /\ committed \in [Topic -> Nat] /\ hand[t] = next[t] - 1
  BY DEF IInv, TypeOK, Step, JInv, HandIsLast, Commit
<1>2. FirstStep(t) # "commit" /\ (t \in Direct => FirstStep(t) = "insert")
  BY TopicAssumption DEF FirstStep, Topic
<1>3. Passed' /\ HandIsLast'
  BY <1>1, <1>2 DEF JInv, Passed, HandIsLast, Commit, GoTo, losses
<1>4. BatchIsBuffer' /\ DirectApart'
  BY <1>1, <1>2 DEF JInv, BatchIsBuffer, DirectApart, Commit, GoTo, flush, Topic
<1>5. \A u \in Topic : InFlight(u) \subseteq InFlight(u)'
  <2>1. InFlight(t) = {}
    BY NothingInFlight DEF Commit
  <2>2. \A u \in Topic \ {t} : InFlight(u)' = InFlight(u)
    BY <1>1, SameInFlight DEF Commit, GoTo, Working
  <2>3. QED  BY <2>1, <2>2
<1>6. \A u \in Topic : \A x \in PartsOf(u) : Held(u, x) => Held(u, x)'
  BY <1>5 DEF Held, Commit, tables, losses
<1>7. ASSUME NEW u \in Topic, NEW i \in 1..committed'[u], NEW k \in 1..Parts(u, i),
             <<u, i>> \notin missed
      PROVE  Held(u, <<u, i, k>>)'
  <2>1. CASE i \in 1..committed[u]
    BY <1>6, <1>7, <2>1, CommittedParts DEF EventsAccountedFor, Held
  <2>2. CASE i \notin 1..committed[u]
    <3>1. u = t /\ i = hand[t]
      BY <1>1, <1>7, <2>2 DEF Commit, JInv, Passed
    <3>2. Working(t)' /\ hand' = hand /\ part' = part
      BY <1>1, TopicAssumption DEF Commit, GoTo, Working, FirstStep, Topic
    <3>3. t = "ws" => part = 1
      BY DEF IInv, Commit
    <3>4. <<u, i, k>> \in InFlight(t)'
      BY <3>1, <3>2, <3>3 DEF InFlight, Parts
    <3>5. QED  BY <3>1, <3>4 DEF Held
  <2>3. QED  BY <2>1, <2>2
<1>8. EventsAccountedFor'
  BY <1>7 DEF EventsAccountedFor, Held, Commit, losses, Parts
<1>9. QED  BY <1>3, <1>4, <1>8 DEF JInv

LEMMA FetchFailsAccounts ==
  ASSUME IInv, JInv, EventsAccountedFor, NEW t \in Topic, FetchFails(t)
  PROVE  JInv' /\ EventsAccountedFor'
<1>1. /\ step \in [Topic -> Step] /\ next \in [Topic -> Nat] /\ hand \in [Topic -> Nat]
      /\ committed \in [Topic -> Nat] /\ hand[t] = next[t] - 1
  BY DEF IInv, TypeOK, Step, JInv, HandIsLast, FetchFails
<1>2. PICK s : /\ step' = [step EXCEPT ![t] = s]
               /\ s # "commit" /\ (t \in Direct => s = "insert")
  <2>1. CASE t = "ws"
    BY <2>1, TopicAssumption DEF FetchFails, GoTo
  <2>2. CASE t # "ws"
    <3>1. FirstStep(t) # "commit" /\ (t \in Direct => FirstStep(t) = "insert")
      BY <2>2, TopicAssumption DEF FirstStep, Topic
    <3>2. QED  BY <2>2, <3>1 DEF FetchFails, GoTo
  <2>3. QED  BY <2>1, <2>2
<1>3. \A u \in Topic : \A i \in 1..(next[u] - 1) : i <= committed[u] => i <= committed'[u]
  BY <1>1 DEF FetchFails
<1>4. Passed' /\ HandIsLast'
  BY <1>1, <1>2, <1>3 DEF JInv, Passed, HandIsLast, FetchFails
<1>5. BatchIsBuffer' /\ DirectApart'
  BY <1>1, <1>2 DEF JInv, BatchIsBuffer, DirectApart, FetchFails, flush, Topic
<1>6. \A u \in Topic : InFlight(u) \subseteq InFlight(u)'
  <2>1. InFlight(t) = {}
    BY NothingInFlight DEF FetchFails
  <2>2. \A u \in Topic \ {t} : InFlight(u)' = InFlight(u)
    BY <1>1, <1>2, SameInFlight DEF FetchFails, Working
  <2>3. QED  BY <2>1, <2>2
<1>7. \A u \in Topic : \A x \in PartsOf(u) : Held(u, x) => Held(u, x)'
  BY <1>6 DEF Held, FetchFails, tables
<1>8. ASSUME NEW u \in Topic, NEW i \in 1..committed'[u], NEW k \in 1..Parts(u, i),
             <<u, i>> \notin missed'
      PROVE  Held(u, <<u, i, k>>)'
  <2>1. i \in 1..committed[u] /\ <<u, i>> \notin missed
    BY <1>1, <1>8 DEF FetchFails, JInv, Passed
  <2>2. QED  BY <1>7, <2>1, CommittedParts DEF EventsAccountedFor, Held
<1>9. EventsAccountedFor'
  BY <1>8 DEF EventsAccountedFor, Held, Parts
<1>10. QED  BY <1>4, <1>5, <1>9 DEF JInv

\* Resolution, publication and the insert into trades.
LEMMA WebsocketStepAccounts ==
  ASSUME IInv, JInv, EventsAccountedFor, WebsocketStep
  PROVE  JInv' /\ EventsAccountedFor'
<1>1. step \in [Topic -> Step] /\ "ws" \in Topic /\ "ws" \notin Direct
  BY WsTopic, TopicAssumption DEF IInv, TypeOK, Step
<1>2. /\ UNCHANGED <<next, committed, hand, part, buffer, flush, missed, dropped, raw>>
      /\ own' = own \/ own' = Plus(own, <<Current("ws")>>)
      /\ step["ws"] \in {"resolve", "publish", "insert"}
  BY DEF WebsocketStep, ResolveMarketID, PublishTrade, InsertTrade, losses, tables
<1>3. PICK s \in {"publish", "insert", "append"} : step' = [step EXCEPT !["ws"] = s]
  BY DEF WebsocketStep, ResolveMarketID, PublishTrade, InsertTrade, GoTo
<1>4. JInv'
  BY <1>1, <1>2, <1>3, OffsetsFrame
<1>5. \A u \in Topic : InFlight(u)' = InFlight(u)
  BY <1>1, <1>2, <1>3, SameInFlight DEF Working
<1>6. \A x \in Item : own[x] > 0 => own'[x] > 0
  <2>1. <<Current("ws")>> \in Seq(Item) /\ own \in Rows
    BY <1>1, CurrentType DEF IInv, TypeOK
  <2>2. QED  BY <1>2, <2>1, PlusHas
<1>7. \A u \in Topic : \A x \in PartsOf(u) : Held(u, x) => Held(u, x)'
  BY <1>2, <1>5, <1>6, PartsAreItems DEF Held
<1>8. EventsAccountedFor'
  BY <1>2, <1>7, HeldIsAccounted
<1>9. QED  BY <1>4, <1>8

LEMMA InsertDirectAccounts ==
  ASSUME IInv, JInv, EventsAccountedFor, NEW t \in Topic, InsertDirect(t)
  PROVE  JInv' /\ EventsAccountedFor'
<1>1. step \in [Topic -> Step] /\ t \in Direct /\ t # "ws" /\ step[t] = "insert"
  BY TopicAssumption DEF IInv, TypeOK, Step, InsertDirect
<1>2. /\ UNCHANGED <<next, committed, hand, part, buffer, flush, missed, raw>>
      /\ step' = [step EXCEPT ![t] = "read"]
      /\ dropped \subseteq dropped'
  BY DEF InsertDirect, GoTo
<1>3. JInv'
  BY <1>1, <1>2, OffsetsFrame
<1>4. \A u \in Topic \ {t} : InFlight(u)' = InFlight(u)
  BY <1>1, <1>2, SameInFlight DEF Working
<1>5. InFlight(t) = {Current(t)}
  BY <1>1 DEF InFlight, Working, Current, Parts
<1>6. /\ \A x \in Item : own[x] > 0 => own'[x] > 0
      /\ Current(t) \in dropped' \/ own'[Current(t)] > 0
  <2>1. <<Current(t)>> \in Seq(Item) /\ Current(t) \in Item /\ own \in Rows
    BY CurrentType DEF IInv, TypeOK
  <2>2. Current(t) \in Elements(<<Current(t)>>)
    BY DEF Elements
  <2>3. \/ own' = own /\ Current(t) \in dropped'
        \/ own' = Plus(own, <<Current(t)>>)
    BY DEF InsertDirect
  <2>4. QED  BY <2>1, <2>2, <2>3, PlusHas
<1>7. \A u \in Topic : \A x \in PartsOf(u) : Held(u, x) => Held(u, x)'
  BY <1>1, <1>2, <1>4, <1>5, <1>6, PartsAreItems DEF Held
<1>8. EventsAccountedFor'
  BY <1>2, <1>7, HeldIsAccounted
<1>9. QED  BY <1>3, <1>8

LEMMA AppendAccounts ==
  ASSUME IInv, JInv, EventsAccountedFor, NEW t \in Topic, AppendEvent(t)
  PROVE  JInv' /\ EventsAccountedFor'
<1>1. /\ step \in [Topic -> Step] /\ step[t] = "append" /\ t \notin Direct
      /\ buffer \in Seq(Item) /\ Current(t) \in Item
      /\ buffer' = Append(buffer, Current(t))
  BY CurrentType DEF IInv, TypeOK, Step, AppendEvent, JInv, DirectApart
<1>2. PICK s \in {"publish", "read"} : step' = [step EXCEPT ![t] = s]
  BY DEF AppendEvent, GoTo
<1>3. UNCHANGED <<next, committed, hand, batch, attempt, raw, own, dropped, missed>>
  BY DEF AppendEvent, flush, tables, losses
<1>4. Passed' /\ HandIsLast'
  BY <1>1, <1>2, <1>3 DEF JInv, Passed, HandIsLast
<1>5. BatchIsBuffer'
  BY <1>3 DEF BatchIsBuffer, AppendEvent, MutexFree
<1>6. DirectApart'
  <2>1. Current(t)[1] = t
    BY DEF Current
  <2>2. \A i \in 1..Len(buffer') :
          (i \in 1..Len(buffer) /\ buffer'[i] = buffer[i]) \/ buffer'[i] = Current(t)
    BY <1>1
  <2>3. QED  BY <1>1, <1>2, <2>1, <2>2 DEF JInv, DirectApart, Topic
<1>7. \A u \in Topic \ {t} : InFlight(u)' = InFlight(u)
  BY <1>1, <1>2, <1>3, SameInFlight DEF Working, AppendEvent
<1>8. InFlight(t) \subseteq InFlight(t)' \cup {Current(t)}
  <2>1. part \in 1..Parts("ws", hand["ws"]) /\ Parts("ws", hand["ws"]) \in Nat
    BY WsTopic, PartsType DEF IInv, TypeOK
  <2>2. CASE t = "ws" /\ part < Parts(t, hand[t])
    <3>1. part' = part + 1 /\ Working(t)' /\ hand' = hand
      BY <1>1, <1>3, <2>2 DEF AppendEvent, GoTo, Working
    <3>2. QED  BY <1>1, <2>1, <2>2, <3>1 DEF InFlight, Working, Current, Parts
  <2>3. CASE t = "ws" /\ ~(part < Parts(t, hand[t]))
    BY <2>1, <2>3 DEF InFlight, Current
  <2>4. CASE t # "ws"
    BY <2>4 DEF InFlight, Current, Parts
  <2>5. QED  BY <2>2, <2>3, <2>4
<1>9. Elements(buffer') = Elements(buffer) \cup {Current(t)}
  BY <1>1, ElementsAppend
<1>10. \A u \in Topic : \A x \in PartsOf(u) : Held(u, x) => Held(u, x)'
  BY <1>3, <1>7, <1>8, <1>9 DEF Held, Elements
<1>11. EventsAccountedFor'
  BY <1>3, <1>10, HeldIsAccounted
<1>12. QED  BY <1>4, <1>5, <1>6, <1>11 DEF JInv

LEMMA MapConditionAccounts ==
  ASSUME IInv, JInv, EventsAccountedFor, MapCondition
  PROVE  JInv' /\ EventsAccountedFor'
BY DEF MapCondition, readers, flush, tables, losses, JInv, Passed, HandIsLast, BatchIsBuffer,
       DirectApart, EventsAccountedFor, InFlight, Working, Elements, Parts

LEMMA FlusherAccounts ==
  ASSUME IInv, JInv, EventsAccountedFor, Flusher
  PROVE  JInv' /\ EventsAccountedFor'
<1>1. UNCHANGED <<next, committed, hand, step, part, own, missed>>
  BY DEF Flusher, FlushTick, SendSucceeds, SendFails, readers, losses, tables
<1>2. /\ dropped \subseteq dropped'
      /\ raw' \in {raw, Plus(raw, batch)}
      /\ \/ buffer' = buffer
         \/ buffer' = <<>> /\ Elements(batch) \subseteq dropped'
         \/ buffer' = <<>> /\ raw' = Plus(raw, batch)
      /\ buffer' # buffer => attempt > 0
      /\ attempt' > 0 => batch' = buffer'
  <2>1. CASE FlushTick
    BY <2>1 DEF FlushTick, losses, tables
  <2>2. CASE SendSucceeds
    BY <2>2 DEF SendSucceeds, losses
  <2>3. CASE SendFails
    BY <2>3 DEF SendFails, tables, JInv, BatchIsBuffer
  <2>4. QED  BY <2>1, <2>2, <2>3 DEF Flusher
<1>3. Passed' /\ HandIsLast' /\ BatchIsBuffer'
  BY <1>1, <1>2 DEF JInv, Passed, HandIsLast, BatchIsBuffer
<1>4. DirectApart'
  BY <1>1, <1>2 DEF JInv, DirectApart
<1>5. buffer' # buffer => batch = buffer
  BY <1>2 DEF JInv, BatchIsBuffer
<1>6. batch \in Seq(Item) /\ raw \in Rows
  BY DEF IInv, TypeOK
<1>7. /\ \A x \in Item : raw[x] > 0 => raw'[x] > 0
      /\ \A x \in Item : raw' = Plus(raw, batch) /\ x \in Elements(batch) => raw'[x] > 0
  BY <1>2, <1>6, PlusHas
<1>8. \A x \in Elements(buffer) : x[1] \notin Direct
  BY DEF JInv, DirectApart, Elements, IInv, TypeOK
<1>9. \A u \in Topic : InFlight(u)' = InFlight(u)
  BY <1>1 DEF InFlight, Working, Parts
<1>10. ASSUME NEW u \in Topic, NEW x \in PartsOf(u), Held(u, x)
       PROVE  Held(u, x)'
  <2>1. x \in Item /\ x[1] = u
    BY PartsAreItems
  <2>2. CASE x \in Elements(buffer)
    <3>1. CASE buffer' = buffer
      BY <2>2, <3>1 DEF Held, Elements
    <3>2. CASE buffer' # buffer
      <4>1. x \in Elements(batch) /\ u \notin Direct
        BY <1>5, <1>8, <2>1, <2>2, <3>2
      <4>2. QED  BY <1>2, <1>7, <2>1, <3>2, <4>1 DEF Held
    <3>3. QED  BY <3>1, <3>2
  <2>3. CASE x \notin Elements(buffer)
    BY <1>1, <1>2, <1>7, <1>9, <1>10, <2>1, <2>3 DEF Held
  <2>4. QED  BY <2>2, <2>3
<1>11. EventsAccountedFor'
  BY <1>1, <1>10, HeldIsAccounted
<1>12. QED  BY <1>3, <1>4, <1>11 DEF JInv

LEMMA RestartAccounts ==
  ASSUME IInv, JInv, EventsAccountedFor, Restart
  PROVE  JInv' /\ EventsAccountedFor'
<1>1. committed \in [Topic -> Nat]
  BY DEF IInv, TypeOK
<1>2. Passed' /\ HandIsLast'
  BY <1>1 DEF Passed, HandIsLast, Restart, Resume
<1>3. BatchIsBuffer' /\ DirectApart'
  BY DEF BatchIsBuffer, DirectApart, Restart, Topic
<1>4. /\ dropped \cup Elements(buffer) \subseteq dropped'
      /\ \A u \in Topic : InFlight(u) \subseteq dropped'
  BY DEF Restart
<1>5. \A u \in Topic : \A x \in PartsOf(u) : Held(u, x) => Held(u, x)'
  BY <1>4 DEF Held, Restart, tables
<1>6. EventsAccountedFor'
  BY <1>5, HeldIsAccounted DEF Restart
<1>7. QED  BY <1>2, <1>3, <1>6 DEF JInv

---------------------------------------------------------------------------

\* The offsets, the batch and the buffer fit together, and with them no event
\* is lost.
LEMMA OffsetsAreKept == Spec => [](IInv /\ JInv /\ EventsAccountedFor)
<1>1. Init => JInv /\ EventsAccountedFor
  <2> SUFFICES ASSUME Init PROVE JInv /\ EventsAccountedFor
    OBVIOUS
  <2>1. Passed /\ HandIsLast
    BY DEF Init, Passed, HandIsLast
  <2>2. BatchIsBuffer /\ DirectApart
    BY DEF Init, BatchIsBuffer, DirectApart, Topic
  <2>3. EventsAccountedFor
    BY DEF Init, EventsAccountedFor
  <2>4. QED  BY <2>1, <2>2, <2>3 DEF JInv
<1>2. IInv /\ JInv /\ EventsAccountedFor /\ [Next]_vars => JInv' /\ EventsAccountedFor'
  <2> SUFFICES ASSUME IInv, JInv, EventsAccountedFor, [Next]_vars
               PROVE  JInv' /\ EventsAccountedFor'
    OBVIOUS
  <2>1. ASSUME NEW t \in Topic, Consumer(t) \/ FetchFails(t)
        PROVE  JInv' /\ EventsAccountedFor'
    BY <2>1, ReadMessageAccounts, CommitAccounts, FetchFailsAccounts, WebsocketStepAccounts,
       InsertDirectAccounts, AppendAccounts DEF Consumer
  <2>2. CASE MapCondition
    BY <2>2, MapConditionAccounts
  <2>3. CASE Flusher
    BY <2>3, FlusherAccounts
  <2>4. CASE Restart
    BY <2>4, RestartAccounts
  <2>5. CASE UNCHANGED vars
    BY <2>5 DEF vars, readers, naming, flush, tables, losses, JInv, Passed, HandIsLast,
       BatchIsBuffer, DirectApart, EventsAccountedFor, InFlight, Working, Elements, Parts
  <2>6. QED  BY <2>1, <2>2, <2>3, <2>4, <2>5 DEF Next
<1>3. QED  BY <1>1, <1>2, InitHolds, NextKeeps, PTL DEF Spec

\* EventsAccountedFor holds in every reachable state: whatever the consumers,
\* the flush, failing calls and restarts do in whatever order, no committed
\* event is lost but those of a failed commit, a given-up batch or insert, or a
\* restart; for any topics, events, trades per event, attempts and failures.
THEOREM NothingIsLost == Spec => []EventsAccountedFor
BY OffsetsAreKept, PTL

---------------------------------------------------------------------------
(* How often an event is stored                                            *)

\* A trade that is still to be appended: the group has not committed its event,
\* or the consumer has not come to it; one still to be inserted into the table
\* of its topic; one still to be published.
Unappended(x) == x[2] > committed[x[1]] \/ x \in InFlight(x[1])
Uninserted(x) == Unappended(x) /\ ~(step[x[1]] = "append" /\ x = Current(x[1]))
Unpublished(x) == Uninserted(x) /\ ~(step[x[1]] = "insert" /\ x = Current(x[1]))

\* x is at most once in s.
Once(s, x) == \A i, j \in DOMAIN s : s[i] = x /\ s[j] = x => i = j

\* The offset is behind an event until the event is committed, and ahead of it
\* before anything is done with it: a restart reads neither again.
CommitFirst ==
  \A t \in Topic :
    /\ committed[t] < next[t]
    /\ step[t] = "commit" => committed[t] < hand[t]
    /\ Working(t) => hand[t] <= committed[t]

\* What is stored of x; DuplicatesExplained is the first line.  Of what is in
\* the buffer, only ambiguous inserts have stored anything.
StoredOnce(x) ==
  /\ raw[x] <= 1 + ambiguous /\ own[x] <= 1 /\ live[x] <= 1
  /\ x \in Elements(buffer) => raw[x] <= ambiguous /\ Once(buffer, x)
  /\ Unappended(x)  => raw[x] = 0 /\ x \notin Elements(buffer)
  /\ Uninserted(x)  => own[x] = 0
  /\ Unpublished(x) => live[x] = 0

Event == {x \in Item : x[2] > 0}

OnceInv == CommitFirst /\ \A x \in Event : StoredOnce(x)

\* A step after which nothing is to be done with x that was not before.
NoneAgain(x) ==
  /\ Unappended(x)' => Unappended(x)
  /\ Uninserted(x)' => Uninserted(x)
  /\ Unpublished(x)' => Unpublished(x)

LEMMA EventType ==
  ASSUME IInv, NEW x \in Event
  PROVE  /\ x \in Item /\ x[1] \in Topic /\ x[2] \in Nat \ {0}
         /\ raw[x] \in Nat /\ own[x] \in Nat /\ live[x] \in Nat /\ ambiguous \in Nat
<1>1. x \in Item
  BY DEF Event
<1>2. PICK t \in Topic : x \in PartsOf(t)
  BY <1>1 DEF Item
<1>3. PICK i \in 0..N[t] : \E k \in 1..Parts(t, i) : x = <<t, i, k>>
  BY <1>2 DEF PartsOf
<1>4. x[1] = t /\ x[2] = i
  BY <1>3
<1>5. x[2] \in Nat \ {0}
  BY <1>3, <1>4, EventAssumption DEF Event
<1>6. raw[x] \in Nat /\ own[x] \in Nat /\ live[x] \in Nat /\ ambiguous \in Nat
  BY <1>1, BoundAssumption DEF IInv, TypeOK, Rows
<1>7. QED  BY <1>1, <1>4, <1>5, <1>6

\* A table with one row more.
LEMMA PlusOne ==
  ASSUME NEW table \in Rows, NEW x \in Item, NEW y \in Item
  PROVE  Plus(table, <<x>>)[y] = IF y = x THEN table[y] + 1 ELSE table[y]
<1>1. DOMAIN <<x>> = {1} /\ <<x>>[1] = x
  OBVIOUS
<1>2. {i \in DOMAIN <<x>> : <<x>>[i] = y} = IF y = x THEN {1} ELSE {}
  BY <1>1
<1>3. Cardinality({1}) = 1 /\ Cardinality({}) = 0
  BY FS_Singleton, FS_EmptySet
<1>4. Plus(table, <<x>>)[y] = table[y] + Cardinality({i \in DOMAIN <<x>> : <<x>>[i] = y})
  BY DEF Plus
<1>5. table[y] \in Nat
  BY DEF Rows
<1>6. QED  BY <1>2, <1>3, <1>4, <1>5

\* A table with the rows of a batch more: one of x if x is there once.
LEMMA PlusBatch ==
  ASSUME NEW table \in Rows, NEW xs \in Seq(Item), NEW x \in Item
  PROVE  /\ x \notin Elements(xs) => Plus(table, xs)[x] = table[x]
         /\ Once(xs, x) => Plus(table, xs)[x] <= table[x] + 1
<1> DEFINE At == {i \in DOMAIN xs : xs[i] = x}
<1>1. Plus(table, xs)[x] = table[x] + Cardinality(At) /\ table[x] \in Nat
  BY DEF Plus, Rows
<1>2. x \notin Elements(xs) => At = {}
  BY DEF Elements
<1>3. Once(xs, x) => At = {} \/ \E i : At = {i}
  BY DEF Once
<1>4. Cardinality({}) = 0 /\ \A i : Cardinality({i}) = 1
  BY FS_Singleton, FS_EmptySet
<1> HIDE DEF At
<1>5. ASSUME x \notin Elements(xs)
      PROVE  Plus(table, xs)[x] = table[x]
  <2>1. Cardinality(At) = 0
    BY Zenon, <1>2, <1>4, <1>5
  <2>2. QED  BY <1>1, <2>1
<1>6. ASSUME Once(xs, x)
      PROVE  Plus(table, xs)[x] <= table[x] + 1
  <2>1. Cardinality(At) = 0 \/ Cardinality(At) = 1
    BY Zenon, <1>3, <1>4, <1>6
  <2>2. QED  BY <1>1, <2>1
<1>7. QED  BY <1>5, <1>6

LEMMA SamePlace ==
  ASSUME NEW x, committed'[x[1]] = committed[x[1]], hand'[x[1]] = hand[x[1]],
         step'[x[1]] = step[x[1]], x[1] = "ws" => part' = part
  PROVE  NoneAgain(x)
<1>1. InFlight(x[1])' = InFlight(x[1])
  BY SameInFlight DEF Working
<1>2. Current(x[1])' = Current(x[1])
  BY DEF Current
<1>3. QED  BY <1>1, <1>2 DEF NoneAgain, Unappended, Uninserted, Unpublished

\* A step that stores nothing of x and gives nothing of it back.
LEMMA StoresNothing ==
  ASSUME NEW x, StoredOnce(x), NoneAgain(x), UNCHANGED <<buffer, ambiguous>>,
         raw'[x] = raw[x], own'[x] = own[x], live'[x] = live[x]
  PROVE  StoredOnce(x)'
BY DEF StoredOnce, NoneAgain, Elements, Once

\* What a consumer is working on is of the event in its hand.
LEMMA InFlightHand ==
  ASSUME NEW t, NEW x \in InFlight(t)
  PROVE  Working(t) /\ x[1] = t /\ x[2] = hand[t]
BY DEF InFlight

\* Nothing was done with an event that is not committed.
LEMMA Uncommitted ==
  ASSUME IInv, CommitFirst, NEW x \in Event, x[2] > committed[x[1]]
  PROVE  Unappended(x) /\ Uninserted(x) /\ Unpublished(x)
<1> DEFINE t == x[1]
<1>1. t \in Topic /\ x[2] \in Nat /\ hand[t] \in Nat /\ committed[t] \in Nat
  BY EventType DEF IInv, TypeOK
<1>2. step[t] \in {"append", "insert"} => Working(t)
  BY DEF Working
<1>3. Working(t) => x[2] # hand[t]
  BY <1>1 DEF CommitFirst
<1>4. Current(t)[2] = hand[t]
  BY DEF Current
<1>5. QED  BY <1>2, <1>3, <1>4 DEF Unappended, Uninserted, Unpublished

\* A step after which x is uncommitted, or its place is as before, or nothing
\* is to be done with it.
LEMMA LeavesUncommitted ==
  ASSUME IInv, CommitFirst, NEW x \in Event, Unappended(x)' => x[2] > committed[x[1]]
  PROVE  NoneAgain(x)
BY Uncommitted DEF NoneAgain, Uninserted, Unpublished

LEMMA ReadMessageOnce ==
  ASSUME IInv, JInv, OnceInv, NEW t \in Topic, ReadMessage(t)
  PROVE  OnceInv'
<1>1. /\ step \in [Topic -> Step] /\ next \in [Topic -> Nat] /\ hand \in [Topic -> Nat]
      /\ committed \in [Topic -> Nat]
  BY DEF IInv, TypeOK, Step
<1>2. CommitFirst'
  BY <1>1 DEF OnceInv, CommitFirst, ReadMessage, GoTo, Working
<1>3. ASSUME NEW x \in Event
      PROVE  StoredOnce(x)'
  <2>1. CASE x[1] = t
    <3>1. InFlight(t)' = {}
      BY <1>1 DEF ReadMessage, GoTo, InFlight, Working
    <3>2. Unappended(x)' => x[2] > committed[t]
      BY <2>1, <3>1 DEF Unappended, ReadMessage
    <3>3. QED
      BY <2>1, <3>2, LeavesUncommitted, StoresNothing DEF OnceInv, ReadMessage, tables, losses
  <2>2. CASE x[1] # t
    <3>1. NoneAgain(x)
      BY <1>1, <2>2, SamePlace, EventType DEF ReadMessage, GoTo
    <3>2. QED  BY <3>1, StoresNothing DEF OnceInv, ReadMessage, tables, losses
  <2>3. QED  BY <2>1, <2>2
<1>4. QED  BY <1>2, <1>3 DEF OnceInv, Event

LEMMA CommitOnce ==
  ASSUME IInv, JInv, OnceInv, NEW t \in Topic, Commit(t)
  PROVE  OnceInv'
<1>1. /\ step \in [Topic -> Step] /\ next \in [Topic -> Nat] /\ hand \in [Topic -> Nat]
      /\ committed \in [Topic -> Nat] /\ hand[t] = next[t] - 1 /\ committed[t] < hand[t]
  BY DEF IInv, TypeOK, Step, JInv, HandIsLast, OnceInv, CommitFirst, Commit
<1>2. FirstStep(t) # "commit"
  BY DEF FirstStep, Topic
<1>3. CommitFirst'
  BY <1>1, <1>2 DEF OnceInv, CommitFirst, Commit, GoTo, Working
<1>4. ASSUME NEW x \in Event
      PROVE  StoredOnce(x)'
  <2>1. CASE x[1] = t
    <3>1. \A y \in InFlight(t)' : y[2] = hand[t]
      BY <1>1 DEF Commit, InFlight
    <3>2. Unappended(x)' => x[2] > hand[t] \/ x[2] = hand[t]
      BY <1>1, <2>1, <3>1 DEF Unappended, Commit
    <3>3. x[2] \in Nat
      BY EventType
    <3>4. hand[t] \in Nat /\ committed[t] \in Nat
      BY <1>1
    <3>5. Unappended(x)' => x[2] > committed[t]
      BY <1>1, <3>2, <3>3, <3>4
    <3>6. QED
      BY <2>1, <3>5, LeavesUncommitted, StoresNothing DEF OnceInv, Commit, tables, losses
  <2>2. CASE x[1] # t
    <3>1. NoneAgain(x)
      BY <1>1, <2>2, SamePlace, EventType DEF Commit, GoTo
    <3>2. QED  BY <3>1, StoresNothing DEF OnceInv, Commit, tables, losses
  <2>3. QED  BY <2>1, <2>2
<1>5. QED  BY <1>3, <1>4 DEF OnceInv, Event

\* A failed commit puts no event into the consumer's hand, and moves the offset,
\* if at all, past the one it read.
LEMMA FetchFailsOnce ==
  ASSUME IInv, JInv, OnceInv, NEW t \in Topic, FetchFails(t)
  PROVE  OnceInv'
<1>1. /\ step \in [Topic -> Step] /\ next \in [Topic -> Nat] /\ hand \in [Topic -> Nat]
      /\ committed \in [Topic -> Nat] /\ hand[t] = next[t] - 1 /\ committed[t] < hand[t]
  BY DEF IInv, TypeOK, Step, JInv, HandIsLast, OnceInv, CommitFirst, FetchFails
<1>2. step'[t] # "commit"
  BY <1>1 DEF FetchFails, GoTo, FirstStep, Topic
<1>3. /\ hand' = [hand EXCEPT ![t] = 0] /\ next' = next
      /\ \A u \in Topic \ {t} : step'[u] = step[u] /\ committed'[u] = committed[u]
      /\ committed'[t] \in {committed[t], hand[t]}
  BY <1>1 DEF FetchFails, GoTo
<1>4. CommitFirst'
  BY <1>1, <1>2, <1>3 DEF OnceInv, CommitFirst, Working
<1>5. ASSUME NEW x \in Event
      PROVE  StoredOnce(x)'
  <2>0. x[1] \in Topic /\ x[2] \in Nat \ {0}
    BY EventType
  <2>1. CASE x[1] = t
    <3>1. \A y \in InFlight(t)' : y[2] = 0
      BY <1>1, <1>3 DEF InFlight
    <3>2. Unappended(x)' => x[2] > committed'[t]
      BY <2>0, <2>1, <3>1 DEF Unappended
    <3>3. committed[t] \in Nat /\ committed'[t] \in Nat /\ committed'[t] >= committed[t]
      BY <1>1, <1>3
    <3>4. Unappended(x)' => x[2] > committed[t]
      BY <2>0, <3>2, <3>3
    <3>5. QED
      BY <2>1, <3>4, LeavesUncommitted, StoresNothing DEF OnceInv, FetchFails, tables
  <2>2. CASE x[1] # t
    <3>1. NoneAgain(x)
      BY <1>1, <1>3, <2>0, <2>2, SamePlace DEF FetchFails
    <3>2. QED  BY <3>1, StoresNothing DEF OnceInv, FetchFails, tables
  <2>3. QED  BY <2>1, <2>2
<1>6. QED  BY <1>4, <1>5 DEF OnceInv, Event

\* The offsets of a consumer at work stay in order.
LEMMA WorkKeepsOffsets ==
  ASSUME IInv, CommitFirst, UNCHANGED <<next, committed, hand>>,
         NEW t \in Topic, Working(t), NEW s, s # "commit", step' = [step EXCEPT ![t] = s]
  PROVE  CommitFirst'
BY DEF IInv, TypeOK, CommitFirst, Working

\* The trade a consumer is working on is one of its event in hand.
LEMMA CurrentInFlight ==
  ASSUME IInv, NEW t \in Topic, Working(t)
  PROVE  Current(t) \in InFlight(t) /\ Current(t) \in Item
<1>1. Parts(t, hand[t]) \in Nat \ {0}
  BY PartsType DEF IInv, TypeOK
<1>2. (IF t = "ws" THEN part ELSE 1) \in (IF t = "ws" THEN part ELSE 1)..Parts(t, hand[t])
  BY <1>1 DEF IInv, TypeOK
<1>3. QED  BY <1>2, CurrentType DEF InFlight, Current, IInv

\* From one step to the next with the same trade in hand, the trade is only
\* ever past the earlier one.
LEMMA SameTrade ==
  ASSUME IInv, UNCHANGED <<committed, hand, part>>, NEW t \in Topic, Working(t),
         NEW s, step' = [step EXCEPT ![t] = s],
         \/ step[t] = "resolve" /\ s = "publish"
         \/ step[t] = "publish" /\ s = "insert"
         \/ step[t] = "insert" /\ s = "append",
         NEW x \in Event
  PROVE  NoneAgain(x)
<1>1. step \in [Topic -> Step]
  BY DEF IInv, TypeOK, Step
<1>2. x[1] \in Topic
  BY EventType
<1>3. CASE x[1] = t
  <2>1. InFlight(t)' = InFlight(t) /\ Current(t)' = Current(t)
    BY <1>1, SameInFlight DEF Working, Current
  <2>2. step'[t] = s
    BY <1>1
  <2>3. QED  BY <1>3, <2>1, <2>2 DEF NoneAgain, Unappended, Uninserted, Unpublished
<1>4. CASE x[1] # t
  BY <1>1, <1>2, <1>4, SamePlace
<1>5. QED  BY <1>3, <1>4

LEMMA WebsocketStepOnce ==
  ASSUME IInv, JInv, OnceInv, WebsocketStep
  PROVE  OnceInv'
<1> DEFINE cur == Current("ws")
<1>1. /\ step \in [Topic -> Step] /\ "ws" \in Topic /\ own \in Rows /\ live \in Rows
      /\ step["ws"] \in {"resolve", "publish", "insert"} /\ Working("ws")
  BY WsTopic DEF IInv, TypeOK, Step, WebsocketStep, ResolveMarketID, PublishTrade, InsertTrade,
                 Working
<1>2. UNCHANGED <<next, committed, hand, part, buffer, raw, ambiguous>>
  BY DEF WebsocketStep, ResolveMarketID, PublishTrade, InsertTrade, losses, tables
<1>3. PICK s : /\ step' = [step EXCEPT !["ws"] = s] /\ s # "commit"
               /\ \/ step["ws"] = "resolve" /\ s = "publish"
                  \/ step["ws"] = "publish" /\ s = "insert"
                  \/ step["ws"] = "insert" /\ s = "append"
  BY DEF WebsocketStep, ResolveMarketID, PublishTrade, InsertTrade, GoTo
<1>4. CommitFirst'
  BY <1>1, <1>2, <1>3, WorkKeepsOffsets DEF OnceInv
<1>5. cur \in Item /\ cur \in InFlight("ws") /\ cur[1] = "ws"
  BY <1>1, CurrentInFlight DEF Current
<1>6. ASSUME NEW x \in Event
      PROVE  StoredOnce(x)'
  <2>1. NoneAgain(x) /\ StoredOnce(x) /\ x \in Item
    BY <1>1, <1>2, <1>3, SameTrade DEF OnceInv, Event
  <2>2. own[x] \in Nat /\ live[x] \in Nat
    BY EventType
  <2>3. CASE own'[x] = own[x] /\ live'[x] = live[x]
    BY <1>2, <2>1, <2>3, StoresNothing
  <2>4. CASE ~(own'[x] = own[x] /\ live'[x] = live[x])
    <3>1. \/ step["ws"] = "publish" /\ live' = Plus(live, <<cur>>) /\ own' = own
          \/ step["ws"] = "insert" /\ own' = Plus(own, <<cur>>) /\ live' = live
      BY <2>4 DEF WebsocketStep, ResolveMarketID, PublishTrade, InsertTrade, tables
    <3>2. x = cur
      BY <1>1, <1>5, <2>1, <2>4, <3>1, PlusOne
    <3>3. Unappended(x)
      BY <1>5, <3>2 DEF Unappended
    <3>4. Current(x[1])' = x /\ x[1] = "ws" /\ step'[x[1]] = s
      BY <1>1, <1>2, <1>3, <1>5, <3>2 DEF Current
    <3>5. CASE step["ws"] = "publish" /\ live' = Plus(live, <<cur>>) /\ own' = own
      <4>1. Unpublished(x)
        BY <3>3, <3>4, <3>5 DEF Unpublished, Uninserted
      <4>2. live'[x] = 1
        BY <1>1, <1>5, <2>1, <3>2, <3>5, <4>1, PlusOne DEF StoredOnce
      <4>3. ~Unpublished(x)'
        BY <1>3, <3>4, <3>5 DEF Unpublished
      <4>4. QED  BY <1>2, <2>1, <3>5, <4>2, <4>3 DEF StoredOnce, NoneAgain, Elements, Once
    <3>6. CASE step["ws"] = "insert" /\ own' = Plus(own, <<cur>>) /\ live' = live
      <4>1. Uninserted(x)
        BY <3>3, <3>4, <3>6 DEF Uninserted
      <4>2. own'[x] = 1
        BY <1>1, <1>5, <2>1, <3>2, <3>6, <4>1, PlusOne DEF StoredOnce
      <4>3. ~Uninserted(x)'
        BY <1>3, <3>4, <3>6 DEF Uninserted
      <4>4. QED  BY <1>2, <2>1, <3>6, <4>2, <4>3 DEF StoredOnce, NoneAgain, Elements, Once
    <3>7. QED  BY <3>1, <3>5, <3>6
  <2>5. QED  BY <2>3, <2>4
<1>7. QED  BY <1>4, <1>6 DEF OnceInv, Event

LEMMA InsertDirectOnce ==
  ASSUME IInv, JInv, OnceInv, NEW t \in Topic, InsertDirect(t)
  PROVE  OnceInv'
<1>1. /\ step \in [Topic -> Step] /\ own \in Rows /\ hand \in [Topic -> Nat]
      /\ step[t] = "insert" /\ Working(t) /\ t # "ws" /\ step' = [step EXCEPT ![t] = "read"]
  BY TopicAssumption DEF IInv, TypeOK, Step, InsertDirect, GoTo, Working
<1>2. /\ UNCHANGED <<next, committed, hand, part, buffer, raw, live, ambiguous>>
      /\ own' = own \/ own' = Plus(own, <<Current(t)>>)
  BY DEF InsertDirect
<1>3. CommitFirst'
  BY <1>1, <1>2, WorkKeepsOffsets DEF OnceInv
<1>4. Current(t) \in Item /\ Current(t) \in InFlight(t) /\ Current(t)[1] = t
  BY <1>1, CurrentInFlight DEF Current
<1>5. ASSUME NEW x \in Event
      PROVE  StoredOnce(x)'
  <2>0. x \in Item /\ x[1] \in Topic /\ StoredOnce(x) /\ own[x] \in Nat
    BY EventType DEF OnceInv
  <2>1. NoneAgain(x)
    <3>1. CASE x[1] = t
      <4>1. InFlight(t)' = {}
        BY <1>1 DEF InFlight, Working
      <4>2. Unappended(x)' => x[2] > committed[t]
        BY <1>2, <3>1, <4>1 DEF Unappended
      <4>3. QED  BY <3>1, <4>2, LeavesUncommitted DEF OnceInv
    <3>2. CASE x[1] # t
      BY <1>1, <1>2, <2>0, <3>2, SamePlace
    <3>3. QED  BY <3>1, <3>2
  <2>2. CASE own'[x] = own[x]
    BY <1>2, <2>0, <2>1, <2>2, StoresNothing
  <2>3. CASE own'[x] # own[x]
    <3>1. x = Current(t) /\ own'[x] = own[x] + 1
      BY <1>1, <1>2, <1>4, <2>0, <2>3, PlusOne
    <3>2. Uninserted(x)
      BY <1>1, <1>4, <3>1 DEF Unappended, Uninserted
    <3>3. own'[x] = 1
      BY <2>0, <3>1, <3>2 DEF StoredOnce
    <3>4. ~Unappended(x)'
      <4>1. InFlight(t)' = {}
        BY <1>1 DEF InFlight, Working
      <4>2. x[2] = hand[t] /\ hand[t] \in Nat /\ committed[t] \in Nat /\ hand[t] <= committed[t]
        BY <1>1, <3>1 DEF Current, OnceInv, CommitFirst, IInv, TypeOK
      <4>3. QED  BY <1>2, <1>4, <3>1, <4>1, <4>2 DEF Unappended
    <3>5. QED
      BY <1>2, <2>0, <2>1, <3>3, <3>4 DEF StoredOnce, NoneAgain, Uninserted, Elements, Once
  <2>4. QED  BY <2>2, <2>3
<1>6. QED  BY <1>3, <1>5 DEF OnceInv, Event

\* A sequence with one element more.
LEMMA OnceAppend ==
  ASSUME NEW xs \in Seq(Item), NEW e \in Item, NEW x
  PROVE  /\ x # e /\ Once(xs, x) => Once(Append(xs, e), x)
         /\ x \notin Elements(xs) => Once(Append(xs, e), x)
<1>1. /\ DOMAIN xs = 1..Len(xs) /\ Len(xs) \in Nat
      /\ DOMAIN Append(xs, e) = 1..(Len(xs) + 1)
      /\ Append(xs, e)[Len(xs) + 1] = e
      /\ \A i \in 1..Len(xs) : Append(xs, e)[i] = xs[i]
  OBVIOUS
<1>2. \A i \in 1..(Len(xs) + 1) : i \in 1..Len(xs) \/ i = Len(xs) + 1
  BY <1>1
<1>3. QED  BY <1>1, <1>2 DEF Once, Elements

\* The append takes the trade off what there is to do, and puts it where no
\* other copy of it is.
LEMMA AppendOnce ==
  ASSUME IInv, JInv, OnceInv, NEW t \in Topic, AppendEvent(t)
  PROVE  OnceInv'
<1> DEFINE cur == Current(t)
<1>1. /\ step \in [Topic -> Step] /\ hand \in [Topic -> Nat] /\ buffer \in Seq(Item)
      /\ step[t] = "append" /\ Working(t) /\ buffer' = Append(buffer, cur)
  BY DEF IInv, TypeOK, Step, AppendEvent, Working
<1>2. UNCHANGED <<next, committed, hand, raw, own, live, ambiguous>>
  BY DEF AppendEvent, tables, losses
<1>3. PICK s \in {"publish", "read"} : step' = [step EXCEPT ![t] = s]
  BY DEF AppendEvent, GoTo
<1>4. CommitFirst'
  BY <1>1, <1>2, <1>3, WorkKeepsOffsets DEF OnceInv
<1>5. cur \in Item /\ cur \in InFlight(t) /\ cur[1] = t /\ cur[2] = hand[t]
  BY <1>1, CurrentInFlight DEF Current
<1>6. InFlight(t)' \subseteq InFlight(t) \ {cur}
  <2>1. part \in 1..Parts("ws", hand["ws"]) /\ Parts("ws", hand["ws"]) \in Nat
    BY WsTopic, PartsType DEF IInv, TypeOK
  <2>2. CASE t = "ws" /\ part < Parts(t, hand[t])
    <3>1. part' = part + 1 /\ hand' = hand
      BY <1>2, <2>2 DEF AppendEvent
    <3>2. \A k \in part'..Parts(t, hand[t]) : k \in part..Parts(t, hand[t]) /\ k # part
      BY <2>1, <2>2, <3>1
    <3>3. QED  BY <1>1, <2>2, <3>1, <3>2 DEF InFlight, Current, Parts
  <2>3. CASE ~(t = "ws" /\ part < Parts(t, hand[t]))
    BY <1>1, <2>3 DEF InFlight, Working, AppendEvent, GoTo
  <2>4. QED  BY <2>2, <2>3
<1>7. Elements(buffer') = Elements(buffer) \cup {cur}
  BY <1>1, <1>5, ElementsAppend
<1>8. \A x : /\ x # cur /\ Once(buffer, x) => Once(buffer', x)
             /\ x \notin Elements(buffer) => Once(buffer', x)
  BY <1>1, <1>5, OnceAppend
<1>9. ASSUME NEW x \in Event
      PROVE  StoredOnce(x)'
  <2>1. /\ x \in Item /\ x[1] \in Topic /\ StoredOnce(x) /\ x[2] \in Nat
        /\ raw[x] \in Nat /\ ambiguous \in Nat
    BY EventType DEF OnceInv
  <2>2. CASE x = cur
    <3>1. Unappended(x)
      BY <1>5, <2>2 DEF Unappended
    <3>2. raw[x] = 0 /\ x \notin Elements(buffer)
      BY <2>1, <3>1 DEF StoredOnce
    <3>3. ~Unappended(x)'
      <4>1. hand[t] \in Nat /\ committed[t] \in Nat /\ hand[t] <= committed[t]
        BY <1>1 DEF OnceInv, CommitFirst, IInv, TypeOK
      <4>2. QED  BY <1>2, <1>5, <1>6, <2>2, <4>1 DEF Unappended
    <3>4. QED
      BY <1>2, <1>8, <2>1, <3>2, <3>3 DEF StoredOnce, Uninserted, Unpublished
  <2>3. CASE x # cur
    <3>1. NoneAgain(x)
      <4>1. CASE x[1] = t
        <5>1. CASE x[2] > committed[t]
          BY <4>1, <5>1, LeavesUncommitted DEF OnceInv
        <5>2. CASE ~(x[2] > committed[t])
          <6>1. Unappended(x)' => x \in InFlight(t)
            BY <1>2, <1>6, <4>1, <5>2 DEF Unappended
          <6>2. x \in InFlight(t) => Unappended(x) /\ Uninserted(x) /\ Unpublished(x)
            BY <1>1, <2>3, <4>1 DEF Unappended, Uninserted, Unpublished
          <6>3. QED  BY <6>1, <6>2 DEF NoneAgain, Uninserted, Unpublished
        <5>3. QED  BY <5>1, <5>2
      <4>2. CASE x[1] # t
        BY <1>1, <1>2, <1>3, <2>1, <4>2, SamePlace DEF AppendEvent
      <4>3. QED  BY <4>1, <4>2
    <3>2. (x \in Elements(buffer') <=> x \in Elements(buffer)) /\ (Once(buffer, x) => Once(buffer', x))
      BY <1>7, <1>8, <2>3
    <3>3. Elements(buffer)' = Elements(buffer') /\ (Once(buffer, x)' <=> Once(buffer', x))
      BY DEF Elements, Once
    <3>4. QED  BY <1>2, <2>1, <3>1, <3>2, <3>3 DEF StoredOnce, NoneAgain
  <2>4. QED  BY <2>2, <2>3
<1>10. QED  BY <1>4, <1>9 DEF OnceInv, Event

\* A flush inserts what is in the buffer; it inserts it again only after an
\* attempt that failed, and leaves the buffer empty when it is done.
LEMMA FlusherOnce ==
  ASSUME IInv, JInv, OnceInv, Flusher
  PROVE  OnceInv'
<1>1. UNCHANGED <<next, committed, hand, step, part, own, live>>
  BY DEF Flusher, FlushTick, SendSucceeds, SendFails, readers, tables
<1>2. CommitFirst'
  BY <1>1 DEF OnceInv, CommitFirst, Working
<1>3. buffer' = buffer \/ buffer' = <<>>
  BY DEF Flusher, FlushTick, SendSucceeds, SendFails
<1>4. \/ raw' = raw /\ ambiguous' = ambiguous
      \/ raw' = Plus(raw, buffer) /\ ambiguous' = ambiguous + 1
      \/ raw' = Plus(raw, buffer) /\ ambiguous' = ambiguous /\ buffer' = <<>>
  <2>1. CASE FlushTick
    BY <2>1 DEF FlushTick, tables, losses
  <2>2. CASE SendSucceeds
    BY <2>2 DEF SendSucceeds, losses, JInv, BatchIsBuffer
  <2>3. CASE SendFails
    BY <2>3 DEF SendFails, JInv, BatchIsBuffer
  <2>4. QED  BY <2>1, <2>2, <2>3 DEF Flusher
<1>5. buffer \in Seq(Item) /\ raw \in Rows
  BY DEF IInv, TypeOK
<1>6. ASSUME NEW x \in Event
      PROVE  StoredOnce(x)'
  <2>1. /\ x \in Item /\ StoredOnce(x) /\ NoneAgain(x)
        /\ raw[x] \in Nat /\ ambiguous \in Nat
    BY <1>1, EventType, SamePlace DEF OnceInv
  <2>2. /\ x \notin Elements(buffer) => Plus(raw, buffer)[x] = raw[x]
        /\ Once(buffer, x) => Plus(raw, buffer)[x] <= raw[x] + 1
    BY <1>5, <2>1, PlusBatch
  <2>3. /\ raw'[x] <= 1 + ambiguous'
        /\ x \in Elements(buffer') => raw'[x] <= ambiguous'
        /\ x \notin Elements(buffer) => raw'[x] = raw[x]
    <3>1. Elements(<<>>) = {}
      BY DEF Elements
    <3>2. CASE x \in Elements(buffer)
      <4>1. raw[x] <= ambiguous /\ Plus(raw, buffer)[x] <= raw[x] + 1
        BY <2>1, <2>2, <3>2 DEF StoredOnce
      <4>2. Plus(raw, buffer)[x] \in Nat
        BY <1>5, <2>1, PlusType DEF Rows
      <4>3. QED  BY <1>4, <2>1, <3>1, <3>2, <4>1, <4>2
    <3>3. CASE x \notin Elements(buffer)
      <4>1. raw'[x] = raw[x] /\ raw[x] <= 1 + ambiguous
        BY <1>4, <2>1, <2>2, <3>3 DEF StoredOnce
      <4>2. ambiguous' \in Nat /\ ambiguous' >= ambiguous
        BY <1>4, <2>1
      <4>3. x \notin Elements(buffer')
        BY <1>3, <3>1, <3>3
      <4>4. QED  BY <2>1, <3>3, <4>1, <4>2, <4>3
    <3>4. QED  BY <3>2, <3>3
  <2>4. /\ x \in Elements(buffer') => x \in Elements(buffer)
        /\ Once(buffer, x) => Once(buffer', x)
    BY <1>3 DEF Elements, Once
  <2>5. Elements(buffer)' = Elements(buffer') /\ (Once(buffer, x)' <=> Once(buffer', x))
    BY DEF Elements, Once
  <2>6. QED  BY <1>1, <2>1, <2>3, <2>4, <2>5 DEF StoredOnce, NoneAgain
<1>7. QED  BY <1>2, <1>6 DEF OnceInv, Event

\* The reader starts again behind the committed events: whatever was stored of
\* the others is nothing.
LEMMA RestartOnce ==
  ASSUME IInv, JInv, OnceInv, Restart
  PROVE  OnceInv'
<1>1. committed \in [Topic -> Nat] /\ committed' = committed /\ buffer' = <<>>
      /\ UNCHANGED <<raw, own, live, ambiguous>>
      /\ step' = [t \in Topic |-> "read"] /\ next' = [t \in Topic |-> committed[t] + 1]
  BY DEF IInv, TypeOK, Restart, Resume, tables
<1>2. CommitFirst'
  BY <1>1 DEF CommitFirst, Working
<1>3. ASSUME NEW x \in Event
      PROVE  StoredOnce(x)'
  <2>1. x[1] \in Topic /\ StoredOnce(x)
    BY EventType DEF OnceInv
  <2>2. InFlight(x[1])' = {}
    BY <1>1, <2>1 DEF InFlight, Working
  <2>3. NoneAgain(x)
    BY <1>1, <2>2, LeavesUncommitted DEF Unappended, OnceInv
  <2>4. Elements(buffer)' = {}
    BY <1>1 DEF Elements
  <2>5. QED  BY <1>1, <2>1, <2>3, <2>4 DEF StoredOnce, NoneAgain
<1>4. QED  BY <1>2, <1>3 DEF OnceInv, Event

\* Discovery's key, and a stutter, store nothing.
LEMMA NothingOnce ==
  ASSUME IInv, JInv, OnceInv, MapCondition \/ UNCHANGED vars
  PROVE  OnceInv'
<1>1. UNCHANGED <<next, committed, hand, step, part, buffer, raw, own, live, ambiguous>>
  BY DEF MapCondition, vars, readers, tables, losses
<1>2. CommitFirst'
  BY <1>1 DEF OnceInv, CommitFirst, Working
<1>3. \A x \in Event : StoredOnce(x)'
  BY <1>1, SamePlace, StoresNothing DEF OnceInv
<1>4. QED  BY <1>2, <1>3 DEF OnceInv, Event

\* An event is in events_raw, in the table of its topic and on the live topic at
\* most once, but for the inserts into events_raw that failed and took effect:
\* for any topics, events, trades per event, attempts, failures and restarts.
THEOREM NothingStoredTwice == Spec => []DuplicatesExplained
<1>1. Init => OnceInv
  <2> SUFFICES ASSUME Init PROVE OnceInv
    OBVIOUS
  <2>1. CommitFirst
    BY DEF Init, CommitFirst, Working
  <2>2. ASSUME NEW x \in Event
        PROVE  StoredOnce(x)
    <3>1. x \in Item /\ Elements(buffer) = {}
      BY DEF Init, Event, Elements
    <3>2. QED  BY <3>1 DEF Init, StoredOnce
  <2>3. QED  BY <2>1, <2>2 DEF OnceInv
<1>2. IInv /\ JInv /\ OnceInv /\ [Next]_vars => OnceInv'
  BY ReadMessageOnce, CommitOnce, FetchFailsOnce, WebsocketStepOnce, InsertDirectOnce, AppendOnce,
     FlusherOnce, RestartOnce, NothingOnce DEF Next, Consumer
<1>3. OnceInv => DuplicatesExplained
  BY DEF OnceInv, StoredOnce, Event, DuplicatesExplained
<1>4. QED  BY <1>1, <1>2, <1>3, InitHolds, NextKeeps, OffsetsAreKept, PTL DEF Spec

===========================================================================
