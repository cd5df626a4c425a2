-------------------------- MODULE StreamHubProofs --------------------------
(***************************************************************************)
(* For every set of clients, markets and addresses and every channel       *)
(* capacity: the hub keeps its types, sends on no closed channel, a pump's *)
(* drain never blocks, a browser gets every topic in the order it was      *)
(* published, and the hub with its pumps implements StreamFanOut.          *)
(***************************************************************************)
EXTENDS StreamHub, SequenceTheorems, TLAPS

\* The membership of a client and the state of its channel follow the life of
\* its reader: nobody is registered, and no channel closed, before the hub
\* took the client, and a closed channel belongs to a client no longer mapped.
Lifecycle ==
  \A c \in Client :
    /\ c \in clients => ~sendClosed[c] /\ reader[c] \notin {"none", "registering"}
    /\ reader[c] \in {"none", "registering"} => ~sendClosed[c]

ChannelInv == TypeOK /\ ~panicked /\ Lifecycle

---------------------------------------------------------------------------

\* The fan-out keeps the types of what it writes.
LEMMA FanOutType ==
  ASSUME TypeOK, NEW targets \in SUBSET Client, NEW msg \in Message, FanOut(targets, msg)
  PROVE  /\ send' \in [Client -> Seq(Message)]
         /\ clients' \subseteq Client
         /\ sendClosed' \in [Client -> BOOLEAN]
         /\ panicked' \in BOOLEAN
<1>1. \A c \in Client : Append(send[c], msg) \in Seq(Message)
  BY DEF TypeOK
<1>2. QED
  BY <1>1 DEF FanOut, TypeOK

\* A message leaving a hub queue is a message, and the queue stays a queue.
LEMMA HeadTail ==
  ASSUME NEW S, NEW s \in Seq(S), s # <<>>
  PROVE  Head(s) \in S /\ Tail(s) \in Seq(S)
OBVIOUS

\* Each action of a connection's reader preserves the types.
LEMMA ReaderType ==
  ASSUME TypeOK, NEW c \in Client, ReadPump(c)
  PROVE  TypeOK'
<1> USE DEF TypeOK, hubVars, queueVars, sendVars, readerVars, writerVars
<1>1. CASE ServeWS(c)      BY <1>1 DEF ServeWS
<1>2. CASE StartPumps(c)   BY <1>2 DEF StartPumps
<1>3. ASSUME NEW cmd \in Command, ReadCommand(c, cmd)
      PROVE  TypeOK'
  BY <1>3, BoundAssumption DEF ReadCommand
<1>4. CASE Subscribe(c)
  <2>a. pending[c] \in Command \cup {NoCommand}
    OBVIOUS
  <2>b. pending[c].names \in SUBSET (Market \cup {NoMarket})
    BY <2>a, <1>4, ListsAssumption DEF Subscribe, Command, NoCommand
  <2>1. [client |-> c, names |-> pending[c].names] \in QueuedCommand
    BY <2>b DEF QueuedCommand
  <2>2. QED  BY <1>4, <2>1 DEF Subscribe
<1>5. CASE SubscribeWallet(c)
  <2>a. pending[c] \in Command \cup {NoCommand}
    OBVIOUS
  <2>b. pending[c].names \in SUBSET (Address \cup {NoWallet})
    BY <2>a, <1>5, ListsAssumption DEF SubscribeWallet, Command, NoCommand
  <2>1. [client |-> c, names |-> pending[c].names] \in QueuedWalletCommand
    BY <2>b DEF QueuedWalletCommand
  <2>2. QED  BY <1>5, <2>1 DEF SubscribeWallet
<1>6. CASE ReadError(c)    BY <1>6 DEF ReadError
<1>7. CASE ReaderClose(c)  BY <1>7 DEF ReaderClose
<1>8. QED  BY <1>1, <1>2, <1>3, <1>4, <1>5, <1>6, <1>7 DEF ReadPump

\* Each action of a connection's writer preserves the types.
LEMMA WriterType ==
  ASSUME TypeOK, NEW c \in Client, WritePump(c)
  PROVE  TypeOK'
<1> USE DEF TypeOK, hubVars, queueVars, sendVars, readerVars, writerVars
<1>1. CASE WriterReceive(c)
  <2>1. Head(send[c]) \in Message /\ Tail(send[c]) \in Seq(Message)
    BY <1>1, HeadTail DEF WriterReceive
  <2>2. QED  BY <1>1, <2>1 DEF WriterReceive
<1>2. CASE WriterBegin(c)
  BY <1>2 DEF WriterBegin, Owed
<1>3. CASE WriterDrain(c)
  <2>1. Head(send[c]) \in Message /\ Tail(send[c]) \in Seq(Message)
    BY <1>3, HeadTail DEF WriterDrain
  <2>2. Append(frame[c], Head(send[c])) \in Seq(Message)
    BY <2>1
  <2>3. drain[c] - 1 \in Nat
    BY <1>3 DEF WriterDrain
  <2>4. QED  BY <1>3, <2>1, <2>2, <2>3 DEF WriterDrain
<1>4. CASE WriterFlush(c)
  <2>1. received[c] \o frame[c] \in Seq(Message)
    OBVIOUS
  <2>2. QED  BY <1>4, <2>1 DEF WriterFlush
<1>5. CASE WriteError(c)   BY <1>5 DEF WriteError
<1>6. CASE WriterClosed(c) BY <1>6 DEF WriterClosed
<1>7. CASE WriterStop(c)   BY <1>7 DEF WriterStop
<1>8. QED  BY <1>1, <1>2, <1>3, <1>4, <1>5, <1>6, <1>7 DEF WritePump

\* Each case of the hub's select preserves the types.
LEMMA HubType ==
  ASSUME TypeOK, Run
  PROVE  TypeOK'
<1> USE DEF TypeOK, hubVars, queueVars, sendVars, readerVars, writerVars
<1>1. ASSUME NEW c \in Client, HubRegister(c)
      PROVE  TypeOK'
  BY <1>1 DEF HubRegister
<1>2. ASSUME NEW c \in Client, HubUnregister(c)
      PROVE  TypeOK'
  BY <1>2 DEF HubUnregister, Known, CloseSend
<1>3. CASE HubSubscribe
  <2>1. Head(subscribe) \in QueuedCommand /\ Tail(subscribe) \in Seq(QueuedCommand)
    BY <1>3, HeadTail DEF HubSubscribe
  <2>2. Head(subscribe).names \ {NoMarket} \in SUBSET Market
    BY <2>1 DEF QueuedCommand
  <2>3. subscriptions' \in [Client -> SUBSET Market]
    BY <1>3, <2>1, <2>2 DEF HubSubscribe, MarketNames, QueuedCommand
  <2>4. QED  BY <1>3, <2>1, <2>3 DEF HubSubscribe
<1>4. CASE HubSubscribeWallet
  <2>1. Head(subscribeWallet) \in QueuedWalletCommand
        /\ Tail(subscribeWallet) \in Seq(QueuedWalletCommand)
    BY <1>4, HeadTail DEF HubSubscribeWallet
  <2>a. \A a \in Head(subscribeWallet).names \ {NoWallet} : Lower[a] \in Address
    BY <2>1, LowerAssumption DEF QueuedWalletCommand
  <2>2. WalletNames(Head(subscribeWallet).names) \in SUBSET Address
    BY <2>a DEF WalletNames
  <2>3. walletSubs' \in [Client -> SUBSET Address]
    BY <1>4, <2>1, <2>2 DEF HubSubscribeWallet, QueuedWalletCommand
  <2>4. QED  BY <1>4, <2>1, <2>3 DEF HubSubscribeWallet
<1>5. CASE HubBroadcast
  <2>1. Head(broadcast) \in Message /\ Tail(broadcast) \in Seq(Message)
    BY <1>5, HeadTail DEF HubBroadcast
  <2>2. \E targets \in SUBSET Client : FanOut(targets, Head(broadcast))
    BY <1>5 DEF HubBroadcast
  <2>3. QED  BY <1>5, <2>1, <2>2, FanOutType DEF HubBroadcast
<1>6. CASE HubWalletBroadcast
  <2>1. Head(walletBroadcast) \in Message /\ Tail(walletBroadcast) \in Seq(Message)
    BY <1>6, HeadTail DEF HubWalletBroadcast
  <2>2. \E targets \in SUBSET Client : FanOut(targets, Head(walletBroadcast))
    BY <1>6 DEF HubWalletBroadcast
  <2>3. QED  BY <1>6, <2>1, <2>2, FanOutType DEF HubWalletBroadcast
<1>7. CASE HubStop  BY <1>7 DEF HubStop
<1>8. QED  BY <1>1, <1>2, <1>3, <1>4, <1>5, <1>6, <1>7 DEF Run

\* The Kafka broadcasters preserve the types: ids stay within the bound and a
\* wallet is lower-cased to an address.
LEMMA BroadcastersType ==
  ASSUME TypeOK, Broadcasters
  PROVE  TypeOK'
<1> USE DEF TypeOK, hubVars, queueVars, sendVars, readerVars, writerVars
<1>1. ASSUME NEW market \in Market \cup {NoMarket}, BroadcastToMarket(market)
      PROVE  TypeOK'
  <2>1. published + 1 \in 1..MaxMsgs
    BY <1>1, BoundAssumption DEF BroadcastToMarket
  <2>2. [id |-> published + 1, kind |-> "market", scope |-> market] \in Message
    BY <2>1 DEF Message
  <2>3. QED  BY <1>1, <2>1, <2>2, BoundAssumption DEF BroadcastToMarket
<1>2. ASSUME NEW wallet \in Address, BroadcastToWallet(wallet)
      PROVE  TypeOK'
  <2>1. published + 1 \in 1..MaxMsgs
    BY <1>2, BoundAssumption DEF BroadcastToWallet
  <2>2. [id |-> published + 1, kind |-> "wallet", scope |-> Lower[wallet]] \in Message
    BY <2>1, LowerAssumption DEF Message
  <2>3. QED  BY <1>2, <2>1, <2>2, BoundAssumption DEF BroadcastToWallet
<1>3. QED  BY <1>1, <1>2 DEF Broadcasters

\* Every variable keeps the type its Go declaration gives it.
THEOREM TypeCorrect == Spec => []TypeOK
<1>1. Init => TypeOK
  <2>1. 0 \in 0..MaxMsgs /\ 0 \in 0..MaxCmds
    BY BoundAssumption
  <2>2. NoCommand \in Command \cup {NoCommand}
    OBVIOUS
  <2>3. ASSUME Init
        PROVE  /\ broadcast \in Seq(Message) /\ walletBroadcast \in Seq(Message)
               /\ subscribe \in Seq(QueuedCommand) /\ subscribeWallet \in Seq(QueuedWalletCommand)
               /\ published \in 0..MaxMsgs
    BY <2>1, <2>3 DEF Init
  <2>4. ASSUME Init
        PROVE  /\ subscriptions \in [Client -> SUBSET Market]
               /\ walletSubs \in [Client -> SUBSET Address]
               /\ send \in [Client -> Seq(Message)]
               /\ frame \in [Client -> Seq(Message)]
               /\ received \in [Client -> Seq(Message)]
    BY <2>4 DEF Init
  <2>5. ASSUME Init
        PROVE  /\ sendClosed \in [Client -> BOOLEAN]
               /\ drain \in [Client -> Nat]
               /\ commands \in [Client -> 0..MaxCmds]
               /\ pending \in [Client -> Command \cup {NoCommand}]
    BY <2>1, <2>2, <2>5 DEF Init
  <2>6. ASSUME Init
        PROVE  running \in BOOLEAN /\ panicked \in BOOLEAN /\ clients \subseteq Client
    BY <2>6 DEF Init
  <2>7. QED  BY <2>3, <2>4, <2>5, <2>6 DEF Init, TypeOK
<1>2. TypeOK /\ [Next]_vars => TypeOK'
  <2> SUFFICES ASSUME TypeOK, [Next]_vars
               PROVE  TypeOK'
    OBVIOUS
  <2>1. ASSUME NEW c \in Client, ReadPump(c)
        PROVE  TypeOK'
    BY <2>1, ReaderType
  <2>2. ASSUME NEW c \in Client, WritePump(c)
        PROVE  TypeOK'
    BY <2>2, WriterType
  <2>3. CASE Run           BY <2>3, HubType
  <2>4. CASE Broadcasters  BY <2>4, BroadcastersType
  <2>5. CASE UNCHANGED vars
    BY <2>5 DEF vars, TypeOK, hubVars, queueVars, sendVars, readerVars, writerVars
  <2>6. QED  BY <2>1, <2>2, <2>3, <2>4, <2>5 DEF Next
<1>3. QED  BY <1>1, <1>2, PTL DEF Spec

---------------------------------------------------------------------------

\* A fan-out to registered clients neither sends on nor closes a closed
\* channel, and whom it drops is no longer registered.
LEMMA FanOutLifecycle ==
  ASSUME ChannelInv, NEW targets \in SUBSET clients, NEW msg, FanOut(targets, msg),
         UNCHANGED reader
  PROVE  ~panicked' /\ Lifecycle'
<1>1. \A c \in targets : ~sendClosed[c] /\ reader[c] \notin {"none", "registering"}
  BY DEF ChannelInv, Lifecycle, TypeOK
<1>2. ~panicked'
  BY <1>1 DEF FanOut, ChannelInv
<1>3. ASSUME NEW c \in Client
      PROVE  /\ c \in clients' => ~sendClosed'[c] /\ reader'[c] \notin {"none", "registering"}
             /\ reader'[c] \in {"none", "registering"} => ~sendClosed'[c]
  <2>1. clients' \subseteq clients
    BY DEF FanOut
  <2>2. sendClosed'[c] <=> sendClosed[c] \/ c \in {d \in targets : Len(send[d]) >= SendCap}
    BY DEF FanOut
  <2>3. CASE c \in {d \in targets : Len(send[d]) >= SendCap}
    BY <1>1, <2>3 DEF FanOut
  <2>4. CASE c \notin {d \in targets : Len(send[d]) >= SendCap}
    BY <2>1, <2>2, <2>4 DEF ChannelInv, Lifecycle
  <2>5. QED  BY <2>3, <2>4
<1>4. QED  BY <1>2, <1>3 DEF Lifecycle

\* The hub's cases keep membership and open channels together: only a reader
\* still waiting to register is admitted, and a client is closed exactly when
\* it leaves the map.
LEMMA HubLifecycle ==
  ASSUME ChannelInv, Run
  PROVE  ~panicked' /\ Lifecycle'
<1> USE DEF ChannelInv, TypeOK, queueVars, sendVars, readerVars, writerVars
<1>1. ASSUME NEW c \in Client, HubRegister(c)
      PROVE  ~panicked' /\ Lifecycle'
  BY <1>1 DEF HubRegister, Lifecycle
<1>2. ASSUME NEW c \in Client, HubUnregister(c)
      PROVE  ~panicked' /\ Lifecycle'
  <2>1. ~panicked'
    BY <1>2 DEF HubUnregister, Known, CloseSend, Lifecycle
  <2>2. ASSUME NEW d \in Client
        PROVE  /\ d \in clients' => ~sendClosed'[d] /\ reader'[d] \notin {"none", "registering"}
               /\ reader'[d] \in {"none", "registering"} => ~sendClosed'[d]
    <3>1. CASE d = c
      BY <1>2, <3>1 DEF HubUnregister, Known, CloseSend
    <3>2. CASE d # c
      BY <1>2, <3>2 DEF HubUnregister, Known, CloseSend, Lifecycle
    <3>3. QED  BY <3>1, <3>2
  <2>3. QED  BY <2>1, <2>2 DEF Lifecycle
<1>3. CASE HubSubscribe        BY <1>3 DEF HubSubscribe, Lifecycle
<1>4. CASE HubSubscribeWallet  BY <1>4 DEF HubSubscribeWallet, Lifecycle
<1>5. CASE HubBroadcast
  <2>1. \E targets \in SUBSET clients : FanOut(targets, Head(broadcast))
    BY <1>5 DEF HubBroadcast
  <2>2. QED  BY <1>5, <2>1, FanOutLifecycle DEF HubBroadcast
<1>6. CASE HubWalletBroadcast
  <2>1. \E targets \in SUBSET clients : FanOut(targets, Head(walletBroadcast))
    BY <1>6 DEF HubWalletBroadcast
  <2>2. QED  BY <1>6, <2>1, FanOutLifecycle DEF HubWalletBroadcast
<1>7. CASE HubStop  BY <1>7 DEF HubStop, Lifecycle
<1>8. QED  BY <1>1, <1>2, <1>3, <1>4, <1>5, <1>6, <1>7 DEF Run

\* The pumps and the broadcasters leave the map and the closed flags alone,
\* and no reader returns to the states before registration.
LEMMA PumpLifecycle ==
  ASSUME ChannelInv,
         \/ \E c \in Client : ReadPump(c) \/ WritePump(c)
         \/ Broadcasters
         \/ UNCHANGED vars
  PROVE  ~panicked' /\ Lifecycle'
<1> USE DEF ChannelInv, TypeOK, hubVars, queueVars, sendVars, readerVars, writerVars
<1>1. ASSUME NEW c \in Client, ReadPump(c)
      PROVE  ~panicked' /\ Lifecycle'
  <2>1. UNCHANGED <<clients, sendClosed, panicked>>
    BY <1>1 DEF ReadPump, ServeWS, StartPumps, ReadCommand, Subscribe, SubscribeWallet,
                ReadError, ReaderClose
  <2>2. reader[c] # "registering" /\ (reader[c] = "none" => reader'[c] = "registering")
        /\ (reader[c] # "none" => reader'[c] \notin {"none", "registering"})
    BY <1>1 DEF ReadPump, ServeWS, StartPumps, ReadCommand, Subscribe, SubscribeWallet,
                ReadError, ReaderClose
  <2>3. \A d \in Client \ {c} : reader'[d] = reader[d]
    BY <1>1 DEF ReadPump, ServeWS, StartPumps, ReadCommand, Subscribe, SubscribeWallet,
                ReadError, ReaderClose
  <2>4. QED  BY <2>1, <2>2, <2>3 DEF Lifecycle
<1>2. ASSUME NEW c \in Client, WritePump(c)
      PROVE  ~panicked' /\ Lifecycle'
  <2>1. UNCHANGED <<clients, sendClosed, panicked, reader>>
    BY <1>2 DEF WritePump, WriterReceive, WriterBegin, WriterDrain, WriterFlush, WriteError,
                WriterClosed, WriterStop
  <2>2. QED  BY <2>1 DEF Lifecycle
<1>3. ASSUME Broadcasters
      PROVE  ~panicked' /\ Lifecycle'
  <2>1. UNCHANGED <<clients, sendClosed, panicked, reader>>
    BY <1>3 DEF Broadcasters, BroadcastToMarket, BroadcastToWallet
  <2>2. QED  BY <2>1 DEF Lifecycle
<1>4. ASSUME UNCHANGED vars
      PROVE  ~panicked' /\ Lifecycle'
  BY <1>4 DEF vars, Lifecycle
<1>5. QED  BY <1>1, <1>2, <1>3, <1>4

\* No interleaving of slow-client drops, unregistrations and broadcasts sends
\* on or closes a channel that is already closed, so the hub never panics.
THEOREM ChannelsAreSafe == Spec => []ChannelSafety
<1>1. Init => ~panicked /\ Lifecycle
  BY DEF Init, Lifecycle
<1>2. TypeOK /\ ~panicked /\ Lifecycle /\ [Next]_vars => ~panicked' /\ Lifecycle'
  BY HubLifecycle, PumpLifecycle DEF ChannelInv, Next
<1>3. TypeOK /\ ~panicked /\ Lifecycle => ChannelSafety
  BY DEF TypeOK, Lifecycle, ChannelSafety
<1>4. QED  BY <1>1, <1>2, <1>3, TypeCorrect, PTL DEF Spec

---------------------------------------------------------------------------

\* Only writePump takes from a client's channel, so what it has counted stays:
\* every other step leaves a client's writer, its count and the messages
\* already buffered as they are.
LEMMA OthersKeepBuffer ==
  ASSUME TypeOK, NEW c \in Client,
         \/ \E d \in Client : ReadPump(d)
         \/ \E d \in Client \ {c} : WritePump(d)
         \/ Run
         \/ Broadcasters
         \/ UNCHANGED vars
  PROVE  /\ writer'[c] = writer[c] \/ writer'[c] = "idle"
         /\ drain'[c] = drain[c]
         /\ Len(send'[c]) >= Len(send[c])
<1> USE DEF TypeOK, hubVars, queueVars, sendVars, readerVars, writerVars
<1>1. ASSUME NEW d \in Client, ReadPump(d)
      PROVE  /\ writer'[c] = writer[c] \/ writer'[c] = "idle"
             /\ drain'[c] = drain[c] /\ send'[c] = send[c]
  BY <1>1 DEF ReadPump, ServeWS, StartPumps, ReadCommand, Subscribe, SubscribeWallet,
              ReadError, ReaderClose
<1>2. ASSUME NEW d \in Client \ {c}, WritePump(d)
      PROVE  writer'[c] = writer[c] /\ drain'[c] = drain[c] /\ send'[c] = send[c]
  BY <1>2 DEF WritePump, WriterReceive, WriterBegin, WriterDrain, WriterFlush, WriteError,
              WriterClosed, WriterStop
<1>3. ASSUME NEW targets \in SUBSET Client, NEW msg \in Message, FanOut(targets, msg)
      PROVE  Len(send'[c]) >= Len(send[c])
  <2>1. send'[c] = send[c] \/ send'[c] = Append(send[c], msg)
    BY <1>3 DEF FanOut
  <2>2. Len(Append(send[c], msg)) = Len(send[c]) + 1
    OBVIOUS
  <2>3. QED  BY <2>1, <2>2
<1>4. ASSUME Run
      PROVE  /\ UNCHANGED writerVars
             /\ \/ send' = send
                \/ \E targets \in SUBSET Client, msg \in Message : FanOut(targets, msg)
  <2>1. CASE \E d \in Client : HubRegister(d) \/ HubUnregister(d)
    BY <2>1 DEF HubRegister, HubUnregister
  <2>2. CASE HubSubscribe \/ HubSubscribeWallet \/ HubStop
    BY <2>2 DEF HubSubscribe, HubSubscribeWallet, HubStop
  <2>3. CASE HubBroadcast
    <3>1. Head(broadcast) \in Message
      BY <2>3, HeadTail DEF HubBroadcast
    <3>2. \E targets \in SUBSET Client : FanOut(targets, Head(broadcast))
      BY <2>3 DEF HubBroadcast
    <3>3. QED  BY <3>1, <3>2, <2>3 DEF HubBroadcast
  <2>4. CASE HubWalletBroadcast
    <3>1. Head(walletBroadcast) \in Message
      BY <2>4, HeadTail DEF HubWalletBroadcast
    <3>2. \E targets \in SUBSET Client : FanOut(targets, Head(walletBroadcast))
      BY <2>4 DEF HubWalletBroadcast
    <3>3. QED  BY <3>1, <3>2, <2>4 DEF HubWalletBroadcast
  <2>5. QED  BY <1>4, <2>1, <2>2, <2>3, <2>4 DEF Run
<1>5. ASSUME Broadcasters \/ UNCHANGED vars
      PROVE  UNCHANGED <<writer, drain, send>>
  BY <1>5 DEF Broadcasters, BroadcastToMarket, BroadcastToWallet, vars
<1>6. QED  BY <1>1, <1>2, <1>3, <1>4, <1>5

\* writePump itself counts what is there and takes one message per count.
LEMMA WriterKeepsCount ==
  ASSUME TypeOK, DrainNeverBlocks, NEW c \in Client, WritePump(c)
  PROVE  writer'[c] = "draining" => drain'[c] <= Len(send'[c])
<1> USE DEF TypeOK, sendVars, DrainNeverBlocks
<1>1. CASE WriterBegin(c)
  BY <1>1 DEF WriterBegin, Owed
<1>2. CASE WriterDrain(c)
  <2>1. Len(Tail(send[c])) = Len(send[c]) - 1
    BY <1>2 DEF WriterDrain
  <2>2. drain'[c] = drain[c] - 1 /\ send'[c] = Tail(send[c])
    BY <1>2 DEF WriterDrain
  <2>3. QED  BY <1>2, <2>1, <2>2 DEF WriterDrain
<1>3. CASE \/ WriterReceive(c) \/ WriterFlush(c) \/ WriteError(c)
          \/ WriterClosed(c) \/ WriterStop(c)
  BY <1>3 DEF WriterReceive, WriterFlush, WriteError, WriterClosed, WriterStop
<1>4. QED  BY <1>1, <1>2, <1>3 DEF WritePump

\* The receives of writePump's inner loop always find a message, although the
\* hub appends to the channel, or closes it, between the count and the receive.
THEOREM DrainIsSafe == Spec => []DrainNeverBlocks
<1>1. Init => DrainNeverBlocks
  BY DEF Init, DrainNeverBlocks
<1>2. TypeOK /\ TypeOK' /\ DrainNeverBlocks /\ [Next]_vars => DrainNeverBlocks'
  <2> SUFFICES ASSUME TypeOK, TypeOK', DrainNeverBlocks, [Next]_vars,
                      NEW c \in Client, writer'[c] = "draining"
               PROVE  drain'[c] <= Len(send'[c])
    BY DEF DrainNeverBlocks
  <2>1. CASE WritePump(c)
    BY <2>1, WriterKeepsCount
  <2>2. CASE ~WritePump(c)
    <3>1. /\ writer'[c] = writer[c] \/ writer'[c] = "idle"
          /\ drain'[c] = drain[c]
          /\ Len(send'[c]) >= Len(send[c])
      <4>1. \/ \E d \in Client : ReadPump(d)
            \/ \E d \in Client \ {c} : WritePump(d)
            \/ Run
            \/ Broadcasters
            \/ UNCHANGED vars
        BY <2>2 DEF Next
      <4>2. QED  BY <4>1, OthersKeepBuffer
    <3>2. drain[c] \in Nat /\ Len(send[c]) \in Nat /\ Len(send'[c]) \in Nat
      <4>1. drain[c] \in Nat /\ send[c] \in Seq(Message)
        BY DEF TypeOK
      <4>2. send'[c] \in Seq(Message)
        BY DEF TypeOK
      <4>3. QED  BY <4>1, <4>2
    <3>3. drain[c] <= Len(send[c])
      BY <3>1 DEF DrainNeverBlocks
    <3>4. QED  BY <3>1, <3>2, <3>3
  <2>3. QED  BY <2>1, <2>2
<1>3. QED  BY <1>1, <1>2, TypeCorrect, PTL DEF Spec
---------------------------------------------------------------------------
(* StreamHub implements StreamFanOut: under the mapping of FanOutPromise   *)
(* every step of the hub and of the pumps is a step the promise allows, or *)
(* changes nothing it speaks of.                                           *)

MarketMessage == [id : 1..MaxMsgs, kind : {"market"}, scope : Market \cup {NoMarket}]
WalletMessage == [id : 1..MaxMsgs, kind : {"wallet"}, scope : Address]

\* What the mapping relies on: the two channels carry the messages they are
\* for, and writePump has no frame open between two frames.  writePump does
\* not run before the hub has taken the client.
Delivery ==
  /\ broadcast \in Seq(MarketMessage)
  /\ walletBroadcast \in Seq(WalletMessage)
  /\ \A c \in Client :
       /\ writer[c] \in {"none", "idle"} => frame[c] = <<>>
       /\ reader[c] \in {"none", "registering", "registered"} => writer[c] = "none"

---------------------------------------------------------------------------
(* Delivery is invariant                                                   *)

\* The pumps keep it.
LEMMA PumpDelivery ==
  ASSUME TypeOK, Delivery, NEW c \in Client, ReadPump(c) \/ WritePump(c)
  PROVE  Delivery'
<1> USE DEF TypeOK, Delivery, hubVars, queueVars, sendVars, readerVars, writerVars
<1>1. UNCHANGED <<broadcast, walletBroadcast>>
  BY DEF ReadPump, ServeWS, StartPumps, ReadCommand, Subscribe, SubscribeWallet,
         ReadError, ReaderClose, WritePump, WriterReceive, WriterBegin, WriterDrain,
         WriterFlush, WriteError, WriterClosed, WriterStop
<1>2. CASE ReadPump(c)
  <2>1. CASE StartPumps(c)
    BY <1>1, <2>1 DEF StartPumps
  <2>2. CASE ~StartPumps(c)
    <3>1. UNCHANGED <<writer, frame>>
      BY <1>2, <2>2 DEF ReadPump, ServeWS, ReadCommand, Subscribe, SubscribeWallet,
                        ReadError, ReaderClose
    <3>2. /\ \A d \in Client \ {c} : reader'[d] = reader[d]
          /\ reader'[c] \in {"none", "registering", "registered"}
               => reader[c] \in {"none", "registering", "registered"}
      BY <1>2, <2>2 DEF ReadPump, ServeWS, ReadCommand, Subscribe, SubscribeWallet,
                        ReadError, ReaderClose
    <3>3. QED  BY <1>1, <3>1, <3>2
  <2>3. QED  BY <2>1, <2>2
<1>3. CASE WritePump(c)
  <2>1. UNCHANGED reader
    BY <1>3 DEF WritePump, WriterReceive, WriterBegin, WriterDrain, WriterFlush, WriteError,
                WriterClosed, WriterStop
  <2>2. writer[c] # "none"
    BY <1>3 DEF WritePump, WriterReceive, WriterBegin, WriterDrain, WriterFlush, WriteError,
                WriterClosed, WriterStop
  <2>3. \A d \in Client \ {c} : writer'[d] = writer[d] /\ frame'[d] = frame[d]
    BY <1>3 DEF WritePump, WriterReceive, WriterBegin, WriterDrain, WriterFlush, WriteError,
                WriterClosed, WriterStop
  <2>4. writer'[c] \in {"none", "idle"} => frame'[c] = <<>>
    BY <1>3, <2>2 DEF WritePump, WriterReceive, WriterBegin, WriterDrain, WriterFlush, WriteError,
                WriterClosed, WriterStop
  <2>5. QED  BY <1>1, <2>1, <2>2, <2>3, <2>4
<1>4. QED  BY <1>2, <1>3

\* The hub and the broadcasters keep it.
LEMMA HubDelivery ==
  ASSUME TypeOK, Delivery, Run \/ Broadcasters
  PROVE  Delivery'
<1> USE DEF TypeOK, Delivery, hubVars, queueVars, sendVars, readerVars, writerVars
<1>1. UNCHANGED <<writer, frame>>
  BY DEF Run, HubRegister, HubUnregister, HubSubscribe, HubSubscribeWallet, HubBroadcast,
         HubWalletBroadcast, HubStop, Broadcasters, BroadcastToMarket, BroadcastToWallet
<1>2. \A c \in Client : reader'[c] \in {"none", "registering", "registered"}
                          => reader[c] \in {"none", "registering", "registered"}
  BY DEF Run, HubRegister, HubUnregister, HubSubscribe, HubSubscribeWallet, HubBroadcast,
         HubWalletBroadcast, HubStop, Broadcasters, BroadcastToMarket, BroadcastToWallet
<1>3. broadcast' \in Seq(MarketMessage) /\ walletBroadcast' \in Seq(WalletMessage)
  <2>1. CASE HubBroadcast
    BY <2>1, HeadTail DEF HubBroadcast
  <2>2. CASE HubWalletBroadcast
    BY <2>2, HeadTail DEF HubWalletBroadcast
  <2>3. CASE \/ \E c \in Client : HubRegister(c) \/ HubUnregister(c)
             \/ HubSubscribe \/ HubSubscribeWallet \/ HubStop
    BY <2>3 DEF HubRegister, HubUnregister, HubSubscribe, HubSubscribeWallet, HubStop
  <2>4. ASSUME NEW market \in Market \cup {NoMarket}, BroadcastToMarket(market)
        PROVE  broadcast' \in Seq(MarketMessage) /\ walletBroadcast' \in Seq(WalletMessage)
    <3>1. published + 1 \in 1..MaxMsgs
      BY <2>4, BoundAssumption DEF BroadcastToMarket
    <3>2. [id |-> published + 1, kind |-> "market", scope |-> market] \in MarketMessage
      BY <3>1 DEF MarketMessage
    <3>3. QED  BY <2>4, <3>2 DEF BroadcastToMarket
  <2>5. ASSUME NEW wallet \in Address, BroadcastToWallet(wallet)
        PROVE  broadcast' \in Seq(MarketMessage) /\ walletBroadcast' \in Seq(WalletMessage)
    <3>1. published + 1 \in 1..MaxMsgs
      BY <2>5, BoundAssumption DEF BroadcastToWallet
    <3>2. [id |-> published + 1, kind |-> "wallet", scope |-> Lower[wallet]] \in WalletMessage
      BY <3>1, LowerAssumption DEF WalletMessage
    <3>3. QED  BY <2>5, <3>2 DEF BroadcastToWallet
  <2>6. QED  BY <2>1, <2>2, <2>3, <2>4, <2>5 DEF Run, Broadcasters
<1>4. QED  BY <1>1, <1>2, <1>3

\* So the two channels carry only their own kind and frames open and close in
\* turn, in every reachable state.
LEMMA DeliveryIsKept == Spec => []Delivery
<1>1. Init => Delivery
  BY DEF Init, Delivery
<1>2. TypeOK /\ Delivery /\ [Next]_vars => Delivery'
  <2> SUFFICES ASSUME TypeOK, Delivery, [Next]_vars
               PROVE  Delivery'
    OBVIOUS
  <2>1. CASE Next
    BY <2>1, PumpDelivery, HubDelivery DEF Next
  <2>2. CASE UNCHANGED vars
    BY <2>2 DEF vars, Delivery, queueVars, readerVars, writerVars
  <2>3. QED  BY <2>1, <2>2
<1>3. QED  BY <1>1, <1>2, TypeCorrect, PTL DEF Spec

---------------------------------------------------------------------------
(* What a step does to the inboxes                                         *)

\* Concatenation of message sequences is associative.
LEMMA Associative ==
  \A r, f, s \in Seq(Message) : (r \o f) \o s = r \o (f \o s)
BY ConcatAssociative

\* A sequence is its head followed by its tail.
LEMMA HeadIsFirst ==
  ASSUME NEW S, NEW s \in Seq(S), s # <<>>
  PROVE  Head(s) \in S /\ Tail(s) \in Seq(S) /\ s = <<Head(s)>> \o Tail(s)
OBVIOUS

\* A message appended to the buffer is appended to the inbox.
LEMMA AppendToInbox ==
  ASSUME NEW S, NEW e \in S, NEW r \in Seq(S), NEW f \in Seq(S), NEW s \in Seq(S)
  PROVE  (r \o f) \o Append(s, e) = Append((r \o f) \o s, e)
<1>1. r \o f \in Seq(S) /\ (r \o f) \o s \in Seq(S) /\ <<e>> \in Seq(S)
  OBVIOUS
<1>2. Append(s, e) = s \o <<e>> /\ Append((r \o f) \o s, e) = ((r \o f) \o s) \o <<e>>
  BY <1>1, AppendIsConcat
<1>3. (r \o f) \o (s \o <<e>>) = ((r \o f) \o s) \o <<e>>
  BY <1>1, ConcatAssociative
<1>4. QED  BY <1>2, <1>3

\* Moving the oldest buffered message to the end of the frame keeps an inbox.
LEMMA MoveKeepsInbox ==
  ASSUME NEW c \in Client, received[c] \in Seq(Message), frame[c] \in Seq(Message),
         send[c] \in Seq(Message), send[c] # <<>>,
         received'[c] = received[c], send'[c] = Tail(send[c]),
         frame'[c] = Append(frame[c], Head(send[c]))
  PROVE  Inbox(c)' = Inbox(c)
<1>1. PICK one \in Seq(Message) : one = <<Head(send[c])>>
  <2>1. Head(send[c]) \in Message
    BY HeadIsFirst
  <2>2. <<Head(send[c])>> \in Seq(Message)
    BY <2>1
  <2>3. QED  BY Zenon, <2>2
<1>2. send'[c] \in Seq(Message) /\ send[c] = one \o send'[c]
  BY <1>1, HeadIsFirst
<1>3. frame'[c] = frame[c] \o one /\ frame'[c] \in Seq(Message)
  BY <1>1, HeadIsFirst, AppendIsConcat
<1>4. (frame[c] \o one) \o send'[c] = frame[c] \o (one \o send'[c])
  BY <1>2, Associative
<1>5. (received[c] \o frame'[c]) \o send'[c] = received[c] \o (frame'[c] \o send'[c])
  BY Zenon, <1>2, <1>3, Associative
<1>6. (received[c] \o frame[c]) \o send[c] = received[c] \o (frame[c] \o send[c])
  BY Associative
<1>7. frame'[c] \o send'[c] = frame[c] \o send[c]
  BY Zenon, <1>2, <1>3, <1>4
<1>8. QED  BY Zenon, <1>5, <1>6, <1>7 DEF Inbox

\* writePump moves messages from the buffer to the frame to the browser: what
\* was handed out, and its order, stay the same.
LEMMA WriterKeepsInbox ==
  ASSUME TypeOK, Delivery, NEW c \in Client, WritePump(c)
  PROVE  \A d \in Client : Inbox(d)' = Inbox(d)
<1> USE DEF TypeOK, Delivery, hubVars, queueVars, sendVars, readerVars, writerVars
<1>0. received[c] \in Seq(Message) /\ frame[c] \in Seq(Message) /\ send[c] \in Seq(Message)
  OBVIOUS
<1>1. \A d \in Client \ {c} : Inbox(d)' = Inbox(d)
  BY DEF Inbox, WritePump, WriterReceive, WriterBegin, WriterDrain, WriterFlush, WriteError,
         WriterClosed, WriterStop
<1>2. Inbox(c)' = Inbox(c)
  <2>1. ASSUME send[c] # <<>>, received'[c] = received[c], send'[c] = Tail(send[c]),
               frame'[c] = Append(frame[c], Head(send[c]))
        PROVE  Inbox(c)' = Inbox(c)
    BY <1>0, <2>1, MoveKeepsInbox
  <2>2. CASE WriterReceive(c)
    <3>1. frame[c] = <<>> /\ send[c] # <<>>
      BY <2>2 DEF WriterReceive
    <3>2. received'[c] = received[c] /\ frame'[c] = <<Head(send[c])>> /\ send'[c] = Tail(send[c])
      BY <2>2 DEF WriterReceive
    <3>3. Append(frame[c], Head(send[c])) = <<Head(send[c])>>
      BY <3>1
    <3>4. QED  BY <2>1, <3>1, <3>2, <3>3
  <2>3. CASE WriterDrain(c)
    BY <2>1, <2>3 DEF WriterDrain
  <2>4. CASE WriterFlush(c)
    <3>1. received'[c] = received[c] \o frame[c] /\ frame'[c] = <<>> /\ send'[c] = send[c]
      BY <2>4 DEF WriterFlush
    <3>2. received[c] \o frame[c] \in Seq(Message)
      BY <1>0
    <3>3. (received[c] \o frame[c]) \o <<>> = received[c] \o frame[c]
      BY <3>2, ConcatEmptySeq
    <3>4. QED  BY <3>1, <3>3 DEF Inbox
  <2>5. CASE WriterBegin(c) \/ WriteError(c) \/ WriterClosed(c) \/ WriterStop(c)
    BY <2>5 DEF WriterBegin, WriteError, WriterClosed, WriterStop, Inbox
  <2>6. QED  BY <2>2, <2>3, <2>4, <2>5 DEF WritePump
<1>3. QED  BY <1>1, <1>2

\* A fan-out appends to the inboxes of the targets it does not drop.
LEMMA FanOutInbox ==
  ASSUME TypeOK, NEW targets \in SUBSET Client, NEW msg \in Message, FanOut(targets, msg),
         UNCHANGED <<received, frame>>
  PROVE  \E full \in SUBSET targets :
           /\ clients' = clients \ full
           /\ \A c \in Client :
                Inbox(c)' = IF c \in targets \ full THEN Append(Inbox(c), msg) ELSE Inbox(c)
<1> DEFINE full == {c \in targets : Len(send[c]) >= SendCap}
<1>1. clients' = clients \ full
  BY DEF FanOut
<1>2. ASSUME NEW c \in Client
      PROVE  Inbox(c)' = IF c \in targets \ full THEN Append(Inbox(c), msg) ELSE Inbox(c)
  <2>1. received[c] \in Seq(Message) /\ frame[c] \in Seq(Message) /\ send[c] \in Seq(Message)
    BY DEF TypeOK
  <2>2. send'[c] = IF c \in targets \ full THEN Append(send[c], msg) ELSE send[c]
    BY DEF FanOut
  <2>3. Inbox(c)' = received[c] \o frame[c] \o send'[c]
    BY DEF Inbox
  <2>4. ASSUME c \in targets \ full
        PROVE  Inbox(c)' = Append(Inbox(c), msg)
    <3>1. send'[c] = Append(send[c], msg)
      BY <2>2, <2>4
    <3> DEFINE r == received[c]
               f == frame[c]
               s == send[c]
    <3>2. r \in Seq(Message) /\ f \in Seq(Message) /\ s \in Seq(Message)
      BY <2>1
    <3> HIDE DEF r, f, s
    <3>3. (r \o f) \o Append(s, msg) = Append((r \o f) \o s, msg)
      BY <3>2, AppendToInbox
    <3>4. QED  BY <2>3, <3>1, <3>3 DEF Inbox, r, f, s
  <2>5. QED  BY <2>2, <2>3, <2>4 DEF Inbox
<1>3. full \in SUBSET targets
  OBVIOUS
<1> HIDE DEF full
<1>4. QED  BY <1>1, <1>2, <1>3

---------------------------------------------------------------------------
(* Every step is a step of the promise                                     *)

\* The pumps do nothing the promise speaks of.
LEMMA PumpStutters ==
  ASSUME TypeOK, Delivery, NEW c \in Client, ReadPump(c) \/ WritePump(c)
  PROVE  UNCHANGED FanOutPromise!vars
<1> USE DEF TypeOK, hubVars, queueVars, sendVars, readerVars, writerVars
<1>1. UNCHANGED <<broadcast, walletBroadcast, clients, subscriptions, walletSubs>>
  BY DEF ReadPump, ServeWS, StartPumps, ReadCommand, Subscribe, SubscribeWallet,
         ReadError, ReaderClose, WritePump, WriterReceive, WriterBegin, WriterDrain,
         WriterFlush, WriteError, WriterClosed, WriterStop
<1>2. \A d \in Client : reader'[d] \in {"none", "registering"} <=> reader[d] \in {"none", "registering"}
  BY DEF ReadPump, ServeWS, StartPumps, ReadCommand, Subscribe, SubscribeWallet,
         ReadError, ReaderClose, WritePump, WriterReceive, WriterBegin, WriterDrain,
         WriterFlush, WriteError, WriterClosed, WriterStop
<1>3. \A d \in Client : Inbox(d)' = Inbox(d)
  <2>1. CASE ReadPump(c)
    BY <2>1 DEF Inbox, ReadPump, ServeWS, StartPumps, ReadCommand, Subscribe, SubscribeWallet,
                ReadError, ReaderClose
  <2>2. CASE WritePump(c)
    BY <2>2, WriterKeepsInbox
  <2>3. QED  BY <2>1, <2>2
<1>4. QED  BY <1>1, <1>2, <1>3 DEF FanOutPromise!vars

\* A broadcaster's channel send publishes.
LEMMA BroadcastersPublish ==
  ASSUME TypeOK, Broadcasters
  PROVE  FanOutPromise!Next
<1>1. UNCHANGED <<clients, subscriptions, walletSubs, reader, received, frame, send>>
  BY DEF Broadcasters, BroadcastToMarket, BroadcastToWallet, hubVars, sendVars, readerVars, writerVars
<1>2. \A c \in Client : Inbox(c)' = Inbox(c)
  BY <1>1 DEF Inbox
<1>3. published < MaxMsgs /\ published \in Nat /\ MaxMsgs \in Nat
  <2>1. published < MaxMsgs
    BY DEF Broadcasters, BroadcastToMarket, BroadcastToWallet
  <2>2. published \in 0..MaxMsgs
    BY DEF TypeOK
  <2>3. QED  BY <2>1, <2>2, BoundAssumption
<1>4. PICK id \in 1..MaxMsgs : id = published + 1
  BY <1>3
<1>5. ASSUME NEW market \in Market \cup {NoMarket}, BroadcastToMarket(market)
      PROVE  FanOutPromise!Publish([id |-> id, kind |-> "market", scope |-> market])
  <2> DEFINE msg == [id |-> id, kind |-> "market", scope |-> market]
  <2>1. msg.kind = "market"
    OBVIOUS
  <2>2. broadcast' = Append(broadcast, msg) /\ UNCHANGED walletBroadcast
    BY <1>4, <1>5 DEF BroadcastToMarket
  <2> HIDE DEF msg
  <2>b. [c \in Client |-> Inbox(c)'] = [c \in Client |-> Inbox(c)]
    BY <1>2
  <2>3. FanOutPromise!Publish(msg)
    BY <1>1, <2>1, <2>2, <2>b DEF FanOutPromise!Publish
  <2>4. QED  BY <2>3 DEF msg
<1>6. ASSUME NEW wallet \in Address, BroadcastToWallet(wallet)
      PROVE  FanOutPromise!Publish([id |-> id, kind |-> "wallet", scope |-> Lower[wallet]])
  <2> DEFINE msg == [id |-> id, kind |-> "wallet", scope |-> Lower[wallet]]
  <2>1. msg.kind = "wallet"
    OBVIOUS
  <2>2. walletBroadcast' = Append(walletBroadcast, msg) /\ UNCHANGED broadcast
    BY <1>4, <1>6 DEF BroadcastToWallet
  <2> HIDE DEF msg
  <2>b. [c \in Client |-> Inbox(c)'] = [c \in Client |-> Inbox(c)]
    BY <1>2
  <2>3. FanOutPromise!Publish(msg)
    BY <1>1, <2>1, <2>2, <2>b DEF FanOutPromise!Publish
  <2>4. QED  BY <2>3 DEF msg
<1>7. CASE \E market \in Market \cup {NoMarket} : BroadcastToMarket(market)
  <2>1. \E market \in Market \cup {NoMarket} :
          FanOutPromise!Publish([id |-> id, kind |-> "market", scope |-> market])
    BY Zenon, <1>5, <1>7
  <2>2. QED  BY Zenon, <2>1 DEF FanOutPromise!Next
<1>8. CASE \E wallet \in Address : BroadcastToWallet(wallet)
  <2>1. \E wallet \in Address :
          FanOutPromise!Publish([id |-> id, kind |-> "wallet", scope |-> Lower[wallet]])
    BY Zenon, <1>6, <1>8
  <2>2. QED  BY Zenon, <2>1 DEF FanOutPromise!Next
<1>9. QED  BY <1>7, <1>8 DEF Broadcasters

\* A case of the hub's select joins, drops, filters or delivers.
LEMMA HubKeepsPromise ==
  ASSUME TypeOK, Delivery, Run
  PROVE  FanOutPromise!Next \/ UNCHANGED FanOutPromise!vars
<1> USE DEF TypeOK, hubVars, queueVars, sendVars, readerVars, writerVars
<1>1. ASSUME NEW c \in Client, HubRegister(c)
      PROVE  FanOutPromise!Join(c)
  <2>1. \A d \in Client : Inbox(d)' = Inbox(d)
    BY <1>1 DEF HubRegister, Inbox
  <2>2. QED  BY <1>1, <2>1 DEF HubRegister, FanOutPromise!Join
<1>2. ASSUME NEW c \in Client, HubUnregister(c)
      PROVE  FanOutPromise!Leave(c) \/ UNCHANGED FanOutPromise!vars
  <2>1. \A d \in Client : Inbox(d)' = Inbox(d)
    BY <1>2 DEF HubUnregister, Inbox
  <2>2. \A d \in Client : reader'[d] \in {"none", "registering"} <=> reader[d] \in {"none", "registering"}
    BY <1>2 DEF HubUnregister
  <2>3. CASE c \in clients
    BY <1>2, <2>1, <2>2, <2>3 DEF HubUnregister, Known, FanOutPromise!Leave
  <2>4. CASE c \notin clients
    BY <1>2, <2>1, <2>2, <2>4 DEF HubUnregister, Known, FanOutPromise!vars
  <2>5. QED  BY <2>3, <2>4
<1>3. CASE HubSubscribe
  <2> DEFINE sub == Head(subscribe)
             markets == sub.names \ {NoMarket}
  <2>1. sub \in QueuedCommand
    BY <1>3, HeadTail DEF HubSubscribe
  <2>2. sub.client \in Client /\ markets \in SUBSET Market
    BY <2>1 DEF QueuedCommand
  <2>3. \A d \in Client : Inbox(d)' = Inbox(d)
    BY <1>3 DEF HubSubscribe, Inbox
  <2>4. CASE sub.client \in clients
    <3>1. FanOutPromise!SetMarkets(sub.client, markets)
      BY <1>3, <2>3, <2>4 DEF HubSubscribe, MarketNames, FanOutPromise!SetMarkets
    <3>2. QED  BY <2>2, <3>1 DEF FanOutPromise!Next
  <2>5. CASE sub.client \notin clients
    BY <1>3, <2>3, <2>5 DEF HubSubscribe, FanOutPromise!vars
  <2>6. QED  BY <2>4, <2>5
<1>4. CASE HubSubscribeWallet
  <2> DEFINE sub == Head(subscribeWallet)
  <2>1. sub \in QueuedWalletCommand
    BY <1>4, HeadTail DEF HubSubscribeWallet
  <2>2. sub.client \in Client /\ sub.names \ {NoWallet} \in SUBSET Address
    BY <2>1 DEF QueuedWalletCommand
  <2>3. \A d \in Client : Inbox(d)' = Inbox(d)
    BY <1>4 DEF HubSubscribeWallet, Inbox
  <2>4. CASE sub.client \in clients
    <3>1. FanOutPromise!SetWallets(sub.client, sub.names \ {NoWallet})
      BY <1>4, <2>3, <2>4 DEF HubSubscribeWallet, WalletNames, FanOutPromise!SetWallets
    <3>2. QED  BY <2>2, <3>1 DEF FanOutPromise!Next
  <2>5. CASE sub.client \notin clients
    BY <1>4, <2>3, <2>5 DEF HubSubscribeWallet, FanOutPromise!vars
  <2>6. QED  BY <2>4, <2>5
<1>5. CASE HubBroadcast
  <2> DEFINE msg == Head(broadcast)
             owed == {c \in clients : WantsMarket(c, msg.scope)}
  <2>1. broadcast # <<>> /\ msg \in MarketMessage /\ msg \in Message
    BY <1>5, HeadTail DEF HubBroadcast, Delivery, MarketMessage, Message
  <2>2. FanOut(owed, msg) /\ UNCHANGED <<received, frame>>
    BY <1>5 DEF HubBroadcast
  <2>3. \A c : FanOutPromise!Admits(c, msg) <=> WantsMarket(c, msg.scope)
    BY <2>1 DEF MarketMessage, FanOutPromise!Admits, WantsMarket
  <2>4. PICK full \in SUBSET owed :
           /\ clients' = clients \ full
           /\ \A c \in Client :
                Inbox(c)' = IF c \in owed \ full THEN Append(Inbox(c), msg) ELSE Inbox(c)
    BY <2>1, <2>2, FanOutInbox
  <2>a. /\ broadcast' = Tail(broadcast) /\ UNCHANGED walletBroadcast
        /\ UNCHANGED <<subscriptions, walletSubs, reader>>
    BY <1>5 DEF HubBroadcast
  <2>b. full \subseteq owed /\ owed = {c \in clients : FanOutPromise!Admits(c, msg)}
    BY <2>3
  <2> HIDE DEF owed
  <2>5. FanOutPromise!Deliver("market", full)
    BY <2>1, <2>4, <2>a, <2>b DEF FanOutPromise!Deliver
  <2>6. full \in SUBSET clients
    BY <2>4 DEF owed
  <2>7. QED  BY <2>5, <2>6 DEF FanOutPromise!Next
<1>6. CASE HubWalletBroadcast
  <2> DEFINE msg == Head(walletBroadcast)
             owed == {c \in clients : msg.scope \in walletSubs[c]}
  <2>1. walletBroadcast # <<>> /\ msg \in WalletMessage /\ msg \in Message
    BY <1>6, HeadTail DEF HubWalletBroadcast, Delivery, WalletMessage, Message
  <2>2. FanOut(owed, msg) /\ UNCHANGED <<received, frame>>
    BY <1>6 DEF HubWalletBroadcast
  <2>3. \A c : FanOutPromise!Admits(c, msg) <=> msg.scope \in walletSubs[c]
    BY <2>1 DEF WalletMessage, FanOutPromise!Admits
  <2>4. PICK full \in SUBSET owed :
           /\ clients' = clients \ full
           /\ \A c \in Client :
                Inbox(c)' = IF c \in owed \ full THEN Append(Inbox(c), msg) ELSE Inbox(c)
    BY <2>1, <2>2, FanOutInbox
  <2>a. /\ walletBroadcast' = Tail(walletBroadcast) /\ UNCHANGED broadcast
        /\ UNCHANGED <<subscriptions, walletSubs, reader>>
    BY <1>6 DEF HubWalletBroadcast
  <2>b. full \subseteq owed /\ owed = {c \in clients : FanOutPromise!Admits(c, msg)}
    BY <2>3
  <2> HIDE DEF owed
  <2>5. FanOutPromise!Deliver("wallet", full)
    BY <2>1, <2>4, <2>a, <2>b DEF FanOutPromise!Deliver
  <2>6. full \in SUBSET clients
    BY <2>4 DEF owed
  <2>7. QED  BY <2>5, <2>6 DEF FanOutPromise!Next
<1>7. CASE HubStop
  <2>1. \A d \in Client : Inbox(d)' = Inbox(d)
    BY <1>7 DEF HubStop, Inbox
  <2>2. QED  BY <1>7, <2>1 DEF HubStop, FanOutPromise!vars
<1>8. QED
  BY <1>1, <1>2, <1>3, <1>4, <1>5, <1>6, <1>7 DEF Run, FanOutPromise!Next

\* The hub keeps its promise: each message reaches, in its turn, every
\* registered client whose filters admit it, or the client is dropped.
THEOREM PromiseIsKept == Spec => ImplementsFanOut
<1>1. Init => FanOutPromise!Init
  BY DEF Init, FanOutPromise!Init, Inbox
<1>2. TypeOK /\ Delivery /\ [Next]_vars => [FanOutPromise!Next]_FanOutPromise!vars
  <2> SUFFICES ASSUME TypeOK, Delivery, [Next]_vars
               PROVE  FanOutPromise!Next \/ UNCHANGED FanOutPromise!vars
    OBVIOUS
  <2>1. CASE Next
    BY <2>1, PumpStutters, BroadcastersPublish, HubKeepsPromise DEF Next
  <2>2. CASE UNCHANGED vars
    BY <2>2 DEF vars, hubVars, queueVars, sendVars, readerVars, writerVars,
                FanOutPromise!vars, Inbox
  <2>3. QED  BY <2>1, <2>2
<1>3. QED
  BY <1>1, <1>2, TypeCorrect, DeliveryIsKept, PTL DEF Spec, ImplementsFanOut, FanOutPromise!Spec

---------------------------------------------------------------------------
(* Publication order                                                       *)

\* The messages of a hub channel, oldest first, have rising ids.
Rising(q) == \A i, j \in DOMAIN q : i < j => q[i].id < q[j].id

\* Nothing in q has an id above n.
UpTo(q, n) == \A i \in DOMAIN q : q[i].id <= n

\* Messages of one kind appear in s in the order of their ids.
OrderedPerKind(s) ==
  \A i, j \in DOMAIN s : i < j /\ s[i].kind = s[j].kind => s[i].id < s[j].id

\* What of a kind is still in the hub channel q is newer than all of it in s.
NewerThan(q, s, kind) ==
  \A i \in DOMAIN s, j \in DOMAIN q : s[i].kind = kind => s[i].id < q[j].id

\* The order of publication, from the counter through the two hub channels to
\* the inboxes: an inbox alone would not say that what comes next is newer.
OrderInv ==
  /\ Rising(broadcast) /\ UpTo(broadcast, published)
  /\ Rising(walletBroadcast) /\ UpTo(walletBroadcast, published)
  /\ \A c \in Client :
       /\ OrderedPerKind(Inbox(c))
       /\ UpTo(Inbox(c), published)
       /\ NewerThan(broadcast, Inbox(c), "market")
       /\ NewerThan(walletBroadcast, Inbox(c), "wallet")
\* Ids are natural numbers.
LEMMA IdIsNat ==
  ASSUME NEW s \in Seq(Message), NEW i \in DOMAIN s
  PROVE  s[i] \in Message /\ s[i].id \in Nat
<1>1. s[i] \in Message
  OBVIOUS
<1>2. QED  BY <1>1, BoundAssumption DEF Message

\* The elements of a tail, and of a sequence with one more at its end.
LEMMA TailElements ==
  ASSUME NEW S, NEW q \in Seq(S), q # <<>>, NEW i \in DOMAIN Tail(q)
  PROVE  i + 1 \in DOMAIN q /\ Tail(q)[i] = q[i + 1] /\ i \in Nat /\ i >= 1
OBVIOUS

LEMMA AppendElements ==
  ASSUME NEW S, NEW s \in Seq(S), NEW e \in S, NEW i \in DOMAIN Append(s, e)
  PROVE  /\ i \in Nat /\ i <= Len(s) + 1
         /\ \/ i \in DOMAIN s /\ Append(s, e)[i] = s[i]
            \/ i = Len(s) + 1 /\ Append(s, e)[i] = e
OBVIOUS

\* Taking the oldest message of a channel leaves newer ones.
LEMMA TakeOldest ==
  ASSUME NEW q \in Seq(Message), q # <<>>, NEW n \in Nat, Rising(q), UpTo(q, n)
  PROVE  /\ Rising(Tail(q)) /\ UpTo(Tail(q), n)
         /\ \A j \in DOMAIN Tail(q) : Head(q).id < Tail(q)[j].id
         /\ Head(q) \in Message /\ Head(q).id <= n
<1>1. Head(q) = q[1] /\ 1 \in DOMAIN q /\ \A i \in DOMAIN q : i \in Nat
  OBVIOUS
<1>2. \A i \in DOMAIN Tail(q) : i + 1 \in DOMAIN q /\ Tail(q)[i] = q[i + 1] /\ i \in Nat /\ i >= 1
  BY TailElements
<1>3. UpTo(Tail(q), n) /\ Head(q).id <= n
  BY <1>1, <1>2 DEF UpTo
<1>4. \A j \in DOMAIN Tail(q) : Head(q).id < Tail(q)[j].id
  BY <1>1, <1>2 DEF Rising
<1>5. Rising(Tail(q))
  <2>1. ASSUME NEW i \in DOMAIN Tail(q), NEW j \in DOMAIN Tail(q), i < j
        PROVE  Tail(q)[i].id < Tail(q)[j].id
    <3>1. i + 1 < j + 1
      BY <1>2, <2>1
    <3>2. QED  BY <1>2, <3>1 DEF Rising
  <2>2. QED  BY <2>1 DEF Rising
<1>6. QED  BY <1>1, <1>3, <1>4, <1>5, IdIsNat

\* A message with the next id goes to the end of a channel in order.
LEMMA PublishNewest ==
  ASSUME NEW q \in Seq(Message), NEW n \in Nat, NEW msg \in Message, msg.id = n + 1,
         Rising(q), UpTo(q, n)
  PROVE  Rising(Append(q, msg)) /\ UpTo(Append(q, msg), n + 1)
<1>1. \A i \in DOMAIN Append(q, msg) :
        /\ i \in Nat /\ i <= Len(q) + 1
        /\ \/ i \in DOMAIN q /\ Append(q, msg)[i] = q[i]
           \/ i = Len(q) + 1 /\ Append(q, msg)[i] = msg
  BY AppendElements
<1>2. \A i \in DOMAIN q : q[i].id \in Nat /\ q[i].id <= n /\ i \in Nat /\ i <= Len(q)
  BY IdIsNat DEF UpTo
<1>3. UpTo(Append(q, msg), n + 1)
  BY <1>1, <1>2 DEF UpTo
<1>4. ASSUME NEW i \in DOMAIN Append(q, msg), NEW j \in DOMAIN Append(q, msg), i < j
      PROVE  Append(q, msg)[i].id < Append(q, msg)[j].id
  <2>1. i \in DOMAIN q /\ Append(q, msg)[i] = q[i]
    BY <1>1, <1>4
  <2>2. CASE j \in DOMAIN q /\ Append(q, msg)[j] = q[j]
    BY <1>4, <2>1, <2>2 DEF Rising
  <2>3. CASE j = Len(q) + 1 /\ Append(q, msg)[j] = msg
    BY <1>2, <2>1, <2>3
  <2>4. QED  BY <1>1, <2>2, <2>3
<1>5. QED  BY <1>3, <1>4 DEF Rising

\* The oldest message of a channel may join an inbox that it is newer than.
LEMMA DeliverOldest ==
  ASSUME NEW q \in Seq(Message), q # <<>>, NEW n \in Nat, Rising(q), UpTo(q, n),
         NEW s \in Seq(Message), OrderedPerKind(s), UpTo(s, n), NewerThan(q, s, Head(q).kind)
  PROVE  /\ OrderedPerKind(Append(s, Head(q))) /\ UpTo(Append(s, Head(q)), n)
         /\ NewerThan(Tail(q), Append(s, Head(q)), Head(q).kind)
         /\ NewerThan(Tail(q), s, Head(q).kind)
<1> DEFINE e == Head(q)
           t == Append(s, e)
<1>1. e \in Message /\ e.id <= n /\ \A j \in DOMAIN Tail(q) : e.id < Tail(q)[j].id
  BY TakeOldest
<1>2. \A i \in DOMAIN s : s[i].kind = e.kind => s[i].id < e.id
  <2>1. e = q[1] /\ 1 \in DOMAIN q
    OBVIOUS
  <2>2. QED  BY <2>1 DEF NewerThan
<1>3. NewerThan(Tail(q), s, e.kind)
  <2>1. \A j \in DOMAIN Tail(q) : j + 1 \in DOMAIN q /\ Tail(q)[j] = q[j + 1]
    BY TailElements
  <2>2. QED  BY <2>1 DEF NewerThan
<1> HIDE DEF e
<1>4. \A i \in DOMAIN t :
        /\ i \in Nat /\ i <= Len(s) + 1
        /\ \/ i \in DOMAIN s /\ t[i] = s[i]
           \/ i = Len(s) + 1 /\ t[i] = e
  BY <1>1, AppendElements
<1>5. \A i \in DOMAIN s : i <= Len(s)
  OBVIOUS
<1> HIDE DEF t
<1>6. UpTo(t, n)
  BY <1>1, <1>4 DEF UpTo
<1>7. NewerThan(Tail(q), t, e.kind)
  BY <1>1, <1>3, <1>4 DEF NewerThan
<1>8. ASSUME NEW i \in DOMAIN t, NEW j \in DOMAIN t, i < j, t[i].kind = t[j].kind
      PROVE  t[i].id < t[j].id
  <2>0. Len(s) \in Nat
    OBVIOUS
  <2>1. i \in DOMAIN s /\ t[i] = s[i]
    BY <1>4, <1>8, <2>0
  <2>2. CASE j \in DOMAIN s /\ t[j] = s[j]
    BY <1>8, <2>1, <2>2 DEF OrderedPerKind
  <2>3. CASE t[j] = e
    BY <1>2, <1>8, <2>1, <2>3
  <2>4. QED  BY <1>4, <2>2, <2>3
<1>9. OrderedPerKind(t)
  BY <1>8 DEF OrderedPerKind
<1>10. QED  BY <1>3, <1>6, <1>7, <1>9 DEF e, t

\* ... and messages of the other kind do not notice.
LEMMA DeliverBeside ==
  ASSUME NEW q, NEW s \in Seq(Message), NEW e \in Message, NEW kind, e.kind # kind,
         NewerThan(q, s, kind)
  PROVE  NewerThan(q, Append(s, e), kind)
<1>1. \A i \in DOMAIN Append(s, e) :
        \/ i \in DOMAIN s /\ Append(s, e)[i] = s[i]
        \/ Append(s, e)[i] = e
  BY AppendElements
<1>2. QED  BY <1>1 DEF NewerThan

\* An inbox is a sequence of messages.
LEMMA InboxType ==
  ASSUME TypeOK, NEW c \in Client
  PROVE  Inbox(c) \in Seq(Message)
<1>1. received[c] \in Seq(Message) /\ frame[c] \in Seq(Message) /\ send[c] \in Seq(Message)
  BY DEF TypeOK
<1>2. QED  BY <1>1 DEF Inbox

\* A fan-out of the oldest message of one channel, to anybody, keeps each
\* inbox in order with respect to both channels.
LEMMA FanOutOrder ==
  ASSUME TypeOK, NEW q \in Seq(Message), q # <<>>, Rising(q), UpTo(q, published),
         NEW other, NEW otherKind, Head(q).kind # otherKind,
         NEW targets \in SUBSET Client, FanOut(targets, Head(q)),
         UNCHANGED <<received, frame, published>>, NEW c \in Client,
         OrderedPerKind(Inbox(c)), UpTo(Inbox(c), published),
         NewerThan(q, Inbox(c), Head(q).kind), NewerThan(other, Inbox(c), otherKind)
  PROVE  /\ OrderedPerKind(Inbox(c)') /\ UpTo(Inbox(c)', published')
         /\ NewerThan(Tail(q), Inbox(c)', Head(q).kind)
         /\ NewerThan(other, Inbox(c)', otherKind)
<1> DEFINE s == Inbox(c)
<1>1. Head(q) \in Message /\ s \in Seq(Message) /\ published \in Nat
  BY HeadTail, InboxType, BoundAssumption DEF TypeOK
<1>2. Inbox(c)' = Append(s, Head(q)) \/ Inbox(c)' = s
  BY <1>1, FanOutInbox
<1> HIDE DEF s
<1>3. OrderedPerKind(s) /\ UpTo(s, published) /\ NewerThan(q, s, Head(q).kind)
      /\ NewerThan(other, s, otherKind)
  BY DEF s
<1>4. /\ OrderedPerKind(Append(s, Head(q))) /\ UpTo(Append(s, Head(q)), published)
      /\ NewerThan(Tail(q), Append(s, Head(q)), Head(q).kind)
      /\ NewerThan(Tail(q), s, Head(q).kind)
  BY <1>1, <1>3, DeliverOldest
<1>5. NewerThan(other, Append(s, Head(q)), otherKind)
  BY <1>1, <1>3, DeliverBeside
<1>6. published' = published
  OBVIOUS
<1>7. QED  BY <1>2, <1>3, <1>4, <1>5, <1>6
\* The pumps, and a hub case that fans nothing out, leave all of it alone.
LEMMA OrderFrame ==
  ASSUME OrderInv, UNCHANGED <<broadcast, walletBroadcast, published>>,
         \A c \in Client : Inbox(c)' = Inbox(c)
  PROVE  OrderInv'
BY DEF OrderInv

\* A broadcaster gives its message the next id, which no inbox holds yet.
LEMMA BroadcastersOrder ==
  ASSUME TypeOK, OrderInv, Broadcasters
  PROVE  OrderInv'
<1>1. UNCHANGED <<received, frame, send>> /\ published' = published + 1 /\ published < MaxMsgs
  BY DEF Broadcasters, BroadcastToMarket, BroadcastToWallet, sendVars, writerVars
<1>2. published \in Nat /\ published + 1 \in 1..MaxMsgs
  BY <1>1, BoundAssumption DEF TypeOK
<1>3. \A q \in Seq(Message) : UpTo(q, published) => UpTo(q, published')
  <2> SUFFICES ASSUME NEW q \in Seq(Message), UpTo(q, published), NEW i \in DOMAIN q
               PROVE  q[i].id <= published'
    BY DEF UpTo
  <2>1. q[i].id \in Nat /\ q[i].id <= published
    BY IdIsNat DEF UpTo
  <2>2. QED  BY <1>1, <1>2, <2>1
<1>4. \A c \in Client : Inbox(c)' = Inbox(c) /\ Inbox(c) \in Seq(Message)
  BY <1>1, InboxType DEF Inbox
<1>5. ASSUME NEW s \in Seq(Message), UpTo(s, published), NEW q \in Seq(Message),
             NEW kind, NewerThan(q, s, kind), NEW msg \in Message, msg.id = published + 1
      PROVE  NewerThan(Append(q, msg), s, kind)
  <2>1. \A j \in DOMAIN Append(q, msg) :
          \/ j \in DOMAIN q /\ Append(q, msg)[j] = q[j]
          \/ Append(q, msg)[j] = msg
    BY AppendElements
  <2>2. \A i \in DOMAIN s : s[i].id \in Nat /\ s[i].id <= published
    BY <1>5, IdIsNat DEF UpTo
  <2>3. \A i \in DOMAIN s : s[i].id < msg.id
    BY <1>2, <1>5, <2>2
  <2>4. QED  BY <1>5, <2>1, <2>3 DEF NewerThan
<1>6. broadcast \in Seq(Message) /\ walletBroadcast \in Seq(Message)
  BY DEF TypeOK
<1>7. ASSUME NEW market \in Market \cup {NoMarket}, BroadcastToMarket(market)
      PROVE  OrderInv'
  <2>1. PICK msg \in Message : msg.id = published + 1 /\ broadcast' = Append(broadcast, msg)
    <3>1. [id |-> published + 1, kind |-> "market", scope |-> market] \in Message
      BY <1>2 DEF Message
    <3>2. QED  BY <1>7, <3>1 DEF BroadcastToMarket
  <2>2. walletBroadcast' = walletBroadcast
    BY <1>7 DEF BroadcastToMarket
  <2>3. Rising(broadcast') /\ UpTo(broadcast', published')
    BY <1>1, <1>2, <1>6, <2>1, PublishNewest DEF OrderInv
  <2>4. Rising(walletBroadcast') /\ UpTo(walletBroadcast', published')
    BY <1>3, <1>6, <2>2 DEF OrderInv
  <2>5. ASSUME NEW c \in Client
        PROVE  /\ OrderedPerKind(Inbox(c)') /\ UpTo(Inbox(c)', published')
               /\ NewerThan(broadcast', Inbox(c)', "market")
               /\ NewerThan(walletBroadcast', Inbox(c)', "wallet")
    BY <1>3, <1>4, <1>5, <1>6, <2>1, <2>2 DEF OrderInv
  <2>6. QED  BY <2>3, <2>4, <2>5 DEF OrderInv
<1>8. ASSUME NEW wallet \in Address, BroadcastToWallet(wallet)
      PROVE  OrderInv'
  <2>1. PICK msg \in Message :
          msg.id = published + 1 /\ walletBroadcast' = Append(walletBroadcast, msg)
    <3>1. [id |-> published + 1, kind |-> "wallet", scope |-> Lower[wallet]] \in Message
      BY <1>2, LowerAssumption DEF Message
    <3>2. QED  BY <1>8, <3>1 DEF BroadcastToWallet
  <2>2. broadcast' = broadcast
    BY <1>8 DEF BroadcastToWallet
  <2>3. Rising(walletBroadcast') /\ UpTo(walletBroadcast', published')
    BY <1>1, <1>2, <1>6, <2>1, PublishNewest DEF OrderInv
  <2>4. Rising(broadcast') /\ UpTo(broadcast', published')
    BY <1>3, <1>6, <2>2 DEF OrderInv
  <2>5. ASSUME NEW c \in Client
        PROVE  /\ OrderedPerKind(Inbox(c)') /\ UpTo(Inbox(c)', published')
               /\ NewerThan(broadcast', Inbox(c)', "market")
               /\ NewerThan(walletBroadcast', Inbox(c)', "wallet")
    BY <1>3, <1>4, <1>5, <1>6, <2>1, <2>2 DEF OrderInv
  <2>6. QED  BY <2>3, <2>4, <2>5 DEF OrderInv
<1>9. QED  BY <1>7, <1>8 DEF Broadcasters

\* The hub delivers the oldest message of a channel before the next one.
LEMMA HubOrder ==
  ASSUME TypeOK, Delivery, OrderInv, Run
  PROVE  OrderInv'
<1> USE DEF queueVars, sendVars, readerVars, writerVars
<1>1. broadcast \in Seq(Message) /\ walletBroadcast \in Seq(Message) /\ published \in Nat
  BY BoundAssumption DEF TypeOK
<1>2. CASE HubBroadcast
  <2>1. broadcast # <<>> /\ UNCHANGED <<walletBroadcast, published, received, frame>>
        /\ broadcast' = Tail(broadcast)
    BY <1>2 DEF HubBroadcast
  <2>2. PICK targets \in SUBSET Client : FanOut(targets, Head(broadcast))
    BY <1>2 DEF HubBroadcast, TypeOK
  <2>3. Head(broadcast).kind = "market"
    <3>1. Head(broadcast) \in MarketMessage
      BY <2>1, HeadTail DEF Delivery
    <3>2. QED  BY <3>1 DEF MarketMessage
  <2>4. Rising(broadcast') /\ UpTo(broadcast', published')
    BY <1>1, <2>1, TakeOldest DEF OrderInv
  <2>5. ASSUME NEW c \in Client
        PROVE  /\ OrderedPerKind(Inbox(c)') /\ UpTo(Inbox(c)', published')
               /\ NewerThan(broadcast', Inbox(c)', "market")
               /\ NewerThan(walletBroadcast, Inbox(c)', "wallet")
    <3>1. /\ Rising(broadcast) /\ UpTo(broadcast, published)
          /\ OrderedPerKind(Inbox(c)) /\ UpTo(Inbox(c), published)
          /\ NewerThan(broadcast, Inbox(c), Head(broadcast).kind)
          /\ NewerThan(walletBroadcast, Inbox(c), "wallet")
      BY <2>3 DEF OrderInv
    <3>2. Head(broadcast).kind # "wallet"
      BY <2>3
    <3>3. QED  BY <1>1, <2>1, <2>2, <2>3, <3>1, <3>2, FanOutOrder
  <2>6. QED  BY <2>1, <2>4, <2>5 DEF OrderInv
<1>3. CASE HubWalletBroadcast
  <2>1. walletBroadcast # <<>> /\ UNCHANGED <<broadcast, published, received, frame>>
        /\ walletBroadcast' = Tail(walletBroadcast)
    BY <1>3 DEF HubWalletBroadcast
  <2>2. PICK targets \in SUBSET Client : FanOut(targets, Head(walletBroadcast))
    BY <1>3 DEF HubWalletBroadcast, TypeOK
  <2>3. Head(walletBroadcast).kind = "wallet"
    <3>1. Head(walletBroadcast) \in WalletMessage
      BY <2>1, HeadTail DEF Delivery
    <3>2. QED  BY <3>1 DEF WalletMessage
  <2>4. Rising(walletBroadcast') /\ UpTo(walletBroadcast', published')
    BY <1>1, <2>1, TakeOldest DEF OrderInv
  <2>5. ASSUME NEW c \in Client
        PROVE  /\ OrderedPerKind(Inbox(c)') /\ UpTo(Inbox(c)', published')
               /\ NewerThan(walletBroadcast', Inbox(c)', "wallet")
               /\ NewerThan(broadcast, Inbox(c)', "market")
    <3>1. /\ Rising(walletBroadcast) /\ UpTo(walletBroadcast, published)
          /\ OrderedPerKind(Inbox(c)) /\ UpTo(Inbox(c), published)
          /\ NewerThan(walletBroadcast, Inbox(c), Head(walletBroadcast).kind)
          /\ NewerThan(broadcast, Inbox(c), "market")
      BY <2>3 DEF OrderInv
    <3>2. Head(walletBroadcast).kind # "market"
      BY <2>3
    <3>3. QED  BY <1>1, <2>1, <2>2, <2>3, <3>1, <3>2, FanOutOrder
  <2>6. QED  BY <2>1, <2>4, <2>5 DEF OrderInv
<1>4. CASE \/ \E c \in Client : HubRegister(c) \/ HubUnregister(c)
          \/ HubSubscribe \/ HubSubscribeWallet \/ HubStop
  <2>1. UNCHANGED <<broadcast, walletBroadcast, published, received, frame, send>>
    BY <1>4 DEF HubRegister, HubUnregister, HubSubscribe, HubSubscribeWallet, HubStop
  <2>2. \A c \in Client : Inbox(c)' = Inbox(c)
    BY <2>1 DEF Inbox
  <2>3. QED  BY <2>1, <2>2, OrderFrame
<1>5. QED  BY <1>2, <1>3, <1>4 DEF Run

\* The pumps keep the inboxes, and with them the order.
LEMMA PumpOrder ==
  ASSUME TypeOK, Delivery, OrderInv, NEW c \in Client, ReadPump(c) \/ WritePump(c)
  PROVE  OrderInv'
<1> USE DEF queueVars, sendVars, readerVars, writerVars
<1>1. UNCHANGED <<broadcast, walletBroadcast, published>>
  BY DEF ReadPump, ServeWS, StartPumps, ReadCommand, Subscribe, SubscribeWallet,
         ReadError, ReaderClose, WritePump, WriterReceive, WriterBegin, WriterDrain,
         WriterFlush, WriteError, WriterClosed, WriterStop
<1>2. \A d \in Client : Inbox(d)' = Inbox(d)
  <2>1. CASE ReadPump(c)
    BY <2>1 DEF Inbox, ReadPump, ServeWS, StartPumps, ReadCommand, Subscribe, SubscribeWallet,
                ReadError, ReaderClose
  <2>2. CASE WritePump(c)
    BY <2>2, WriterKeepsInbox
  <2>3. QED  BY <2>1, <2>2
<1>3. QED  BY <1>1, <1>2, OrderFrame

\* No client sees two messages of one hub channel out of the order in which
\* they were published, nor one twice: not across the channel's buffer, the
\* client's buffer, and the frames writePump coalesces messages into.
THEOREM OrderIsKept == Spec => []PublicationOrder
<1>1. Init => OrderInv
  BY DEF Init, OrderInv, Inbox, Rising, UpTo, OrderedPerKind, NewerThan
<1>2. TypeOK /\ Delivery /\ OrderInv /\ [Next]_vars => OrderInv'
  <2> SUFFICES ASSUME TypeOK, Delivery, OrderInv, [Next]_vars
               PROVE  OrderInv'
    OBVIOUS
  <2>1. CASE Next
    BY <2>1, PumpOrder, HubOrder, BroadcastersOrder DEF Next
  <2>2. CASE UNCHANGED vars
    BY <2>2, OrderFrame DEF vars, queueVars, sendVars, writerVars, Inbox
  <2>3. QED  BY <2>1, <2>2
<1>3. OrderInv => PublicationOrder
  BY DEF OrderInv, OrderedPerKind, PublicationOrder
<1>4. QED  BY <1>1, <1>2, <1>3, TypeCorrect, DeliveryIsKept, PTL DEF Spec
=============================================================================
