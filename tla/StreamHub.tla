----------------------------- MODULE StreamHub -----------------------------
(***************************************************************************)
(* The WebSocket fan-out of the API service: services/api/ws.              *)
(*                                                                         *)
(* One hub goroutine (Hub.Run) owns the client map and every filter.  Each *)
(* connection has two goroutines, readPump and writePump, started only     *)
(* after ServeWS has handed the client to the hub.  Kafka broadcasters     *)
(* push into two bounded channels; a Client value is one connection and is *)
(* never reused, so a reconnecting browser is another element of Client.   *)
(*                                                                         *)
(* An iteration of the hub's select is one action: while it fans a message *)
(* out only the writePumps touch the channels it sends to, each its own,   *)
(* so the order in which the loop visits the clients cannot be observed.   *)
(***************************************************************************)
EXTENDS Naturals, Sequences

CONSTANTS
  Client,        \* connections (values of *Client)
  Market,        \* market ids
  NoMarket,      \* the empty market id: a message for everyone
  Address,       \* wallet addresses as written by browsers and events
  Lower,         \* strings.ToLower on Address
  NoWallet,      \* the empty wallet address
  MarketLists,   \* the lists of market ids, as sets, that browsers ask for
  WalletLists,   \* the lists of wallet addresses, as sets, that they ask for
  SendCap,       \* capacity of Client.send (256 in the code)
  BroadcastCap,  \* capacity of Hub.broadcast (1024)
  WalletCap,     \* capacity of Hub.walletBroadcast (256)
  SubscribeCap,  \* capacity of Hub.subscribe and Hub.subscribeWallet (64)
  MaxMsgs,       \* bound: messages the broadcasters publish
  MaxCmds        \* bound: commands each browser sends

ASSUME NoMarketAssumption == NoMarket \notin Market
ASSUME LowerAssumption    == /\ Lower \in [Address -> Address]
                             /\ \A a \in Address : Lower[Lower[a]] = Lower[a]
ASSUME ListsAssumption    == /\ MarketLists \subseteq SUBSET (Market \cup {NoMarket})
                             /\ WalletLists \subseteq SUBSET (Address \cup {NoWallet})
ASSUME NoWalletAssumption == NoWallet \notin Address
ASSUME CapAssumption      == /\ SendCap \in Nat \ {0}
                             /\ BroadcastCap \in Nat \ {0}
                             /\ WalletCap \in Nat \ {0}
                             /\ SubscribeCap \in Nat \ {0}
ASSUME BoundAssumption    == MaxMsgs \in Nat /\ MaxCmds \in Nat

VARIABLES
  running,          \* Hub.Run is in its loop
  clients,          \* Hub.clients
  subscriptions,    \* Client.subscriptions, {} = all markets
  walletSubs,       \* Client.walletSubs, {} = no wallet events
  broadcast,        \* Hub.broadcast
  walletBroadcast,  \* Hub.walletBroadcast
  subscribe,        \* Hub.subscribe
  subscribeWallet,  \* Hub.subscribeWallet
  send,             \* buffer of Client.send
  sendClosed,       \* Client.send has been closed
  panicked,         \* a send on, or a close of, a closed channel happened
  conn,             \* the websocket as this side sees it
  reader,           \* where ServeWS, then readPump, of the client is
  pending,          \* the command readPump is handing to the hub
  writer,           \* where writePump is
  frame,            \* messages written to the frame writePump has open
  drain,            \* queued messages writePump still owes that frame
  received,         \* messages in frames that were flushed to the browser
  published,        \* number of messages published
  commands          \* number of commands each browser has sent

hubVars    == <<running, clients, subscriptions, walletSubs>>
queueVars  == <<broadcast, walletBroadcast, subscribe, subscribeWallet>>
sendVars   == <<send, sendClosed, panicked>>
readerVars == <<reader, pending, commands>>
writerVars == <<writer, frame, drain, received>>
vars == <<hubVars, queueVars, sendVars, conn, readerVars, writerVars, published>>

Message == [id : 1..MaxMsgs, kind : {"market"}, scope : Market \cup {NoMarket}]
             \cup [id : 1..MaxMsgs, kind : {"wallet"}, scope : Address]

\* "subscribe" and "subscribe_wallet"; the "unsubscribe" actions of clientMsg
\* are the same commands with an empty list.
Command == [action : {"subscribe"}, names : MarketLists]
             \cup [action : {"subscribe_wallet"}, names : WalletLists]

QueuedCommand == [client : Client, names : SUBSET (Market \cup {NoMarket})]
QueuedWalletCommand == [client : Client, names : SUBSET (Address \cup {NoWallet})]

NoCommand == [action |-> "none", names |-> {}]

TypeOK ==
  /\ running \in BOOLEAN
  /\ clients \subseteq Client
  /\ subscriptions \in [Client -> SUBSET Market]
  /\ walletSubs \in [Client -> SUBSET Address]
  /\ broadcast \in Seq(Message)
  /\ walletBroadcast \in Seq(Message)
  /\ subscribe \in Seq(QueuedCommand)
  /\ subscribeWallet \in Seq(QueuedWalletCommand)
  /\ send \in [Client -> Seq(Message)]
  /\ sendClosed \in [Client -> BOOLEAN]
  /\ panicked \in BOOLEAN
  /\ conn \in [Client -> {"none", "open", "closed"}]
  /\ reader \in [Client -> {"none", "registering", "registered", "reading",
                            "subscribing", "leaving", "closing", "done"}]
  /\ pending \in [Client -> Command \cup {NoCommand}]
  /\ writer \in [Client -> {"none", "idle", "framing", "draining", "stopping", "done"}]
  /\ frame \in [Client -> Seq(Message)]
  /\ drain \in [Client -> Nat]
  /\ received \in [Client -> Seq(Message)]
  /\ published \in 0..MaxMsgs
  /\ commands \in [Client -> 0..MaxCmds]

Init ==
  /\ running = TRUE
  /\ clients = {}
  /\ subscriptions = [c \in Client |-> {}]
  /\ walletSubs = [c \in Client |-> {}]
  /\ broadcast = <<>>
  /\ walletBroadcast = <<>>
  /\ subscribe = <<>>
  /\ subscribeWallet = <<>>
  /\ send = [c \in Client |-> <<>>]
  /\ sendClosed = [c \in Client |-> FALSE]
  /\ panicked = FALSE
  /\ conn = [c \in Client |-> "none"]
  /\ reader = [c \in Client |-> "none"]
  /\ pending = [c \in Client |-> NoCommand]
  /\ writer = [c \in Client |-> "none"]
  /\ frame = [c \in Client |-> <<>>]
  /\ drain = [c \in Client |-> 0]
  /\ received = [c \in Client |-> <<>>]
  /\ published = 0
  /\ commands = [c \in Client |-> 0]

---------------------------------------------------------------------------
(* Mutated forms of definitions below: plausible bugs, each used in place  *)
(* of its original to show that a property would notice it.                *)

\* unregister without the "is it still in the map" check of hub.go:72
KnownUnchecked(c) == {c}

\* n taken before the first message was received
OwedCountedEarly(c) == Len(send[c]) + 1

\* subscribe adds to the filter instead of replacing it
MarketNamesAdded(c, names) == subscriptions[c] \cup (names \ {NoMarket})

\* a full client skipped and kept
FanOutSkipsFull(targets, msg) ==
  /\ send' = [c \in Client |-> IF c \in targets /\ Len(send[c]) < SendCap
                               THEN Append(send[c], msg) ELSE send[c]]
  /\ UNCHANGED <<clients, sendClosed, panicked>>

\* a lone message held back until there are others to share its frame
WriterReceiveBatched(c) ==
  /\ writer[c] = "idle"
  /\ send[c] # <<>>
  /\ Len(send[c]) > 1 \/ sendClosed[c]
  /\ writer' = [writer EXCEPT ![c] = "framing"]
  /\ frame' = [frame EXCEPT ![c] = <<Head(send[c])>>]
  /\ send' = [send EXCEPT ![c] = Tail(@)]
  /\ UNCHANGED <<hubVars, queueVars, sendClosed, panicked, conn, readerVars,
                 drain, received, published>>

\* the message that opened the frame written after those taken for it
WriterDrainFirstLast(c) ==
  /\ writer[c] = "draining"
  /\ drain[c] > 0
  /\ send[c] # <<>>
  /\ LET written == Len(frame[c]) - 1
     IN frame' = [frame EXCEPT ![c] = SubSeq(@, 1, written) \o <<Head(send[c]), @[written + 1]>>]
  /\ send' = [send EXCEPT ![c] = Tail(@)]
  /\ drain' = [drain EXCEPT ![c] = @ - 1]
  /\ UNCHANGED <<hubVars, queueVars, sendClosed, panicked, conn, readerVars,
                 writer, received, published>>

\* writePump returns without closing the socket
WriterStopLeaksConn(c) ==
  /\ writer[c] = "stopping"
  /\ writer' = [writer EXCEPT ![c] = "done"]
  /\ UNCHANGED <<hubVars, queueVars, sendVars, conn, readerVars, frame, drain, received, published>>

---------------------------------------------------------------------------
(* ServeWS and readPump                                                    *)

\* The upgrade succeeded; the handler blocks on hub.register.
ServeWS(c) ==
  /\ reader[c] = "none"
  /\ reader' = [reader EXCEPT ![c] = "registering"]
  /\ conn' = [conn EXCEPT ![c] = "open"]
  /\ UNCHANGED <<hubVars, queueVars, sendVars, pending, commands, writerVars, published>>

StartPumps(c) ==
  /\ reader[c] = "registered"
  /\ reader' = [reader EXCEPT ![c] = "reading"]
  /\ writer' = [writer EXCEPT ![c] = "idle"]
  /\ UNCHANGED <<hubVars, queueVars, sendVars, conn, pending, commands,
                 frame, drain, received, published>>

\* readPump parses a command; it is then committed to the channel send.
ReadCommand(c, cmd) ==
  /\ reader[c] = "reading"
  /\ conn[c] = "open"
  /\ commands[c] < MaxCmds
  /\ reader' = [reader EXCEPT ![c] = "subscribing"]
  /\ pending' = [pending EXCEPT ![c] = cmd]
  /\ commands' = [commands EXCEPT ![c] = @ + 1]
  /\ UNCHANGED <<hubVars, queueVars, sendVars, conn, writerVars, published>>

Subscribe(c) ==
  /\ reader[c] = "subscribing"
  /\ pending[c].action = "subscribe"
  /\ Len(subscribe) < SubscribeCap
  /\ subscribe' = Append(subscribe, [client |-> c, names |-> pending[c].names])
  /\ reader' = [reader EXCEPT ![c] = "reading"]
  /\ pending' = [pending EXCEPT ![c] = NoCommand]
  /\ UNCHANGED <<hubVars, broadcast, walletBroadcast, subscribeWallet, sendVars,
                 conn, commands, writerVars, published>>

SubscribeWallet(c) ==
  /\ reader[c] = "subscribing"
  /\ pending[c].action = "subscribe_wallet"
  /\ Len(subscribeWallet) < SubscribeCap
  /\ subscribeWallet' = Append(subscribeWallet, [client |-> c, names |-> pending[c].names])
  /\ reader' = [reader EXCEPT ![c] = "reading"]
  /\ pending' = [pending EXCEPT ![c] = NoCommand]
  /\ UNCHANGED <<hubVars, broadcast, walletBroadcast, subscribe, sendVars,
                 conn, commands, writerVars, published>>

\* The browser left, the read deadline passed, or writePump closed the socket.
ReadError(c) ==
  /\ reader[c] = "reading"
  /\ reader' = [reader EXCEPT ![c] = "leaving"]
  /\ UNCHANGED <<hubVars, queueVars, sendVars, conn, pending, commands, writerVars, published>>

ReaderClose(c) ==
  /\ reader[c] = "closing"
  /\ reader' = [reader EXCEPT ![c] = "done"]
  /\ conn' = [conn EXCEPT ![c] = "closed"]
  /\ UNCHANGED <<hubVars, queueVars, sendVars, pending, commands, writerVars, published>>

---------------------------------------------------------------------------
(* writePump                                                               *)

WriterReceive(c) ==
  /\ writer[c] = "idle"
  /\ send[c] # <<>>
  /\ writer' = [writer EXCEPT ![c] = "framing"]
  /\ frame' = [frame EXCEPT ![c] = <<Head(send[c])>>]
  /\ send' = [send EXCEPT ![c] = Tail(@)]
  /\ UNCHANGED <<hubVars, queueVars, sendClosed, panicked, conn, readerVars,
                 drain, received, published>>

\* n := len(c.send), read after the first message was taken.
Owed(c) == Len(send[c])

WriterBegin(c) ==
  /\ writer[c] = "framing"
  /\ writer' = [writer EXCEPT ![c] = "draining"]
  /\ drain' = [drain EXCEPT ![c] = Owed(c)]
  /\ UNCHANGED <<hubVars, queueVars, sendVars, conn, readerVars, frame, received, published>>

\* w.Write(<-c.send): a plain receive, which blocks on an empty open channel.
WriterDrain(c) ==
  /\ writer[c] = "draining"
  /\ drain[c] > 0
  /\ send[c] # <<>>
  /\ frame' = [frame EXCEPT ![c] = Append(@, Head(send[c]))]
  /\ send' = [send EXCEPT ![c] = Tail(@)]
  /\ drain' = [drain EXCEPT ![c] = @ - 1]
  /\ UNCHANGED <<hubVars, queueVars, sendClosed, panicked, conn, readerVars,
                 writer, received, published>>

WriterFlush(c) ==
  /\ writer[c] = "draining"
  /\ drain[c] = 0
  /\ conn[c] = "open"
  /\ writer' = [writer EXCEPT ![c] = "idle"]
  /\ received' = [received EXCEPT ![c] = @ \o frame[c]]
  /\ frame' = [frame EXCEPT ![c] = <<>>]
  /\ UNCHANGED <<hubVars, queueVars, sendVars, conn, readerVars, drain, published>>

\* NextWriter, w.Close or the ping fails: closed socket or write deadline.
WriteError(c) ==
  /\ \/ writer[c] \in {"idle", "framing"}
     \/ writer[c] = "draining" /\ drain[c] = 0
  /\ writer' = [writer EXCEPT ![c] = "stopping"]
  /\ UNCHANGED <<hubVars, queueVars, sendVars, conn, readerVars, frame, drain, received, published>>

\* The hub closed c.send and every buffered message has been taken.
WriterClosed(c) ==
  /\ writer[c] = "idle"
  /\ send[c] = <<>>
  /\ sendClosed[c]
  /\ writer' = [writer EXCEPT ![c] = "stopping"]
  /\ UNCHANGED <<hubVars, queueVars, sendVars, conn, readerVars, frame, drain, received, published>>

WriterStop(c) ==
  /\ writer[c] = "stopping"
  /\ writer' = [writer EXCEPT ![c] = "done"]
  /\ conn' = [conn EXCEPT ![c] = "closed"]
  /\ UNCHANGED <<hubVars, queueVars, sendVars, readerVars, frame, drain, received, published>>

---------------------------------------------------------------------------
(* Hub.Run: one action per case of the select                              *)

HubRegister(c) ==
  /\ running
  /\ reader[c] = "registering"
  /\ clients' = clients \cup {c}
  /\ reader' = [reader EXCEPT ![c] = "registered"]
  /\ UNCHANGED <<running, subscriptions, walletSubs, queueVars, sendVars, conn,
                 pending, commands, writerVars, published>>

\* close(c.send) for the clients of D, which panics on a closed channel.
CloseSend(D) ==
  /\ sendClosed' = [c \in Client |-> sendClosed[c] \/ c \in D]
  /\ panicked' = (panicked \/ \E c \in D : sendClosed[c])

\* The clients of {c} the map still holds.
Known(c) == {c} \cap clients

HubUnregister(c) ==
  /\ running
  /\ reader[c] = "leaving"
  /\ reader' = [reader EXCEPT ![c] = "closing"]
  /\ clients' = clients \ Known(c)
  /\ CloseSend(Known(c))
  /\ UNCHANGED <<running, subscriptions, walletSubs, queueVars, send, conn,
                 pending, commands, writerVars, published>>

\* The filter a subscribe command of c puts in force: empty ids are dropped.
MarketNames(c, names) == names \ {NoMarket}

HubSubscribe ==
  /\ running
  /\ subscribe # <<>>
  /\ subscribe' = Tail(subscribe)
  /\ LET sub == Head(subscribe)
     IN subscriptions' = IF sub.client \in clients
                         THEN [subscriptions EXCEPT ![sub.client] = MarketNames(sub.client, sub.names)]
                         ELSE subscriptions
  /\ UNCHANGED <<running, clients, walletSubs, broadcast, walletBroadcast, subscribeWallet,
                 sendVars, conn, readerVars, writerVars, published>>

\* Likewise for subscribe_wallet; addresses are lowered.
WalletNames(names) == {Lower[a] : a \in names \ {NoWallet}}

HubSubscribeWallet ==
  /\ running
  /\ subscribeWallet # <<>>
  /\ subscribeWallet' = Tail(subscribeWallet)
  /\ LET sub == Head(subscribeWallet)
     IN walletSubs' = IF sub.client \in clients
                      THEN [walletSubs EXCEPT ![sub.client] = WalletNames(sub.names)]
                      ELSE walletSubs
  /\ UNCHANGED <<running, clients, subscriptions, broadcast, walletBroadcast, subscribe,
                 sendVars, conn, readerVars, writerVars, published>>

\* The non-blocking send to every target; one whose buffer is full is
\* closed and forgotten.
FanOut(targets, msg) ==
  LET full == {c \in targets : Len(send[c]) >= SendCap}
  IN /\ send' = [c \in Client |-> IF c \in targets \ full THEN Append(send[c], msg) ELSE send[c]]
     /\ clients' = clients \ full
     /\ sendClosed' = [c \in Client |-> sendClosed[c] \/ c \in full]
     /\ panicked' = (panicked \/ \E c \in targets : sendClosed[c])

WantsMarket(c, market) ==
  subscriptions[c] = {} \/ market = NoMarket \/ market \in subscriptions[c]

HubBroadcast ==
  /\ running
  /\ broadcast # <<>>
  /\ broadcast' = Tail(broadcast)
  /\ LET msg == Head(broadcast)
     IN FanOut({c \in clients : WantsMarket(c, msg.scope)}, msg)
  /\ UNCHANGED <<running, subscriptions, walletSubs, walletBroadcast, subscribe, subscribeWallet,
                 conn, readerVars, writerVars, published>>

HubWalletBroadcast ==
  /\ running
  /\ walletBroadcast # <<>>
  /\ walletBroadcast' = Tail(walletBroadcast)
  /\ LET msg == Head(walletBroadcast)
     IN FanOut({c \in clients : msg.scope \in walletSubs[c]}, msg)
  /\ UNCHANGED <<running, subscriptions, walletSubs, broadcast, subscribe, subscribeWallet,
                 conn, readerVars, writerVars, published>>

\* ctx.Done: the loop returns and nobody serves the channels any more.
HubStop ==
  /\ running
  /\ running' = FALSE
  /\ UNCHANGED <<clients, subscriptions, walletSubs, queueVars, sendVars, conn,
                 readerVars, writerVars, published>>

---------------------------------------------------------------------------
(* The Kafka broadcasters: a full channel blocks the goroutine             *)

BroadcastToMarket(market) ==
  /\ published < MaxMsgs
  /\ Len(broadcast) < BroadcastCap
  /\ published' = published + 1
  /\ broadcast' = Append(broadcast, [id |-> published + 1, kind |-> "market", scope |-> market])
  /\ UNCHANGED <<hubVars, walletBroadcast, subscribe, subscribeWallet, sendVars, conn,
                 readerVars, writerVars>>

BroadcastToWallet(wallet) ==
  /\ published < MaxMsgs
  /\ Len(walletBroadcast) < WalletCap
  /\ published' = published + 1
  /\ walletBroadcast' = Append(walletBroadcast,
                               [id |-> published + 1, kind |-> "wallet", scope |-> Lower[wallet]])
  /\ UNCHANGED <<hubVars, broadcast, subscribe, subscribeWallet, sendVars, conn,
                 readerVars, writerVars>>

---------------------------------------------------------------------------

ReadPump(c) ==
  \/ ServeWS(c)
  \/ StartPumps(c)
  \/ \E cmd \in Command : ReadCommand(c, cmd)
  \/ Subscribe(c)
  \/ SubscribeWallet(c)
  \/ ReadError(c)
  \/ ReaderClose(c)

WritePump(c) ==
  \/ WriterReceive(c)
  \/ WriterBegin(c)
  \/ WriterDrain(c)
  \/ WriterFlush(c)
  \/ WriteError(c)
  \/ WriterClosed(c)
  \/ WriterStop(c)

Run ==
  \/ \E c \in Client : HubRegister(c) \/ HubUnregister(c)
  \/ HubSubscribe
  \/ HubSubscribeWallet
  \/ HubBroadcast
  \/ HubWalletBroadcast
  \/ HubStop

Broadcasters ==
  \/ \E market \in Market \cup {NoMarket} : BroadcastToMarket(market)
  \/ \E wallet \in Address : BroadcastToWallet(wallet)

Next ==
  \/ \E c \in Client : ReadPump(c) \/ WritePump(c)
  \/ Run
  \/ Broadcasters

Spec == Init /\ [][Next]_vars

\* Goroutines that can run do run.  Every case of the hub's select stays ready
\* until the hub takes it, so Go's random choice among ready cases gives each
\* of them weak fairness.  Nothing obliges a browser to speak or the network
\* to fail: ReadError and WriteError are fair only once the socket is closed,
\* which the next read, write or ping (at most 54 s away) then reports.
Fairness ==
  /\ \A c \in Client :
       /\ WF_vars(StartPumps(c))
       /\ WF_vars(Subscribe(c) \/ SubscribeWallet(c))
       /\ WF_vars(conn[c] = "closed" /\ ReadError(c))
       /\ WF_vars(ReaderClose(c))
       /\ WF_vars(WriterReceive(c) \/ WriterBegin(c) \/ WriterDrain(c)
                    \/ WriterFlush(c) \/ WriterClosed(c) \/ WriterStop(c))
       /\ WF_vars(conn[c] = "closed" /\ WriteError(c))
       /\ WF_vars(HubRegister(c))
       /\ WF_vars(HubUnregister(c))
  /\ WF_vars(HubSubscribe)
  /\ WF_vars(HubSubscribeWallet)
  /\ WF_vars(HubBroadcast)
  /\ WF_vars(HubWalletBroadcast)

FairSpec == Spec /\ Fairness

---------------------------------------------------------------------------
(* Properties                                                              *)

\* Nothing is sent on, and nothing closes, a channel that is already closed:
\* hub drop (hub.go:105, 120), unregister (hub.go:74) and later broadcasts
\* cannot collide, whichever side notices first that the client is gone.
ChannelSafety ==
  /\ ~panicked
  /\ \A c \in clients : ~sendClosed[c]

\* writePump's inner loop (client.go:110-113) does a plain receive n times; the
\* messages it counted are still there, so it cannot block with a frame open
\* or read the zero value of a channel the hub closed meanwhile.
DrainNeverBlocks ==
  \A c \in Client : writer[c] = "draining" => drain[c] <= Len(send[c])

\* Everything handed out for c: flushed, in the open frame, or buffered.
Inbox(c) == received[c] \o frame[c] \o send[c]

\* No client sees two messages of one hub channel out of publication order,
\* or one twice, across buffering and the coalescing of frames.
PublicationOrder ==
  \A c \in Client :
    \A i, j \in DOMAIN Inbox(c) :
      i < j /\ Inbox(c)[i].kind = Inbox(c)[j].kind => Inbox(c)[i].id < Inbox(c)[j].id

\* The hub implements the promise of StreamFanOut: a registered client is
\* never skipped for a message its filters admit, receives no other message,
\* and once dropped is not served again.
FanOutPromise ==
  INSTANCE StreamFanOut WITH
    topic        <- [kind \in {"market", "wallet"} |->
                       IF kind = "market" THEN broadcast ELSE walletBroadcast],
    member       <- clients,
    everMember   <- {c \in Client : reader[c] \notin {"none", "registering"}},
    marketFilter <- subscriptions,
    walletFilter <- walletSubs,
    inbox        <- [c \in Client |-> Inbox(c)],
    Id           <- 1..MaxMsgs

ImplementsFanOut == FanOutPromise!Spec

\* A connection that ended on either side (socket closed, or channel closed by
\* the hub for slowness) is reclaimed: both goroutines end and the socket is
\* closed, unless the hub has stopped, when readPump waits for it for ever.
ConnectionReclaimed ==
  \A c \in Client :
    (conn[c] = "closed" \/ sendClosed[c])
      ~> \/ reader[c] = "done" /\ writer[c] = "done" /\ conn[c] = "closed"
         \/ ~running

\* A message put into a client's channel reaches the browser unless the
\* connection fails first.
BufferedIsDelivered ==
  \A c \in Client, id \in 1..MaxMsgs :
    (\E i \in DOMAIN send[c] : send[c][i].id = id)
      ~> \/ \E i \in DOMAIN received[c] : received[c][i].id = id
         \/ conn[c] = "closed"

\* A market filter a browser asked for replaces the previous one, although by the
\* time the hub takes the command older ones of the same browser may have been in
\* the queue before it, and messages been fanned out in between.  That no command
\* sets the filter of another client is part of ImplementsFanOut.
CommandTakesEffect ==
  \A c \in Client, names \in MarketLists :
    (\E i \in DOMAIN subscribe : subscribe[i] = [client |-> c, names |-> names])
      ~> \/ subscriptions[c] = names \ {NoMarket}
         \/ c \notin clients
         \/ ~running

===========================================================================
