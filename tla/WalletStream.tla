---------------------------- MODULE WalletStream ----------------------------
(***************************************************************************)
(* The way of a watched wallet's trade to a browser: the wallet tracker of *)
(* the processor, the topic pmaxis.wallet.activity, the API's broadcaster  *)
(* for it, and the WebSocket hub, which stands here with the promise it is *)
(* proved to keep (StreamFanOut, theorem PromiseIsKept).                   *)
(*                                                                         *)
(* The topic has three partitions: the broadcaster may be handed the       *)
(* activities in any order.                                                *)
(***************************************************************************)
EXTENDS WalletTracker

CONSTANTS
  Client,        \* connections
  FollowLists    \* the lists of wallets, as sets, that browsers subscribe to

ASSUME FollowAssumption == FollowLists \subseteq SUBSET Address

VARIABLES
  broadcasted,   \* activities the broadcaster has been handed
  skipped,       \* those whose Fetch returned an error
  topic, member, everMember, marketFilter, walletFilter, inbox   \* of StreamFanOut

Hub == INSTANCE StreamFanOut WITH
  Market <- {}, NoMarket <- "", Id <- Nat

hub        == <<topic, member, everMember, marketFilter, walletFilter, inbox>>
broadcaster == <<broadcasted, skipped>>
streamVars == <<vars, broadcaster, hub>>

StreamInit ==
  /\ Init
  /\ Hub!Init
  /\ broadcasted = {} /\ skipped = {}

\* Mutated form of MessageOf: a broadcaster that addresses the taker.
MessageToTaker(i) ==
  [id |-> i, kind |-> "wallet", scope |-> PartyAt(activity[i].at, "buy")]

\* The message for the activity at position i: its id, and the wallet as the
\* tracker wrote it.
MessageOf(i) ==
  [id |-> i, kind |-> "wallet", scope |-> PartyAt(activity[i].at, activity[i].side)]

Unread == (1..Len(activity)) \ broadcasted

\* Fetch, and BroadcastToWallet with the event's wallet.
Broadcast ==
  \E i \in Unread :
    /\ broadcasted' = broadcasted \cup {i}
    /\ Hub!Publish(MessageOf(i))
    /\ UNCHANGED <<vars, skipped>>

\* Fetch returns an error: the event is left out.
BroadcastFails ==
  /\ Fail
  /\ \E i \in Unread : broadcasted' = broadcasted \cup {i} /\ skipped' = skipped \cup {i}
  /\ UNCHANGED <<onchain, watched, mapped, connected, reader, locals, stored, requests, intent, history, hub>>

Deliver == \E dropped \in SUBSET member : Hub!Deliver("wallet", dropped)

Browser(c) ==
  \/ Hub!Join(c)
  \/ Hub!Leave(c)
  \/ \E wallets \in FollowLists : Hub!SetWallets(c, wallets)

StreamNext ==
  \/ Next /\ UNCHANGED <<broadcaster, hub>>
  \/ Broadcast
  \/ BroadcastFails
  \/ Deliver /\ UNCHANGED <<vars, broadcaster>>
  \/ \E c \in Client : Browser(c) /\ UNCHANGED <<vars, broadcaster>>

StreamSpec == StreamInit /\ [][StreamNext]_streamVars

\* The tracker, the broadcaster and the hub keep running.
StreamFairSpec ==
  /\ StreamSpec
  /\ WF_streamVars(Tracker /\ UNCHANGED <<broadcaster, hub>>)
  /\ WF_streamVars(Broadcast)
  /\ WF_streamVars(Deliver /\ UNCHANGED <<vars, broadcaster>>)

---------------------------------------------------------------------------
(* Properties                                                              *)

\* What browsers are shown of a wallet is what the tracker published: each message
\* is one activity that the broadcaster was handed, for its wallet.  No browser
\* is shown a trade twice for one side, wherever the processor restarts and
\* calls fail on the way.
InboxIsActivity ==
  \A c \in Client : \A i, j \in 1..Len(inbox[c]) :
    LET m == inbox[c][i]
        n == inbox[c][j]
    IN /\ m.id \in broadcasted \ skipped
       /\ m.scope = PartyAt(activity[m.id].at, activity[m.id].side)
       /\ activity[m.id].at = activity[n.id].at /\ activity[m.id].side = activity[n.id].side
            => i = j

ShownTo(c, p, side) ==
  \E i \in 1..Len(inbox[c]) :
    activity[inbox[c][i].id].at = p /\ activity[inbox[c][i].id].side = side

\* From the chain to the browser: a trade that is not read yet, of a wallet that
\* is watched and that a connected browser follows, is shown to that browser,
\* unless the wallet is unwatched, the browser turns away or is dropped, or a
\* call fails or the processor restarts.
WatchedTradeIsShown ==
  \A p \in 1..MaxLogs, side \in Side, c \in Client :
    LET follows == /\ p \in 1..Len(onchain)
                   /\ PartyAt(p, side) \in watched
                   /\ c \in member
                   /\ PartyAt(p, side) \in walletFilter[c]
    IN (follows /\ p \notin taken) ~> (ShownTo(c, p, side) \/ ~follows \/ fails > 0)

===========================================================================
