--------------------------- MODULE StreamFanOut ----------------------------
(***************************************************************************)
(* What the WebSocket stream promises a browser, with the hub's channels,  *)
(* goroutines and sockets abstracted away: when its turn in its topic has  *)
(* come, a message extends the inbox of every member whose filters admit   *)
(* it, or the member is dropped.  None is skipped and kept.                *)
(***************************************************************************)
EXTENDS Naturals, Sequences

CONSTANTS
  Client, Market, NoMarket, Address, Lower,
  Id             \* message ids

VARIABLES
  topic,         \* per kind, the messages to be delivered, oldest first
  member,        \* clients that are owed messages
  everMember,    \* clients that have been a member; membership is not regained
  marketFilter,  \* {} admits every market
  walletFilter,  \* {} admits no wallet
  inbox          \* messages received or on their way, oldest first

vars == <<topic, member, everMember, marketFilter, walletFilter, inbox>>

Init ==
  /\ topic = [kind \in {"market", "wallet"} |-> <<>>]
  /\ member = {}
  /\ everMember = {}
  /\ marketFilter = [c \in Client |-> {}]
  /\ walletFilter = [c \in Client |-> {}]
  /\ inbox = [c \in Client |-> <<>>]

Join(c) ==
  /\ c \notin everMember
  /\ member' = member \cup {c}
  /\ everMember' = everMember \cup {c}
  /\ UNCHANGED <<topic, marketFilter, walletFilter, inbox>>

Leave(c) ==
  /\ c \in member
  /\ member' = member \ {c}
  /\ UNCHANGED <<topic, everMember, marketFilter, walletFilter, inbox>>

SetMarkets(c, markets) ==
  /\ c \in member
  /\ marketFilter' = [marketFilter EXCEPT ![c] = markets]
  /\ UNCHANGED <<topic, member, everMember, walletFilter, inbox>>

SetWallets(c, wallets) ==
  /\ c \in member
  /\ walletFilter' = [walletFilter EXCEPT ![c] = {Lower[a] : a \in wallets}]
  /\ UNCHANGED <<topic, member, everMember, marketFilter, inbox>>

Admits(c, msg) ==
  \/ msg.kind = "wallet" /\ msg.scope \in walletFilter[c]
  \/ /\ msg.kind = "market"
     /\ marketFilter[c] = {} \/ msg.scope \in marketFilter[c] \cup {NoMarket}

\* A message joins its topic.
Publish(msg) ==
  /\ topic' = [topic EXCEPT ![msg.kind] = Append(@, msg)]
  /\ UNCHANGED <<member, everMember, marketFilter, walletFilter, inbox>>

\* Every member that wants the oldest message gets it, except those dropped.
Deliver(kind, dropped) ==
  /\ topic[kind] # <<>>
  /\ topic' = [topic EXCEPT ![kind] = Tail(@)]
  /\ LET msg  == Head(topic[kind])
         owed == {c \in member : Admits(c, msg)}
     IN /\ dropped \subseteq owed
        /\ inbox' = [c \in Client |-> IF c \in owed \ dropped THEN Append(inbox[c], msg) ELSE inbox[c]]
  /\ member' = member \ dropped
  /\ UNCHANGED <<everMember, marketFilter, walletFilter>>

Next ==
  \/ \E c \in Client :
       \/ Join(c)
       \/ Leave(c)
       \/ \E markets \in SUBSET Market : SetMarkets(c, markets)
       \/ \E wallets \in SUBSET Address : SetWallets(c, wallets)
  \/ \E id \in Id :
       \/ \E market \in Market \cup {NoMarket} :
            Publish([id |-> id, kind |-> "market", scope |-> market])
       \/ \E wallet \in Address :
            Publish([id |-> id, kind |-> "wallet", scope |-> Lower[wallet]])
  \/ \E kind \in {"market", "wallet"}, dropped \in SUBSET member : Deliver(kind, dropped)

Spec == Init /\ [][Next]_vars
===========================================================================
