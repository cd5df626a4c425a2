------------------------- MODULE WalletStreamProofs -------------------------
(***************************************************************************)
(* For any users, wallets, trades and order of the logs: the tracker       *)
(* reports a log to a wallet as its users asked (TrackedAsAsked), and at   *)
(* most once per side (ReportedOnce); and what browsers are shown is what  *)
(* it published, and no trade twice for one side (InboxIsActivity).        *)
(*                                                                         *)
(* The argument.  A request changes watched and what users are known to    *)
(* want together (AskInv), so the wallets wanted ever since the log was    *)
(* read are in the set and those in the set were wanted at some time       *)
(* (steady, seen).  A log in hand is committed and no report mentions a    *)
(* log before it is (ReportsInv), so the tracker starts from no report of  *)
(* it and each is for a side it has not dealt with yet (HandInv).          *)
(***************************************************************************)
EXTENDS WalletStream, FiniteSetTheorems, SequenceTheorems, TLAPS

Pending == {sides[i] : i \in 1..Len(sides)}

Distinct(s) == \A i, j \in 1..Len(s) : s[i] = s[j] => i = j

AskInv ==
  /\ watched \subseteq Wallets
  /\ asked \ doubted \subseteq watched
  /\ watched \subseteq asked \cup doubted

ReaderInv ==
  /\ committed \subseteq taken
  /\ step = "read" <=> hand = 0
  /\ hand # 0 => hand \in committed
  /\ hand = 0 => steady = {} /\ seen = {} /\ ~known /\ ~disturbed /\ sides = <<>>

\* No report of a log that is not committed, and none twice.
Once(reports) ==
  /\ \A i \in 1..Len(reports) : reports[i].at \in committed
  /\ \A i, j \in 1..Len(reports) :
       reports[i].at = reports[j].at /\ reports[i].side = reports[j].side => i = j

ReportsInv == Once(activity) /\ Once(rows)

\* The sides found so far and what is left of them to report.
SidesInv ==
  /\ Distinct(sides)
  /\ step = "maker" => Pending = {}
  /\ step = "taker" => Pending \subseteq {"sell"}
  /\ step \in {"resolve", "publish", "insert"} => sides # <<>>

Unreported ==
  /\ step \in {"maker", "taker"} =>
       \A side \in Side : ~Recorded(hand, side, rows) /\ ~Recorded(hand, side, activity)
  /\ \A side \in Pending :
       /\ ~Recorded(hand, side, rows)
       /\ Recorded(hand, side, activity) => step = "insert" /\ side = Head(sides)

OnlySeen ==
  \A side \in Side :
    side \in Pending \/ Recorded(hand, side, rows) \/ Recorded(hand, side, activity)
      => PartyAt(hand, side) \in seen

\* While no call fails, none of those wanted all the time is left out.
SteadyReported ==
  /\ \A side \in Side : PartyAt(hand, side) \in steady =>
       \/ side \in Pending
       \/ (connected => Recorded(hand, side, rows)) /\ Recorded(hand, side, activity)
       \/ step = "maker"
       \/ step = "taker" /\ side = "buy"
  /\ step = "insert" => Recorded(hand, Head(sides), activity)
  /\ known /\ step \in {"publish", "insert"} => market = "id"
  /\ \A i \in 1..Len(rows) : rows[i].at = hand /\ known => rows[i].market = "id"

HandInv ==
  hand # 0 =>
    /\ steady \subseteq watched
    /\ watched \subseteq seen
    /\ known => mapped
    /\ Unreported
    /\ OnlySeen
    /\ ~disturbed => SteadyReported

IInv == TypeOK /\ AskInv /\ ReaderInv /\ ReportsInv /\ SidesInv /\ HandInv

---------------------------------------------------------------------------
(* Addresses and sequences                                                 *)

LEMMA WalletIsAddress ==
  ASSUME NEW a \in Address
  PROVE  Wallet(a) \in Wallets /\ Wallet(a) \in Address /\ Lower[a] \in Address
BY LowerAssumption, TrimAssumption DEF Wallet, Wallets

LEMMA EmptySides ==
  ASSUME NEW s \in Seq(Side)
  PROVE  Len(s) \in Nat /\ (s = <<>> <=> Len(s) = 0)
OBVIOUS

LEMMA AppendSide ==
  ASSUME NEW s \in Seq(Side), NEW side \in Side, Distinct(s),
         \A i \in 1..Len(s) : s[i] # side
  PROVE  LET t == Append(s, side)
         IN  /\ t \in Seq(Side) /\ t # <<>> /\ Distinct(t)
             /\ {t[i] : i \in 1..Len(t)} = {s[i] : i \in 1..Len(s)} \cup {side}
<1> DEFINE t == Append(s, side)
<1>1. /\ t \in Seq(Side) /\ Len(t) = Len(s) + 1 /\ Len(s) \in Nat
      /\ t[Len(s) + 1] = side
      /\ \A i \in 1..Len(s) : t[i] = s[i]
  OBVIOUS
<1>2. t # <<>>
  BY <1>1
<1>3. Distinct(t)
  BY <1>1 DEF Distinct
<1>4. \A i \in 1..Len(t) : i \in 1..Len(s) \/ i = Len(s) + 1
  BY <1>1
<1>5. \A i \in 1..Len(s) : i \in 1..Len(t)
  BY <1>1
<1>6. Len(s) + 1 \in 1..Len(t)
  BY <1>1
<1>7. {t[i] : i \in 1..Len(t)} = {s[i] : i \in 1..Len(s)} \cup {side}
  BY <1>1, <1>4, <1>5, <1>6
<1>8. QED  BY <1>1, <1>2, <1>3, <1>7

LEMMA TailSides ==
  ASSUME NEW s \in Seq(Side), s # <<>>, Distinct(s)
  PROVE  LET t == Tail(s)
         IN  /\ t \in Seq(Side) /\ Distinct(t) /\ Head(s) \in Side
             /\ Head(s) \in {s[i] : i \in 1..Len(s)}
             /\ {t[i] : i \in 1..Len(t)} = {s[i] : i \in 1..Len(s)} \ {Head(s)}
<1> DEFINE t == Tail(s)
<1>1. /\ t \in Seq(Side) /\ Len(s) \in Nat \ {0} /\ Len(t) = Len(s) - 1
      /\ Head(s) = s[1] /\ s[1] \in Side
      /\ \A i \in 1..Len(t) : t[i] = s[i + 1]
  OBVIOUS
<1>2. Distinct(t)
  BY <1>1 DEF Distinct
<1>3. 1 \in 1..Len(s)
  BY <1>1
<1>4. \A i \in 1..Len(t) : i + 1 \in 1..Len(s) /\ i + 1 # 1
  BY <1>1
<1>5. \A i \in 1..Len(s) : i # 1 => i - 1 \in 1..Len(t) /\ t[i - 1] = s[i]
  BY <1>1
<1>6. \A i \in 1..Len(t) : t[i] \in {s[j] : j \in 1..Len(s)} /\ t[i] # s[1]
  BY <1>1, <1>3, <1>4 DEF Distinct
<1>7. \A i \in 1..Len(s) : s[i] # s[1] => s[i] \in {t[j] : j \in 1..Len(t)}
  BY <1>5
<1>8. {t[i] : i \in 1..Len(t)} = {s[i] : i \in 1..Len(s)} \ {s[1]}
  BY <1>6, <1>7
<1>9. QED  BY <1>1, <1>2, <1>3, <1>8

\* One report more: what it adds, and that none is there twice.
LEMMA AppendReport ==
  ASSUME NEW reports \in Seq(Report), NEW r \in Report
  PROVE  LET after == Append(reports, r)
         IN  /\ after \in Seq(Report)
             /\ \A i \in 1..Len(after) :
                  \/ i \in 1..Len(reports) /\ after[i] = reports[i]
                  \/ i = Len(reports) + 1 /\ after[i] = r
             /\ \A p, side : Recorded(p, side, after) <=>
                  Recorded(p, side, reports) \/ (r.at = p /\ r.side = side)
<1> DEFINE after == Append(reports, r)
<1>1. /\ after \in Seq(Report) /\ Len(after) = Len(reports) + 1 /\ Len(reports) \in Nat
      /\ after[Len(reports) + 1] = r
      /\ \A i \in 1..Len(reports) : after[i] = reports[i]
  OBVIOUS
<1>2. \A i \in 1..Len(after) :
        \/ i \in 1..Len(reports) /\ after[i] = reports[i]
        \/ i = Len(reports) + 1 /\ after[i] = r
  BY <1>1
<1>3. /\ Len(reports) + 1 \in 1..Len(after)
      /\ \A i \in 1..Len(reports) : i \in 1..Len(after)
  BY <1>1
<1>4. ASSUME NEW p, NEW side
      PROVE  Recorded(p, side, after) <=> Recorded(p, side, reports) \/ (r.at = p /\ r.side = side)
  BY <1>1, <1>2, <1>3 DEF Recorded
<1>5. QED  BY <1>1, <1>2, <1>4

LEMMA AppendOnce ==
  ASSUME NEW reports \in Seq(Report), NEW r \in Report, Once(reports),
         r.at \in committed, ~Recorded(r.at, r.side, reports)
  PROVE  Once(Append(reports, r))
<1> DEFINE after == Append(reports, r)
<1>1. \A i \in 1..Len(after) :
        \/ i \in 1..Len(reports) /\ after[i] = reports[i]
        \/ i = Len(reports) + 1 /\ after[i] = r
  BY AppendReport
<1>2. \A i \in 1..Len(reports) : ~(reports[i].at = r.at /\ reports[i].side = r.side)
  BY DEF Recorded
<1>3. QED  BY <1>1, <1>2 DEF Once

---------------------------------------------------------------------------
(* Steps of others                                                         *)

LEMMA OthersKeepReports ==
  ASSUME UNCHANGED <<reader, locals, stored>>
  PROVE  /\ ReaderInv /\ UNCHANGED history => ReaderInv'
         /\ ReportsInv => ReportsInv'
         /\ SidesInv => SidesInv'
<1>1. UNCHANGED <<taken, committed, hand, step, sides, activity, rows>>
  BY DEF reader, locals, stored
<1>2. ReaderInv /\ UNCHANGED history => ReaderInv'
  BY <1>1 DEF ReaderInv, history
<1>3. ReportsInv => ReportsInv'
  BY <1>1 DEF ReportsInv, Once
<1>4. SidesInv => SidesInv'
  BY <1>1 DEF SidesInv, Pending, Distinct
<1>5. QED  BY <1>2, <1>3, <1>4

\* A log published later does not change those before it.
LEMMA PublishOnchainKeeps ==
  ASSUME IInv, PublishOnchain
  PROVE  IInv'
<1> USE DEF IInv
<1>1. PICK trade \in Trade : onchain' = Append(onchain, trade)
  BY DEF PublishOnchain
<1>2. UNCHANGED <<watched, mapped, connected, reader, locals, stored, bounds, intent, history>>
  BY DEF PublishOnchain
<1>3. /\ onchain' \in Seq(Trade) /\ Len(onchain') = Len(onchain) + 1 /\ Len(onchain) \in Nat
      /\ \A p \in 1..Len(onchain) : onchain'[p] = onchain[p]
  BY <1>1 DEF TypeOK
<1>4. TypeOK'
  BY <1>2, <1>3 DEF TypeOK, reader, locals, stored, bounds, intent, history
<1>5. AskInv' /\ ReaderInv' /\ ReportsInv' /\ SidesInv'
  BY <1>2, OthersKeepReports DEF AskInv, intent
<1>6. hand # 0 => \A side : PartyAt(hand, side)' = PartyAt(hand, side)
  BY <1>2, <1>3 DEF PartyAt, Party, TypeOK, locals
<1>7. HandInv'
  BY <1>2, <1>6 DEF HandInv, Unreported, OnlySeen, SteadyReported, Recorded, Pending,
                    locals, stored, history
<1>8. QED  BY <1>4, <1>5, <1>7

LEMMA MapTokenKeeps ==
  ASSUME IInv, MapToken
  PROVE  IInv'
<1> USE DEF IInv
<1>1. /\ UNCHANGED <<onchain, watched, connected, reader, locals, stored, bounds, intent, history>>
      /\ mapped'
  BY DEF MapToken
<1>2. TypeOK' /\ AskInv' /\ ReaderInv' /\ ReportsInv' /\ SidesInv'
  BY <1>1, OthersKeepReports DEF TypeOK, AskInv, reader, locals, stored, bounds, intent, history
<1>3. HandInv'
  BY <1>1 DEF HandInv, Unreported, OnlySeen, SteadyReported, Recorded, Pending, PartyAt,
              locals, stored, history
<1>4. QED  BY <1>2, <1>3

\* What a request leaves alone.
LEMMA RequestFrame ==
  ASSUME IInv, UNCHANGED <<onchain, mapped, connected, reader, locals, stored, known, disturbed>>,
         AskInv', steady' \subseteq steady, seen \subseteq seen',
         hand = 0 => seen' = {}, hand # 0 => steady' \subseteq watched' /\ watched' \subseteq seen'
  PROVE  ReaderInv' /\ ReportsInv' /\ SidesInv' /\ HandInv'
<1> USE DEF IInv
<1>1. ReaderInv'
  BY DEF ReaderInv, reader, locals
<1>2. ReportsInv' /\ SidesInv'
  BY OthersKeepReports
<1>3. UNCHANGED Pending /\ \A side : PartyAt(hand, side)' = PartyAt(hand, side)
  BY DEF Pending, PartyAt, locals
<1>4. /\ \A side : Recorded(hand, side, rows)' = Recorded(hand, side, rows)
      /\ \A side : Recorded(hand, side, activity)' = Recorded(hand, side, activity)
  BY DEF Recorded, locals, stored
<1>5. hand # 0 => Unreported' /\ OnlySeen' /\ (~disturbed => SteadyReported')
  BY <1>3, <1>4 DEF HandInv, Unreported, OnlySeen, SteadyReported, locals, stored
<1>6. QED  BY <1>1, <1>2, <1>5 DEF HandInv, locals

LEMMA WatchWalletKeeps ==
  ASSUME IInv, NEW a \in Address, WatchWallet(a)
  PROVE  IInv'
<1> USE DEF IInv
<1>1. Wallet(a) \in Wallets /\ Wallet(a) \in Address /\ WatchedAddress(a) = Wallet(a)
  BY WalletIsAddress DEF Wallet, WatchedAddress
<1>2. /\ UNCHANGED <<onchain, mapped, connected, reader, locals, stored, steady, known, disturbed>>
      /\ seen' = IF hand = 0 THEN {} ELSE seen \cup {Wallet(a)}
      /\ watched' \in {watched, watched \cup {Wallet(a)}}
      /\ requests' \in 0..MaxRequests /\ fails' \in 0..MaxFailures
      /\ \/ /\ watched' = watched \cup {Wallet(a)}
            /\ asked' = asked \cup {Wallet(a)}
            /\ doubted' = doubted \ {Wallet(a)}
         \/ doubted' = doubted \cup {Wallet(a)} /\ asked' = asked
  BY <1>1, BoundAssumption DEF WatchWallet, Request, Fail, TypeOK
<1>3. TypeOK'
  BY <1>1, <1>2 DEF TypeOK, reader, locals, stored
<1>4. AskInv'
  BY <1>1, <1>2 DEF AskInv
<1>5. hand # 0 => steady' \subseteq watched' /\ watched' \subseteq seen'
  BY <1>2 DEF HandInv
<1>6. seen \subseteq seen'
  BY <1>2 DEF ReaderInv
<1>7. QED  BY <1>2, <1>3, <1>4, <1>5, <1>6, RequestFrame

LEMMA UnwatchWalletKeeps ==
  ASSUME IInv, NEW a \in Address, UnwatchWallet(a)
  PROVE  IInv'
<1> USE DEF IInv
<1>1. Lower[a] \in Address /\ UnwatchedAddress(a) = Lower[a] /\ Named(a) = Lower[a]
  BY WalletIsAddress DEF UnwatchedAddress, Named
<1>2. /\ UNCHANGED <<onchain, mapped, connected, reader, locals, stored, seen, known, disturbed>>
      /\ steady' = steady \ {Lower[a]}
      /\ watched' \in {watched, watched \ {Lower[a]}}
      /\ requests' \in 0..MaxRequests /\ fails' \in 0..MaxFailures
      /\ \/ /\ watched' = watched \ {Lower[a]}
            /\ asked' = asked \ {Lower[a]}
            /\ doubted' = doubted \ {Lower[a]}
         \/ doubted' = doubted \cup {Lower[a]} /\ asked' = asked
  BY <1>1, BoundAssumption DEF UnwatchWallet, Request, Fail, TypeOK
<1>3. TypeOK'
  BY <1>1, <1>2 DEF TypeOK, reader, locals, stored
<1>4. AskInv'
  BY <1>1, <1>2 DEF AskInv
<1>5. hand # 0 => steady' \subseteq watched' /\ watched' \subseteq seen'
  BY <1>2 DEF HandInv
<1>6. hand = 0 => seen' = {}
  BY <1>2 DEF ReaderInv
<1>7. QED  BY <1>2, <1>3, <1>4, <1>5, <1>6, RequestFrame

---------------------------------------------------------------------------
(* Steps of the tracker                                                    *)

LEMMA IdleKeeps ==
  ASSUME IInv, Idle, TypeOK', UNCHANGED <<watched, intent>>, committed' \subseteq taken', ReportsInv'
  PROVE  IInv'
<1>1. /\ hand' = 0 /\ step' = "read" /\ sides' = <<>>
      /\ steady' = {} /\ seen' = {} /\ ~known' /\ ~disturbed'
  BY DEF Idle
<1>2. Pending' = {} /\ Distinct(sides)'
  BY <1>1 DEF Pending, Distinct
<1>3. AskInv'
  BY DEF IInv, AskInv, intent
<1>4. ReaderInv' /\ SidesInv' /\ HandInv'
  BY <1>1, <1>2 DEF ReaderInv, SidesInv, HandInv
<1>5. QED  BY <1>3, <1>4 DEF IInv

\* Idle leaves every variable of TypeOK that it changes well typed.
LEMMA IdleType ==
  ASSUME TypeOK, Idle, UNCHANGED <<onchain, watched, mapped, requests, intent>>,
         connected' \in BOOLEAN,
         taken' \subseteq 1..Len(onchain), committed' \subseteq 1..Len(onchain),
         activity' \in Seq(Report), rows' \in Seq(Report), fails' \in 0..MaxFailures
  PROVE  TypeOK'
<1>1. Len(onchain) \in Nat /\ UNCHANGED <<onchain, watched, mapped, requests, asked, doubted>>
  BY DEF TypeOK, intent
<1>2. /\ hand' \in 0..Len(onchain) /\ sides' \in Seq(Side)
      /\ step' = "read" /\ market' \in MarketRef
      /\ steady' = {} /\ seen' = {} /\ known' = FALSE /\ disturbed' = FALSE
  BY <1>1 DEF Idle, MarketRef
<1>3. QED  BY <1>1, <1>2 DEF TypeOK

\* No report mentions the log just fetched.
LEMMA FetchKeeps ==
  ASSUME IInv, Fetch
  PROVE  IInv'
<1> USE DEF IInv
<1>1. PICK p \in (1..Len(onchain)) \ taken :
        hand' = p /\ taken' = taken \cup {p} /\ committed' = committed \cup {p}
  BY DEF Fetch
<1>2. /\ step = "read" /\ step' = "maker" /\ steady' = asked \ doubted /\ seen' = asked \cup doubted
      /\ known' = mapped
      /\ UNCHANGED <<onchain, watched, mapped, connected, sides, market, activity, rows>>
      /\ UNCHANGED <<requests, fails, asked, doubted, disturbed>>
  BY DEF Fetch, stored, bounds, intent
<1>3. p # 0 /\ p \notin committed /\ p \in Nat
  BY <1>1 DEF ReaderInv, TypeOK
<1>4. TypeOK'
  BY <1>1, <1>2 DEF TypeOK
<1>5. AskInv'
  BY <1>2 DEF AskInv
<1>6. ReaderInv'
  BY <1>1, <1>2, <1>3 DEF ReaderInv
<1>7. ReportsInv'
  BY <1>1, <1>2 DEF ReportsInv, Once
<1>8. sides = <<>> /\ ~disturbed
  BY <1>2 DEF ReaderInv
<1>9. Pending' = {} /\ Distinct(sides')
  BY <1>2, <1>8 DEF Pending, Distinct
<1>10. SidesInv'
  BY <1>2, <1>9 DEF SidesInv
<1>11. \A side : ~Recorded(p, side, rows) /\ ~Recorded(p, side, activity)
  BY <1>3 DEF Recorded, ReportsInv, Once
<1>12. \A side : ~Recorded(hand', side, rows') /\ ~Recorded(hand', side, activity')
  BY <1>1, <1>2, <1>11
<1>13. Unreported' /\ OnlySeen'
  BY <1>9, <1>12 DEF Unreported, OnlySeen
<1>14. SteadyReported'
  <2>1. \A i \in 1..Len(rows') : rows'[i].at # hand'
    BY <1>1, <1>2, <1>3 DEF ReportsInv, Once
  <2>2. QED  BY <1>2, <2>1 DEF SteadyReported
<1>15. HandInv'
  BY <1>2, <1>13, <1>14 DEF HandInv, AskInv
<1>16. QED  BY <1>4, <1>5, <1>6, <1>7, <1>10, <1>15

LEMMA FetchFailsKeeps ==
  ASSUME IInv, FetchFails
  PROVE  IInv'
<1> USE DEF IInv
<1>1. PICK p \in (1..Len(onchain)) \ taken :
        taken' = taken \cup {p} /\ committed' \in {committed, committed \cup {p}}
  BY DEF FetchFails
<1>2. /\ step = "read" /\ fails' \in 0..MaxFailures
      /\ UNCHANGED <<onchain, watched, mapped, connected, hand, step, sides, market, activity, rows, requests>>
      /\ UNCHANGED <<asked, doubted, steady, seen, known, disturbed>>
  BY BoundAssumption DEF FetchFails, Fail, TypeOK, locals, stored, intent, history
<1>3. hand = 0
  BY <1>2 DEF ReaderInv
<1>4. TypeOK'
  BY <1>1, <1>2 DEF TypeOK
<1>5. AskInv' /\ ReaderInv'
  BY <1>1, <1>2, <1>3 DEF AskInv, ReaderInv
<1>6. ReportsInv'
  BY <1>1, <1>2 DEF ReportsInv, Once
<1>7. SidesInv' /\ HandInv'
  BY <1>2, <1>3 DEF SidesInv, HandInv, Pending, Distinct
<1>8. QED  BY <1>4, <1>5, <1>6, <1>7

\* A restart forgets the log in hand.
LEMMA RestartKeeps ==
  ASSUME IInv, Restart
  PROVE  IInv'
<1> USE DEF IInv
<1>1. /\ taken' = committed /\ Idle /\ fails' \in 0..MaxFailures
      /\ connected' \in BOOLEAN
      /\ UNCHANGED <<onchain, watched, mapped, committed, stored, requests, intent>>
  BY BoundAssumption DEF Restart, Fail, Resume, TypeOK
<1>2. TypeOK'
  BY <1>1, IdleType DEF TypeOK, stored
<1>3. ReportsInv'
  BY <1>1 DEF ReportsInv, Once, stored
<1>4. QED  BY <1>1, <1>2, <1>3, IdleKeeps

\* What a step of the loop's body leaves alone, whatever it does to sides and
\* to what is stored.
LEMMA BodyFrame ==
  ASSUME IInv, Elsewhere, fails' \in 0..MaxFailures, NEW next, GoOn(next),
         hand # 0, next \in {"taker", "resolve", "publish", "insert"},
         sides' \in Seq(Side), market' \in MarketRef,
         activity' \in Seq(Report), rows' \in Seq(Report)
  PROVE  /\ TypeOK' /\ AskInv' /\ ReaderInv'
         /\ hand' = hand /\ step' = next /\ committed' = committed
         /\ \A side : PartyAt(hand, side)' = PartyAt(hand, side)
         /\ steady' = steady /\ seen' = seen /\ known' = known /\ connected' = connected
         /\ ~disturbed' => ~disturbed /\ fails' = fails
<1> USE DEF IInv
<1>1. /\ UNCHANGED <<onchain, watched, mapped, connected, taken, committed, requests, asked, doubted>>
      /\ UNCHANGED <<hand, steady, seen, known>> /\ step' = next
      /\ disturbed' = (disturbed \/ fails' # fails)
  BY DEF Elsewhere, GoOn, reader, intent
<1>2. disturbed' \in BOOLEAN
  BY <1>1
<1>3. TypeOK'
  BY <1>1, <1>2 DEF TypeOK
<1>4. AskInv' /\ ReaderInv'
  BY <1>1 DEF AskInv, ReaderInv
<1>5. \A side : PartyAt(hand, side)' = PartyAt(hand, side)
  BY <1>1 DEF PartyAt
<1>6. QED  BY <1>1, <1>3, <1>4, <1>5

\* HandInv once more, when the sets of wallets are as they were.
LEMMA HandFrame ==
  ASSUME IInv, Elsewhere, hand # 0, UNCHANGED <<hand, steady, seen, known>>,
         Unreported', OnlySeen', ~disturbed' => SteadyReported'
  PROVE  HandInv'
BY DEF IInv, HandInv, Elsewhere

LEMMA ReadMakerKeeps ==
  ASSUME IInv, ReadMaker
  PROVE  IInv'
<1> USE DEF IInv
<1>1. PICK found \in BOOLEAN : Found("sell", found) /\ sides' = With("sell", found)
  BY DEF ReadMaker
<1>2. /\ step = "maker" /\ GoOn("taker") /\ Elsewhere
      /\ UNCHANGED <<market, activity, rows>>
  BY DEF ReadMaker, stored
<1>3. hand # 0 /\ Pending = {} /\ Distinct(sides)
  BY <1>2 DEF ReaderInv, SidesInv
<1>4. \A i \in 1..Len(sides) : sides[i] # "sell"
  BY <1>3 DEF Pending
<1>5. /\ sides' \in Seq(Side) /\ Distinct(sides')
      /\ Pending' = IF found THEN {"sell"} ELSE {}
  <2>1. CASE found
    <3>1. sides' = Append(sides, "sell") /\ "sell" \in Side
      BY <1>1, <2>1 DEF With, Side
    <3>2. /\ sides' \in Seq(Side) /\ Distinct(sides')
          /\ Pending' = Pending \cup {"sell"}
      BY <1>3, <1>4, <3>1, AppendSide DEF TypeOK, Pending
    <3>3. QED  BY <1>3, <2>1, <3>2
  <2>2. CASE ~found
    <3>1. sides' = sides
      BY <1>1, <2>2 DEF With
    <3>2. QED  BY <1>3, <2>2, <3>1 DEF TypeOK, Pending
  <2>3. QED  BY <2>1, <2>2
<1>6. fails' \in 0..MaxFailures
  BY <1>1, BoundAssumption DEF Found, CallSucceeds, Fail, TypeOK
<1>7. /\ TypeOK' /\ AskInv' /\ ReaderInv'
      /\ hand' = hand /\ step' = "taker" /\ committed' = committed
      /\ \A side : PartyAt(hand, side)' = PartyAt(hand, side)
      /\ steady' = steady /\ seen' = seen /\ known' = known /\ connected' = connected
      /\ ~disturbed' => ~disturbed /\ fails' = fails
  BY <1>2, <1>3, <1>5, <1>6, BodyFrame DEF TypeOK
<1>8. ReportsInv' /\ SidesInv'
  BY <1>2, <1>5, <1>7 DEF ReportsInv, Once, SidesInv
<1>9. \A side \in Side : ~Recorded(hand, side, rows) /\ ~Recorded(hand, side, activity)
  BY <1>2, <1>3 DEF HandInv, Unreported
<1>10. \A side \in Side : ~Recorded(hand', side, rows') /\ ~Recorded(hand', side, activity')
  BY <1>2, <1>7, <1>9
<1>11. Unreported'
  BY <1>5, <1>7, <1>10 DEF Unreported, Side
<1>12. found => PartyAt(hand, "sell") \in watched
  BY <1>1 DEF Found
<1>13. OnlySeen'
  <2>1. Pending' \subseteq {"sell"} /\ (Pending' # {} => PartyAt(hand, "sell") \in seen)
    BY <1>3, <1>5, <1>12 DEF HandInv
  <2>2. QED  BY <1>7, <1>10, <2>1 DEF OnlySeen
<1>14. ASSUME ~disturbed' PROVE SteadyReported'
  <2>1. fails' = fails /\ SteadyReported
    BY <1>3, <1>7, <1>14 DEF HandInv
  <2>2. found <=> PartyAt(hand, "sell") \in watched
    BY <1>1, <2>1 DEF Found, Fail, TypeOK
  <2>3. PartyAt(hand, "sell") \in steady => "sell" \in Pending'
    BY <1>3, <1>5, <2>2 DEF HandInv
  <2>4. \A side \in Side : PartyAt(hand, side) \in steady =>
          side \in Pending' \/ side = "buy"
    BY <2>3 DEF Side
  <2>5. \A i \in 1..Len(rows') : rows'[i].at = hand' /\ known' => rows'[i].market = "id"
    BY <1>2, <1>7, <2>1 DEF SteadyReported
  <2>6. QED  BY <1>7, <2>4, <2>5 DEF SteadyReported
<1>15. HandInv'
  BY <1>2, <1>3, <1>7, <1>11, <1>13, <1>14, HandFrame
<1>16. QED  BY <1>7, <1>8, <1>15

LEMMA ReadTakerKeeps ==
  ASSUME IInv, ReadTaker
  PROVE  IInv'
<1> USE DEF IInv
<1>1. PICK found \in BOOLEAN :
        /\ Found("buy", found)
        /\ IF With("buy", found) = <<>>
           THEN Idle
           ELSE GoOn("resolve") /\ sides' = With("buy", found) /\ UNCHANGED market
  BY DEF ReadTaker
<1>2. step = "taker" /\ Elsewhere /\ UNCHANGED <<activity, rows, stored>>
  BY DEF ReadTaker, stored
<1>3. fails' \in 0..MaxFailures
  BY <1>1, BoundAssumption DEF Found, CallSucceeds, Fail, TypeOK
<1>4. /\ UNCHANGED <<onchain, watched, mapped, connected, taken, committed, requests, intent>>
      /\ UNCHANGED <<activity, rows>>
  BY <1>2 DEF Elsewhere, reader, stored
<1>5. CASE With("buy", found) = <<>>
  <2>1. TypeOK'
    BY <1>1, <1>3, <1>4, <1>5, IdleType DEF TypeOK
  <2>2. ReportsInv' /\ committed' \subseteq taken'
    BY <1>4 DEF ReportsInv, Once, ReaderInv
  <2>3. QED  BY <1>1, <1>4, <1>5, <2>1, <2>2, IdleKeeps
<1>6. CASE With("buy", found) # <<>>
  <2>1. GoOn("resolve") /\ sides' = With("buy", found) /\ UNCHANGED market
    BY <1>1, <1>6
  <2>2. hand # 0 /\ Pending \subseteq {"sell"} /\ Distinct(sides)
    BY <1>2 DEF ReaderInv, SidesInv
  <2>3. \A i \in 1..Len(sides) : sides[i] # "buy"
    BY <2>2 DEF Pending
  <2>4. /\ sides' \in Seq(Side) /\ Distinct(sides') /\ sides' # <<>>
        /\ Pending' = IF found THEN Pending \cup {"buy"} ELSE Pending
    <3>1. CASE found
      <4>1. sides' = Append(sides, "buy") /\ "buy" \in Side
        BY <2>1, <3>1 DEF With, Side
      <4>2. sides \in Seq(Side)
        BY DEF TypeOK
      <4>3. /\ sides' \in Seq(Side) /\ sides' # <<>> /\ Distinct(sides')
            /\ {sides'[i] : i \in 1..Len(sides')} = {sides[i] : i \in 1..Len(sides)} \cup {"buy"}
        BY <2>2, <2>3, <4>1, <4>2, AppendSide
      <4>4. QED  BY <3>1, <4>3 DEF Pending
    <3>2. CASE ~found
      <4>1. sides' = sides
        BY <2>1, <3>2 DEF With
      <4>2. QED  BY <1>6, <2>1, <2>2, <3>2, <4>1 DEF TypeOK, Pending
    <3>3. QED  BY <3>1, <3>2
  <2>5. /\ TypeOK' /\ AskInv' /\ ReaderInv'
        /\ hand' = hand /\ step' = "resolve" /\ committed' = committed
        /\ \A side : PartyAt(hand, side)' = PartyAt(hand, side)
        /\ steady' = steady /\ seen' = seen /\ known' = known /\ connected' = connected
        /\ ~disturbed' => ~disturbed /\ fails' = fails
    BY <1>2, <1>3, <1>4, <2>1, <2>2, <2>4, BodyFrame DEF TypeOK
  <2>6. ReportsInv' /\ SidesInv'
    BY <1>4, <2>4, <2>5 DEF ReportsInv, Once, SidesInv
  <2>7. \A side \in Side : ~Recorded(hand', side, rows') /\ ~Recorded(hand', side, activity')
    BY <1>2, <2>2, <2>5 DEF HandInv, Unreported
  <2>8. Pending' \subseteq Side
    BY <2>2, <2>4 DEF Side
  <2>9. Unreported'
    BY <2>5, <2>7, <2>8 DEF Unreported
  <2>10. found => PartyAt(hand, "buy") \in watched
    BY <1>1 DEF Found
  <2>11. OnlySeen'
    <3>1. \A side \in Pending : PartyAt(hand, side) \in seen
      BY <2>2 DEF HandInv, OnlySeen, Side
    <3>2. \A side \in Pending' : PartyAt(hand, side) \in seen
      BY <2>2, <2>4, <2>10, <3>1 DEF HandInv
    <3>3. QED  BY <2>5, <2>7, <3>2 DEF OnlySeen
  <2>12. ASSUME ~disturbed' PROVE SteadyReported'
    <3>1. fails' = fails /\ SteadyReported
      BY <2>2, <2>5, <2>12 DEF HandInv
    <3>2. found <=> PartyAt(hand, "buy") \in watched
      BY <1>1, <3>1 DEF Found, Fail, TypeOK
    <3>3. PartyAt(hand, "buy") \in steady => "buy" \in Pending'
      BY <2>2, <2>4, <3>2 DEF HandInv
    <3>4. PartyAt(hand, "sell") \in steady => "sell" \in Pending
      BY <1>2, <2>2, <3>1 DEF SteadyReported, Side, HandInv, Unreported
    <3>5. \A side \in Side : PartyAt(hand, side) \in steady => side \in Pending'
      BY <2>4, <3>3, <3>4 DEF Side
    <3>6. \A i \in 1..Len(rows') : rows'[i].at = hand' /\ known' => rows'[i].market = "id"
      BY <1>4, <2>5, <3>1 DEF SteadyReported
    <3>7. QED  BY <2>5, <3>5, <3>6 DEF SteadyReported
  <2>13. HandInv'
    BY <1>2, <2>2, <2>5, <2>9, <2>11, <2>12, HandFrame
  <2>14. QED  BY <2>5, <2>6, <2>13
<1>7. QED  BY <1>5, <1>6

LEMMA ResolveMarketKeeps ==
  ASSUME IInv, ResolveMarket
  PROVE  IInv'
<1> USE DEF IInv
<1>1. /\ step = "resolve" /\ GoOn("publish") /\ Elsewhere
      /\ UNCHANGED <<sides, activity, rows>>
      /\ market' \in MarketRef
      /\ fails' = fails /\ mapped => market' = "id"
      /\ fails' \in 0..MaxFailures
  BY BoundAssumption DEF ResolveMarket, stored, CallSucceeds, Fail, MarketRef, TypeOK
<1>2. hand # 0 /\ Pending' = Pending /\ Distinct(sides)
  BY <1>1 DEF ReaderInv, SidesInv, Pending
<1>3. /\ TypeOK' /\ AskInv' /\ ReaderInv'
      /\ hand' = hand /\ step' = "publish" /\ committed' = committed
      /\ \A side : PartyAt(hand, side)' = PartyAt(hand, side)
      /\ steady' = steady /\ seen' = seen /\ known' = known /\ connected' = connected
      /\ ~disturbed' => ~disturbed /\ fails' = fails
  BY <1>1, <1>2, BodyFrame DEF TypeOK
<1>4. ReportsInv' /\ SidesInv'
  BY <1>1, <1>2, <1>3 DEF ReportsInv, Once, SidesInv
<1>5. /\ \A side : Recorded(hand, side, rows)' = Recorded(hand, side, rows)
      /\ \A side : Recorded(hand, side, activity)' = Recorded(hand, side, activity)
  BY <1>1, <1>3 DEF Recorded
<1>6. Unreported'
  BY <1>1, <1>2, <1>3, <1>5 DEF HandInv, Unreported
<1>7. OnlySeen'
  BY <1>2, <1>3, <1>5 DEF HandInv, OnlySeen
<1>8. ASSUME ~disturbed' PROVE SteadyReported'
  <2>1. fails' = fails /\ SteadyReported
    BY <1>2, <1>3, <1>8 DEF HandInv
  <2>2. \A side \in Side : PartyAt(hand, side)' \in steady' =>
          \/ side \in Pending'
          \/ (connected' => Recorded(hand, side, rows)') /\ Recorded(hand, side, activity)'
    BY <1>1, <1>2, <1>3, <1>5, <2>1 DEF SteadyReported
  <2>3. known' => market' = "id"
    BY <1>1, <1>2, <1>3, <2>1 DEF HandInv
  <2>4. \A i \in 1..Len(rows') : rows'[i].at = hand' /\ known' => rows'[i].market = "id"
    BY <1>1, <1>3, <2>1 DEF SteadyReported
  <2>5. QED  BY <1>3, <2>2, <2>3, <2>4 DEF SteadyReported
<1>9. HandInv'
  BY <1>1, <1>2, <1>3, <1>6, <1>7, <1>8, HandFrame
<1>10. QED  BY <1>3, <1>4, <1>9

\* The reports after an attempt to report the side whose turn it is.
LEMMA ReportActivity ==
  ASSUME IInv, step \in {"publish", "insert"},
         NEW reports \in Seq(Report), Once(reports), ~Recorded(hand, Head(sides), reports),
         NEW after \in {reports, Append(reports, Activity)}
  PROVE  /\ after \in Seq(Report) /\ Once(after) /\ Head(sides) \in Side
         /\ Activity.market = market /\ Activity.at = hand
         /\ \A side : Recorded(hand, side, after) =>
              Recorded(hand, side, reports) \/ side = Head(sides)
         /\ \A side : Recorded(hand, side, reports) => Recorded(hand, side, after)
         /\ after = Append(reports, Activity) => Recorded(hand, Head(sides), after)
         /\ \A i \in 1..Len(after) :
              (i \in 1..Len(reports) /\ after[i] = reports[i]) \/ after[i] = Activity
<1> USE DEF IInv
<1>1. hand # 0 /\ hand \in committed /\ hand \in Nat /\ sides # <<>> /\ sides \in Seq(Side)
  BY DEF ReaderInv, SidesInv, TypeOK
<1>2. Head(sides) \in Side /\ market \in MarketRef
  BY <1>1 DEF TypeOK
<1>3. /\ Activity \in Report
      /\ Activity.at = hand /\ Activity.side = Head(sides) /\ Activity.market = market
  BY <1>1, <1>2 DEF Activity, Report
<1> HIDE DEF IInv
<1>4. CASE after = reports
  <2>1. after # Append(reports, Activity)
    BY <1>4
  <2>2. QED  BY <1>2, <1>3, <1>4, <2>1
<1>5. CASE after = Append(reports, Activity)
  <2>1. /\ after \in Seq(Report)
        /\ \A i \in 1..Len(after) :
             (i \in 1..Len(reports) /\ after[i] = reports[i]) \/ after[i] = Activity
        /\ \A side : Recorded(hand, side, after) <=>
             Recorded(hand, side, reports) \/ side = Head(sides)
    BY <1>3, <1>5, AppendReport
  <2>2. Once(after)
    BY <1>1, <1>3, <1>5, AppendOnce
  <2>3. QED  BY <1>2, <1>3, <2>1, <2>2
<1>6. QED  BY <1>4, <1>5

LEMMA PublishActivityKeeps ==
  ASSUME IInv, PublishActivity
  PROVE  IInv'
<1> USE DEF IInv
<1> DEFINE side == Head(sides)
<1>1. /\ step = "publish" /\ GoOn("insert") /\ Elsewhere
      /\ UNCHANGED <<sides, market, rows>>
      /\ activity' \in {activity, Append(activity, Activity)}
      /\ fails' = fails => activity' = Append(activity, Activity)
      /\ fails' \in 0..MaxFailures
  BY BoundAssumption DEF PublishActivity, Reported, CallSucceeds, Fail, TypeOK
<1>2. hand # 0 /\ Pending' = Pending /\ Distinct(sides) /\ sides # <<>>
  BY <1>1 DEF ReaderInv, SidesInv, Pending
<1>3. side \in Pending /\ side \in Side
  BY <1>2, TailSides DEF TypeOK, Pending
<1>4. ~Recorded(hand, side, activity) /\ activity \in Seq(Report) /\ Once(activity)
  BY <1>1, <1>2, <1>3 DEF HandInv, Unreported, TypeOK, ReportsInv
<1>5. /\ activity' \in Seq(Report) /\ Once(activity')
      /\ \A s : Recorded(hand, s, activity') => Recorded(hand, s, activity) \/ s = side
      /\ \A s : Recorded(hand, s, activity) => Recorded(hand, s, activity')
      /\ activity' = Append(activity, Activity) => Recorded(hand, side, activity')
  BY <1>1, <1>4, ReportActivity
<1>6. /\ TypeOK' /\ AskInv' /\ ReaderInv'
      /\ hand' = hand /\ step' = "insert" /\ committed' = committed
      /\ \A s : PartyAt(hand, s)' = PartyAt(hand, s)
      /\ steady' = steady /\ seen' = seen /\ known' = known /\ connected' = connected
      /\ ~disturbed' => ~disturbed /\ fails' = fails
  BY <1>1, <1>2, <1>5, BodyFrame DEF TypeOK
<1>7. ReportsInv' /\ SidesInv'
  BY <1>1, <1>2, <1>5, <1>6 DEF ReportsInv, Once, SidesInv
<1>8. Unreported'
  BY <1>1, <1>2, <1>5, <1>6 DEF HandInv, Unreported
<1>9. OnlySeen'
  BY <1>1, <1>2, <1>3, <1>5, <1>6 DEF HandInv, OnlySeen
<1>10. ASSUME ~disturbed' PROVE SteadyReported'
  <2>1. fails' = fails /\ SteadyReported
    BY <1>2, <1>6, <1>10 DEF HandInv
  <2>2. \A s \in Side : PartyAt(hand, s)' \in steady' =>
          \/ s \in Pending'
          \/ (connected' => Recorded(hand, s, rows)') /\ Recorded(hand, s, activity)'
    BY <1>1, <1>2, <1>5, <1>6, <2>1 DEF SteadyReported
  <2>3. Recorded(hand, side, activity)'
    BY <1>1, <1>5, <1>6, <2>1
  <2>4. known' => market' = "id"
    BY <1>1, <1>6, <2>1 DEF SteadyReported
  <2>5. \A i \in 1..Len(rows') : rows'[i].at = hand' /\ known' => rows'[i].market = "id"
    BY <1>1, <1>6, <2>1 DEF SteadyReported
  <2>6. QED  BY <1>1, <1>6, <2>2, <2>3, <2>4, <2>5 DEF SteadyReported
<1>11. HandInv'
  BY <1>1, <1>2, <1>6, <1>8, <1>9, <1>10, HandFrame
<1>12. QED  BY <1>6, <1>7, <1>11

\* What an insert leaves behind, whether the loop goes on with the log or not.
LEMMA InsertActivityEffect ==
  ASSUME IInv, InsertActivity
  PROVE  /\ hand # 0 /\ hand \in committed /\ Distinct(sides) /\ sides # <<>>
         /\ Elsewhere /\ UNCHANGED activity /\ fails' \in 0..MaxFailures
         /\ rows' \in Seq(Report) /\ Once(rows')
         /\ \A s : Recorded(hand, s, rows') => Recorded(hand, s, rows) \/ s = Head(sides)
         /\ \A s : Recorded(hand, s, rows) => Recorded(hand, s, rows')
         /\ connected /\ fails' = fails => Recorded(hand, Head(sides), rows')
         /\ ~disturbed /\ known => \A i \in 1..Len(rows') : rows'[i].at = hand => rows'[i].market = "id"
<1> USE DEF IInv
<1>1. /\ step = "insert" /\ Elsewhere /\ UNCHANGED activity
      /\ rows' \in {rows, Append(rows, Activity)}
      /\ connected /\ fails' = fails => rows' = Append(rows, Activity)
      /\ fails' \in 0..MaxFailures
  BY BoundAssumption DEF InsertActivity, Reported, CallSucceeds, Fail, TypeOK
<1>2. hand # 0 /\ hand \in committed /\ Distinct(sides) /\ sides # <<>>
  BY <1>1 DEF ReaderInv, SidesInv
<1>3. Head(sides) \in Pending
  BY <1>2, TailSides DEF TypeOK, Pending
<1>4. ~Recorded(hand, Head(sides), rows) /\ rows \in Seq(Report) /\ Once(rows)
  BY <1>1, <1>2, <1>3 DEF HandInv, Unreported, TypeOK, ReportsInv
<1>5. /\ rows' \in Seq(Report) /\ Once(rows') /\ Activity.market = market
      /\ \A s : Recorded(hand, s, rows') => Recorded(hand, s, rows) \/ s = Head(sides)
      /\ \A s : Recorded(hand, s, rows) => Recorded(hand, s, rows')
      /\ rows' = Append(rows, Activity) => Recorded(hand, Head(sides), rows')
      /\ \A i \in 1..Len(rows') :
           (i \in 1..Len(rows) /\ rows'[i] = rows[i]) \/ rows'[i] = Activity
  BY <1>1, <1>4, ReportActivity
<1>6. ~disturbed /\ known => \A i \in 1..Len(rows') : rows'[i].at = hand => rows'[i].market = "id"
  BY <1>1, <1>2, <1>5 DEF HandInv, SteadyReported
<1>7. QED  BY <1>1, <1>2, <1>5, <1>6

LEMMA InsertActivityKeeps ==
  ASSUME IInv, InsertActivity
  PROVE  IInv'
<1> USE DEF IInv
<1> DEFINE side == Head(sides)
<1>1. /\ hand # 0 /\ Distinct(sides) /\ sides # <<>>
      /\ Elsewhere /\ UNCHANGED activity /\ fails' \in 0..MaxFailures
      /\ rows' \in Seq(Report) /\ Once(rows')
      /\ \A s : Recorded(hand, s, rows') => Recorded(hand, s, rows) \/ s = side
      /\ \A s : Recorded(hand, s, rows) => Recorded(hand, s, rows')
      /\ connected /\ fails' = fails => Recorded(hand, side, rows')
      /\ ~disturbed /\ known => \A i \in 1..Len(rows') : rows'[i].at = hand => rows'[i].market = "id"
  BY InsertActivityEffect
<1>2. /\ UNCHANGED <<onchain, watched, mapped, connected, taken, committed, requests, intent, activity>>
      /\ step = "insert" /\ activity' \in Seq(Report) /\ committed' \subseteq taken'
  BY <1>1 DEF Elsewhere, reader, InsertActivity, TypeOK, ReaderInv
<1>3. ReportsInv'
  BY <1>1, <1>2 DEF ReportsInv, Once
<1>4. CASE Tail(sides) = <<>>
  <2>1. Idle
    BY <1>4 DEF InsertActivity
  <2>2. TypeOK'
    BY <1>1, <1>2, <2>1, IdleType DEF TypeOK
  <2>3. QED  BY <1>2, <1>3, <2>1, <2>2, IdleKeeps
<1>5. CASE Tail(sides) # <<>>
  <2>1. GoOn("publish") /\ sides' = Tail(sides) /\ UNCHANGED market
    BY <1>5 DEF InsertActivity
  <2>2. /\ sides' \in Seq(Side) /\ Distinct(sides') /\ side \in Side
        /\ side \in Pending /\ Pending' = Pending \ {side}
    BY <1>1, <2>1, TailSides DEF TypeOK, Pending
  <2>3. /\ TypeOK' /\ AskInv' /\ ReaderInv'
        /\ hand' = hand /\ step' = "publish" /\ committed' = committed
        /\ \A s : PartyAt(hand, s)' = PartyAt(hand, s)
        /\ steady' = steady /\ seen' = seen /\ known' = known /\ connected' = connected
        /\ ~disturbed' => ~disturbed /\ fails' = fails
    BY <1>1, <1>2, <2>1, <2>2, BodyFrame DEF TypeOK
  <2>4. SidesInv'
    BY <1>5, <2>1, <2>2, <2>3 DEF SidesInv
  <2>5. Unreported'
    BY <1>1, <1>2, <2>2, <2>3 DEF HandInv, Unreported
  <2>6. OnlySeen'
    BY <1>1, <1>2, <2>2, <2>3 DEF HandInv, OnlySeen
  <2>7. ASSUME ~disturbed' PROVE SteadyReported'
    <3>1. fails' = fails /\ SteadyReported /\ ~disturbed
      BY <1>1, <2>3, <2>7 DEF HandInv
    <3>2. (connected => Recorded(hand, side, rows')) /\ Recorded(hand, side, activity')
      BY <1>1, <1>2, <3>1 DEF SteadyReported
    <3>3. \A s \in Side : PartyAt(hand, s)' \in steady' =>
            \/ s \in Pending'
            \/ (connected' => Recorded(hand, s, rows)') /\ Recorded(hand, s, activity)'
      BY <1>1, <1>2, <2>2, <2>3, <3>1, <3>2 DEF SteadyReported
    <3>4. known' => market' = "id"
      BY <1>2, <2>1, <2>3, <3>1 DEF SteadyReported
    <3>5. QED  BY <1>1, <2>3, <3>1, <3>3, <3>4 DEF SteadyReported
  <2>8. HandInv'
    BY <1>1, <2>3, <2>5, <2>6, <2>7, HandFrame
  <2>9. QED  BY <1>3, <2>3, <2>4, <2>8
<1>6. QED  BY <1>4, <1>5

---------------------------------------------------------------------------
(* The theorems                                                            *)

LEMMA InitHolds == Init => IInv
<1> SUFFICES ASSUME Init PROVE IInv
  OBVIOUS
<1> USE DEF Init
<1>1. Wallets \subseteq Address
  BY WalletIsAddress DEF Wallets, Wallet
<1>2. TypeOK
  <2>1. onchain \in Seq(Trade) /\ sides \in Seq(Side) /\ Len(onchain) = 0
    OBVIOUS
  <2>2. activity \in Seq(Report) /\ rows \in Seq(Report)
    OBVIOUS
  <2>3. hand \in 0..Len(onchain) /\ requests \in 0..MaxRequests /\ fails \in 0..MaxFailures
    BY <2>1, BoundAssumption
  <2>4. QED  BY <1>1, <2>1, <2>2, <2>3 DEF TypeOK, MarketRef
<1>3. AskInv /\ ReaderInv /\ HandInv
  BY DEF AskInv, ReaderInv, HandInv
<1>4. ReportsInv /\ SidesInv
  BY DEF ReportsInv, Once, SidesInv, Pending, Distinct
<1>5. QED  BY <1>2, <1>3, <1>4 DEF IInv

LEMMA StutterKeeps ==
  ASSUME IInv, UNCHANGED vars
  PROVE  IInv'
<1> USE DEF IInv, vars
<1>1. TypeOK' /\ AskInv' /\ ReportsInv' /\ SidesInv'
  BY OthersKeepReports DEF TypeOK, AskInv, reader, locals, stored, bounds, intent, history
<1>2. ReaderInv'
  BY OthersKeepReports
<1>3. HandInv'
  BY DEF HandInv, Unreported, OnlySeen, SteadyReported, Recorded, Pending, PartyAt,
         locals, stored, history
<1>4. QED  BY <1>1, <1>2, <1>3

LEMMA NextKeeps ==
  ASSUME IInv, [Next]_vars
  PROVE  IInv'
<1>1. CASE PublishOnchain              BY <1>1, PublishOnchainKeeps
<1>2. CASE MapToken                    BY <1>2, MapTokenKeeps
<1>3. ASSUME NEW a \in Address, WatchWallet(a) PROVE IInv'
  BY <1>3, WatchWalletKeeps
<1>4. ASSUME NEW a \in Address, UnwatchWallet(a) PROVE IInv'
  BY <1>4, UnwatchWalletKeeps
<1>5. CASE Tracker
  BY <1>5, FetchKeeps, ReadMakerKeeps, ReadTakerKeeps, ResolveMarketKeeps,
     PublishActivityKeeps, InsertActivityKeeps DEF Tracker
<1>6. CASE FetchFails                  BY <1>6, FetchFailsKeeps
<1>7. CASE Restart                     BY <1>7, RestartKeeps
<1>8. CASE UNCHANGED vars              BY <1>8, StutterKeeps
<1>9. QED  BY <1>1, <1>2, <1>3, <1>4, <1>5, <1>6, <1>7, <1>8 DEF Next

LEMMA InvariantHolds == Spec => []IInv
BY InitHolds, NextKeeps, PTL DEF Spec

\* Every variable keeps its type.
THEOREM TypeCorrect == Spec => []TypeOK
<1>1. IInv => TypeOK
  BY DEF IInv
<1>2. QED  BY <1>1, InvariantHolds, PTL

\* A summary's rows for one side are at most the logs naming the wallet there.
LEMMA RowsAreLogs ==
  ASSUME IInv, NEW wallet, NEW side \in Side
  PROVE  /\ Cardinality({i \in GetWalletActivity(wallet) : rows[i].side = side}) \in Nat
         /\ Cardinality({i \in GetWalletActivity(wallet) : rows[i].side = side})
              <= Cardinality(GetWalletOnchain(wallet))
<1> DEFINE S == {i \in GetWalletActivity(wallet) : rows[i].side = side}
           T == GetWalletOnchain(wallet)
           f == [i \in S |-> rows[i].at]
<1>1. Len(onchain) \in Nat
  BY DEF IInv, TypeOK
<1>2. IsFiniteSet(1..Len(onchain)) /\ T \subseteq 1..Len(onchain)
  BY <1>1, FS_Interval DEF GetWalletOnchain
<1>3. IsFiniteSet(T)
  BY <1>2, FS_Subset
<1>4. \A i \in S : rows[i].at \in 1..Len(onchain) /\ PartyAt(rows[i].at, side) = wallet
  BY DEF IInv, TypeOK, ReportsInv, Once, GetWalletActivity
<1>5. \A i \in S : f[i] \in T
  BY <1>4 DEF GetWalletOnchain, Side
<1>6. \A i, j \in S : f[i] = f[j] => i = j
  BY DEF IInv, ReportsInv, Once, GetWalletActivity
<1>7. f \in Injection(S, T)
  BY <1>5, <1>6 DEF Injection, IsInjective
<1>8. IsFiniteSet(S) /\ Cardinality(S) <= Cardinality(T)
  BY <1>3, <1>7, FS_Injection
<1>9. Cardinality(S) \in Nat
  BY <1>8, FS_CardinalityType
<1>10. QED  BY <1>8, <1>9

\* Wherever the processor restarts, and whatever calls fail, a log is reported
\* at most once per side, in the topic and in the table, and a wallet's summary
\* counts at most the logs that name it (processor/main.go:540-559).
THEOREM NeverReportedTwice == Spec => []ReportedOnce
<1>1. IInv => ReportedOnce
  <2> SUFFICES ASSUME IInv PROVE ReportedOnce
    OBVIOUS
  <2>1. ASSUME NEW wallet
        PROVE  LET summary == GetWalletSummary(wallet)
                   logs    == Cardinality(GetWalletOnchain(wallet))
               IN  summary.buys <= logs /\ summary.sells <= logs
    BY RowsAreLogs DEF GetWalletSummary, Side
  <2>2. QED  BY <2>1 DEF ReportedOnce, IInv, ReportsInv, Once
<1>2. QED  BY <1>1, InvariantHolds, PTL

\* The step that finishes a log no call failed for.
LEMMA FinishedAsAsked ==
  ASSUME IInv, [Next]_vars, hand # 0, hand' = 0, ~disturbed, fails' = fails, NEW side \in Side
  PROVE  LET wallet == PartyAt(hand, side) IN
         /\ wallet \in steady => (connected => Recorded(hand, side, rows')) /\ Recorded(hand, side, activity')
         /\ wallet \notin seen => ~Recorded(hand, side, rows') /\ ~Recorded(hand, side, activity')
         /\ \A i \in 1..Len(rows') : rows'[i].at = hand /\ known => rows'[i].market = "id"
<1>1. HandInv /\ SteadyReported /\ hand \in Nat
  BY DEF IInv, HandInv, TypeOK
<1>2. CASE InsertActivity
  <2>1. Tail(sides) = <<>> /\ step = "insert"
    BY <1>2 DEF InsertActivity, GoOn
  <2>2. Pending = {Head(sides)}
    <3>1. sides \in Seq(Side) /\ sides # <<>> /\ Distinct(sides)
      BY <2>1 DEF IInv, TypeOK, SidesInv
    <3>2. {} = Pending \ {Head(sides)} /\ Head(sides) \in Pending
      <4>1. \A i \in 1..Len(Tail(sides)) : FALSE
        <5>1. Tail(sides) \in Seq(Side)
          BY <3>1
        <5>2. Len(Tail(sides)) = 0
          BY <2>1, <5>1, EmptySides
        <5>3. 1..0 = {}
          OBVIOUS
        <5>4. QED  BY <5>2, <5>3
      <4>2. {Tail(sides)[i] : i \in 1..Len(Tail(sides))} = {}
        BY <4>1
      <4>3. QED  BY <3>1, <4>2, TailSides DEF Pending
    <3>3. QED  BY <3>2
  <2>3. (connected => Recorded(hand, Head(sides), rows')) /\ Recorded(hand, Head(sides), activity')
    BY <1>1, <1>2, <2>1, InsertActivityEffect DEF SteadyReported
  <2>4. /\ \A s : Recorded(hand, s, rows') => Recorded(hand, s, rows) \/ s = Head(sides)
        /\ \A s : Recorded(hand, s, rows) => Recorded(hand, s, rows')
        /\ known => \A i \in 1..Len(rows') : rows'[i].at = hand => rows'[i].market = "id"
        /\ activity' = activity
    BY <1>2, InsertActivityEffect
  <2>5. QED  BY <1>1, <2>1, <2>2, <2>3, <2>4 DEF SteadyReported, HandInv, OnlySeen
<1>3. CASE ReadTaker
  <2>1. PICK found \in BOOLEAN : Found("buy", found) /\ With("buy", found) = <<>>
    BY <1>3 DEF ReadTaker, GoOn
  <2>2. step = "taker" /\ UNCHANGED <<activity, rows>>
    BY <1>3 DEF ReadTaker, stored
  <2>3. ~found /\ sides = <<>>
    <3>1. Append(sides, "buy") # <<>>
      <4>1. sides \in Seq(Side) /\ "buy" \in Side
        BY DEF IInv, TypeOK, Side
      <4>2. Append(sides, "buy") \in Seq(Side) /\ Len(Append(sides, "buy")) = Len(sides) + 1
        BY <4>1
      <4>3. QED  BY <4>1, <4>2, EmptySides
    <3>2. QED  BY <2>1, <3>1 DEF With
  <2>4. Pending = {}
    BY <2>3 DEF Pending
  <2>5. PartyAt(hand, "buy") \notin watched
    BY <2>1, <2>3 DEF Found, Fail, IInv, TypeOK
  <2>6. ~Recorded(hand, side, rows') /\ ~Recorded(hand, side, activity')
    BY <1>1, <2>2 DEF HandInv, Unreported
  <2>7. PartyAt(hand, side) \notin steady
    BY <1>1, <2>2, <2>4, <2>5, <2>6 DEF SteadyReported, HandInv
  <2>8. QED  BY <1>1, <2>2, <2>6, <2>7 DEF SteadyReported
<1>4. CASE ~InsertActivity /\ ~ReadTaker
  <2>1. hand' = hand \/ hand' # 0 \/ fails' # fails
    <3>1. CASE Tracker
      BY <1>4, <3>1 DEF Tracker, Fetch, ReadMaker, ResolveMarket, PublishActivity, GoOn, IInv, TypeOK
    <3>2. CASE Restart
      BY <3>2 DEF Restart, Fail, IInv, TypeOK
    <3>3. CASE ~Tracker /\ ~Restart
      BY <3>3 DEF Next, vars, PublishOnchain, MapToken, WatchWallet, UnwatchWallet, FetchFails, locals
    <3>4. QED  BY <3>1, <3>2, <3>3
  <2>2. QED  BY <2>1
<1>5. QED  BY <1>2, <1>3, <1>4

\* However requests to watch and unwatch fall between the tracker's reads, what
\* it reports of a log is what its users wanted (processor/main.go:513-559,
\* rest.go:2425-2458).
THEOREM ReportsWhatUsersAsk == Spec => TrackedAsAsked
<1>1. IInv /\ [Next]_vars =>
        [hand # 0 /\ hand' = 0 /\ ~disturbed /\ fails' = fails =>
           \A side \in Side :
             LET wallet == PartyAt(hand, side) IN
             /\ wallet \in steady => /\ connected => Recorded(hand, side, rows')
                                     /\ Recorded(hand, side, activity')
             /\ wallet \notin seen => /\ ~Recorded(hand, side, rows')
                                      /\ ~Recorded(hand, side, activity')
             /\ \A i \in 1..Len(rows') :
                  rows'[i].at = hand /\ known => rows'[i].market = "id"]_vars
  BY FinishedAsAsked
<1>2. QED  BY <1>1, InvariantHolds, PTL DEF Spec, TrackedAsAsked

---------------------------------------------------------------------------
(* The way to the browser                                                  *)

\* The messages the broadcaster has made of the activities it was handed.
Owed == {MessageOf(i) : i \in broadcasted \ skipped}

OnceEach(s) == \A i, j \in 1..Len(s) : s[i].id = s[j].id => i = j

\* No message is on its way twice: in the hub's topic, in an inbox, or in both.
StreamInv ==
  /\ IInv
  /\ broadcasted \subseteq 1..Len(activity) /\ skipped \subseteq broadcasted
  /\ topic \in [{"market", "wallet"} -> Seq(Owed)]
  /\ inbox \in [Client -> Seq(Owed)]
  /\ OnceEach(topic["wallet"])
  /\ \A c \in Client :
       /\ OnceEach(inbox[c])
       /\ \A i \in 1..Len(inbox[c]), j \in 1..Len(topic["wallet"]) : inbox[c][i].id # topic["wallet"][j].id

\* What was published stays published, and its log where it was.
LEMMA ActivityGrows ==
  ASSUME IInv, [Next]_vars
  PROVE  /\ Len(activity) <= Len(activity') /\ \A i \in 1..Len(activity) : activity'[i] = activity[i]
         /\ \A p \in 1..Len(onchain) : onchain'[p] = onchain[p]
<1>1. activity \in Seq(Report) /\ onchain \in Seq(Trade)
  BY DEF IInv, TypeOK
<1>2. \A p \in 1..Len(onchain) : onchain'[p] = onchain[p]
  <2>1. onchain' = onchain \/ \E trade \in Trade : onchain' = Append(onchain, trade)
    BY DEF Next, PublishOnchain, MapToken, WatchWallet, UnwatchWallet, Tracker, FetchFails, Restart,
           Fetch, ReadMaker, ReadTaker, ResolveMarket, PublishActivity, InsertActivity, Elsewhere, vars
  <2>2. QED  BY <1>1, <2>1
<1>3. CASE PublishActivity
  <2>1. activity' = activity \/ activity' = Append(activity, Activity)
    BY <1>3 DEF PublishActivity
  <2>2. Activity \in Report
    <3>1. hand \in Nat \ {0} /\ Head(sides) \in Side /\ market \in MarketRef
      BY <1>3, EmptySides DEF IInv, TypeOK, ReaderInv, SidesInv, PublishActivity
    <3>2. QED  BY <3>1 DEF Activity, Report
  <2>3. Len(activity) <= Len(activity') /\ \A i \in 1..Len(activity) : activity'[i] = activity[i]
    BY <1>1, <2>1, <2>2
  <2>4. QED  BY <1>2, <2>3
<1>4. CASE ~PublishActivity
  <2>1. activity' = activity
    BY <1>4 DEF Next, PublishOnchain, MapToken, WatchWallet, UnwatchWallet, Tracker, FetchFails, Restart,
                Fetch, ReadMaker, ReadTaker, ResolveMarket, InsertActivity, Elsewhere, vars, stored
  <2>2. QED  BY <1>1, <1>2, <2>1
<1>5. QED  BY <1>3, <1>4

\* Then the message made of an activity stays the same.
LEMMA OwedGrows ==
  ASSUME StreamInv, Len(activity) <= Len(activity'),
         \A i \in 1..Len(activity) : activity'[i] = activity[i],
         \A p \in 1..Len(onchain) : onchain'[p] = onchain[p],
         broadcasted \ skipped \subseteq broadcasted' \ skipped'
  PROVE  Owed \subseteq Owed' /\ Seq(Owed) \subseteq Seq(Owed')
<1>1. ASSUME NEW i \in broadcasted \ skipped PROVE MessageOf(i)' = MessageOf(i)
  <2>1. i \in 1..Len(activity)
    BY DEF StreamInv
  <2>2. activity'[i] = activity[i] /\ activity[i].at \in 1..Len(onchain)
    BY <2>1 DEF StreamInv, IInv, ReportsInv, Once, TypeOK
  <2>3. QED  BY <2>1, <2>2 DEF MessageOf, PartyAt, Party
<1>2. Owed \subseteq Owed'
  BY <1>1 DEF Owed
<1>3. QED  BY <1>2, SeqMonotonic

\* A step that moves no message.
LEMMA NothingMoves ==
  ASSUME StreamInv, IInv', UNCHANGED <<topic, inbox>>, Len(activity) <= Len(activity'), Len(activity') \in Nat,
         \A i \in 1..Len(activity) : activity'[i] = activity[i],
         \A p \in 1..Len(onchain) : onchain'[p] = onchain[p],
         broadcasted \ skipped \subseteq broadcasted' \ skipped',
         broadcasted' \subseteq 1..Len(activity'), skipped' \subseteq broadcasted'
  PROVE  StreamInv'
<1>1. Seq(Owed) \subseteq Seq(Owed')
  BY OwedGrows
<1>3. topic' \in [{"market", "wallet"} -> Seq(Owed')] /\ inbox' \in [Client -> Seq(Owed')]
  BY <1>1 DEF StreamInv
<1>4. QED  BY <1>3 DEF StreamInv, OnceEach

\* The ids of the messages there are were handed out before.
LEMMA OwedIds ==
  ASSUME NEW m \in Owed
  PROVE  m.id \in broadcasted \ skipped /\ m = MessageOf(m.id)
BY DEF Owed, MessageOf

LEMMA BroadcastKeeps ==
  ASSUME StreamInv, IInv', Broadcast
  PROVE  StreamInv'
<1>1. PICK k \in Unread :
        /\ broadcasted' = broadcasted \cup {k}
        /\ Hub!Publish(MessageOf(k))
        /\ UNCHANGED <<vars, skipped>>
  BY DEF Broadcast
<1> DEFINE m == MessageOf(k)
           old == topic["wallet"]
           new == Append(old, m)
<1>2. /\ UNCHANGED <<onchain, activity, inbox, skipped>>
      /\ topic' = [topic EXCEPT !["wallet"] = new]
  BY <1>1 DEF vars, stored, Hub!Publish, MessageOf
<1>3. k \in 1..Len(activity) /\ k \notin broadcasted /\ k \notin skipped
  BY <1>1 DEF Unread, StreamInv
<1>4. Seq(Owed) \subseteq Seq(Owed') /\ m \in Owed'
  <2>1. Seq(Owed) \subseteq Seq(Owed')
    <3>1. Len(activity) \in Nat /\ broadcasted \ skipped \subseteq broadcasted' \ skipped'
      BY <1>1, <1>2 DEF StreamInv, IInv, TypeOK
    <3>2. QED  BY <1>2, <3>1, OwedGrows
  <2>2. MessageOf(k)' = m
    BY <1>2 DEF MessageOf, PartyAt, Party
  <2>3. QED  BY <1>1, <1>2, <1>3, <2>1, <2>2 DEF Owed
<1>5. old \in Seq(Owed) /\ old \in Seq(Owed') /\ m.id = k
  BY <1>4 DEF StreamInv, MessageOf
<1>6. \A i \in 1..Len(old) : old[i].id # k
  BY <1>3, <1>5, OwedIds
<1> HIDE DEF m, old
<1>7. /\ new \in Seq(Owed')
      /\ \A i \in 1..Len(new) : (i \in 1..Len(old) /\ new[i] = old[i]) \/ (i = Len(old) + 1 /\ new[i] = m)
  BY <1>4, <1>5
<1>8. OnceEach(new)
  BY <1>5, <1>6, <1>7 DEF OnceEach, StreamInv, old
<1>9. \A c \in Client : \A i \in 1..Len(inbox[c]), j \in 1..Len(new) : inbox[c][i].id # new[j].id
  <2>1. \A c \in Client : \A i \in 1..Len(inbox[c]) : inbox[c][i].id # k
    <3>1. \A c \in Client : inbox[c] \in Seq(Owed)
      BY DEF StreamInv
    <3>2. QED  BY <1>3, <3>1, OwedIds
  <2>2. QED  BY <1>5, <1>7, <2>1 DEF StreamInv, old
<1> HIDE DEF new
<1>10. topic' \in [{"market", "wallet"} -> Seq(Owed')] /\ topic'["wallet"] = new
  BY <1>2, <1>4, <1>7 DEF StreamInv
<1>11. inbox' \in [Client -> Seq(Owed')]
  BY <1>2, <1>4 DEF StreamInv
<1>12. broadcasted' \subseteq 1..Len(activity') /\ skipped' \subseteq broadcasted'
  BY <1>1, <1>2, <1>3 DEF StreamInv
<1>13. QED  BY <1>2, <1>8, <1>9, <1>10, <1>11, <1>12 DEF StreamInv

LEMMA DeliverKeeps ==
  ASSUME StreamInv, IInv', Deliver, UNCHANGED <<vars, broadcaster>>
  PROVE  StreamInv'
<1> DEFINE old == topic["wallet"]
           m == Head(old)
           new == Tail(old)
<1>1. /\ old # <<>> /\ topic' = [topic EXCEPT !["wallet"] = new]
      /\ \A c \in Client : inbox'[c] = inbox[c] \/ inbox'[c] = Append(inbox[c], m)
      /\ inbox' = [c \in Client |-> inbox'[c]]
  BY DEF Deliver, Hub!Deliver
<1>2. UNCHANGED <<onchain, activity, broadcasted, skipped>> /\ Owed' = Owed
  BY DEF vars, stored, broadcaster, Owed, MessageOf, PartyAt, Party
<1>3. old \in Seq(Owed) /\ OnceEach(old)
  BY DEF StreamInv
<1> HIDE DEF old
<1>4. /\ m \in Owed /\ new \in Seq(Owed) /\ m = old[1] /\ 1 \in 1..Len(old)
      /\ \A i \in 1..Len(new) : i + 1 \in 1..Len(old) /\ new[i] = old[i + 1] /\ i # 0
  BY <1>1, <1>3
<1>5. OnceEach(new)
  BY <1>3, <1>4 DEF OnceEach
<1>6. \A i \in 1..Len(new) : new[i].id # m.id
  BY <1>3, <1>4 DEF OnceEach
<1> HIDE DEF m, new
<1>7. ASSUME NEW c \in Client
      PROVE  /\ inbox'[c] \in Seq(Owed)
             /\ OnceEach(inbox'[c])
             /\ \A i \in 1..Len(inbox'[c]), j \in 1..Len(new) : inbox'[c][i].id # new[j].id
  <2>1. /\ inbox[c] \in Seq(Owed) /\ OnceEach(inbox[c])
        /\ \A i \in 1..Len(inbox[c]), j \in 1..Len(old) : inbox[c][i].id # old[j].id
    BY DEF StreamInv, old
  <2>2. CASE inbox'[c] = inbox[c]
    BY <1>4, <2>1, <2>2
  <2>3. CASE inbox'[c] = Append(inbox[c], m)
    <3>1. /\ inbox'[c] \in Seq(Owed)
          /\ \A i \in 1..Len(inbox'[c]) : \/ i \in 1..Len(inbox[c]) /\ inbox'[c][i] = inbox[c][i]
                                          \/ i = Len(inbox[c]) + 1 /\ inbox'[c][i] = m
      BY <1>4, <2>1, <2>3
    <3>2. OnceEach(inbox'[c])
      <4>1. \A i \in 1..Len(inbox[c]) : inbox[c][i].id # m.id
        BY <1>4, <2>1
      <4>2. QED  BY <2>1, <3>1, <4>1 DEF OnceEach
    <3>3. QED  BY <1>4, <1>6, <2>1, <3>1, <3>2
  <2>4. QED  BY <1>1, <2>2, <2>3
<1>8. inbox' \in [Client -> Seq(Owed')]
  BY <1>1, <1>2, <1>7
<1>9. topic' \in [{"market", "wallet"} -> Seq(Owed')] /\ topic'["wallet"] = new
  BY <1>1, <1>2, <1>4 DEF StreamInv
<1>10. QED  BY <1>2, <1>5, <1>7, <1>8, <1>9 DEF StreamInv

\* The tracker's invariant holds with the browsers attached: of its variables, a
\* failed Fetch of the broadcaster counts a failure and nothing else is touched.
LEMMA StreamKeepsTracker ==
  ASSUME IInv, [StreamNext]_streamVars
  PROVE  IInv'
<1>1. CASE [Next]_vars
  BY <1>1, NextKeeps
<1>2. CASE BroadcastFails
  <2>1. /\ fails' \in 0..MaxFailures
        /\ UNCHANGED <<onchain, watched, mapped, connected, reader, locals, stored, requests, intent, history>>
    BY <1>2, BoundAssumption DEF BroadcastFails, Fail, IInv, TypeOK
  <2>2. TypeOK' /\ AskInv' /\ ReaderInv' /\ ReportsInv' /\ SidesInv'
    BY <2>1, OthersKeepReports DEF IInv, TypeOK, AskInv, reader, locals, stored, intent, history
  <2>3. HandInv'
    BY <2>1 DEF IInv, HandInv, Unreported, OnlySeen, SteadyReported, Recorded, Pending, PartyAt,
                locals, stored, history
  <2>4. QED  BY <2>2, <2>3 DEF IInv
<1>3. QED  BY <1>1, <1>2 DEF StreamNext, Broadcast, streamVars

LEMMA StreamNextKeeps ==
  ASSUME StreamInv, [StreamNext]_streamVars
  PROVE  StreamInv'
<1>1. IInv /\ IInv'
  BY StreamKeepsTracker DEF StreamInv
<1>2. Len(activity) \in Nat /\ Len(activity') \in Nat
  BY <1>1 DEF IInv, TypeOK
<1>3. CASE [Next]_vars /\ UNCHANGED <<broadcaster, topic, inbox>>
  <2>1. /\ Len(activity) <= Len(activity') /\ \A i \in 1..Len(activity) : activity'[i] = activity[i]
        /\ \A p \in 1..Len(onchain) : onchain'[p] = onchain[p]
    BY <1>1, <1>3, ActivityGrows
  <2>2. UNCHANGED <<broadcasted, skipped, topic, inbox>>
    BY <1>3 DEF broadcaster
  <2>3. broadcasted' \subseteq 1..Len(activity') /\ skipped' \subseteq broadcasted'
    BY <1>2, <2>1, <2>2 DEF StreamInv
  <2>4. QED  BY <1>1, <1>2, <2>1, <2>2, <2>3, NothingMoves
<1>4. CASE Broadcast
  BY <1>1, <1>4, BroadcastKeeps
<1>5. CASE BroadcastFails
  <2>1. PICK i \in Unread : broadcasted' = broadcasted \cup {i} /\ skipped' = skipped \cup {i}
    BY <1>5 DEF BroadcastFails
  <2>2. UNCHANGED <<onchain, activity, topic, inbox>>
    BY <1>5 DEF BroadcastFails, stored, hub
  <2>3. broadcasted \ skipped \subseteq broadcasted' \ skipped'
    BY <2>1 DEF Unread
  <2>4. broadcasted' \subseteq 1..Len(activity') /\ skipped' \subseteq broadcasted'
    BY <2>1, <2>2 DEF Unread, StreamInv
  <2>5. QED  BY <1>1, <1>2, <2>2, <2>3, <2>4, NothingMoves
<1>6. CASE Deliver /\ UNCHANGED <<vars, broadcaster>>
  BY <1>1, <1>6, DeliverKeeps
<1>7. ASSUME NEW c \in Client, Browser(c), UNCHANGED <<vars, broadcaster>> PROVE StreamInv'
  <2>1. UNCHANGED <<topic, inbox>>
    BY <1>7 DEF Browser, Hub!Join, Hub!Leave, Hub!SetWallets
  <2>2. QED  BY <1>3, <1>7, <2>1
<1>8. QED  BY <1>3, <1>4, <1>5, <1>6, <1>7 DEF StreamNext, streamVars, hub

\* Each message a browser gets is one published activity, for its wallet, and no
\* browser gets a trade twice for one side, wherever the processor restarts and
\* calls fail (processor/main.go:540-559, api/main.go:283-311).
THEOREM InboxesAreActivity == StreamSpec => []InboxIsActivity
<1>1. StreamInit => StreamInv
  <2> SUFFICES ASSUME StreamInit PROVE StreamInv
    OBVIOUS
  <2>1. IInv
    BY InitHolds DEF StreamInit
  <2>2. /\ topic = [kind \in {"market", "wallet"} |-> <<>>] /\ inbox = [c \in Client |-> <<>>]
        /\ broadcasted = {} /\ skipped = {}
    BY DEF StreamInit, Hub!Init
  <2>3. QED  BY <2>1, <2>2 DEF StreamInv, OnceEach
<1>2. StreamInv => InboxIsActivity
  <2> SUFFICES ASSUME StreamInv, NEW c \in Client, NEW i \in 1..Len(inbox[c]), NEW j \in 1..Len(inbox[c])
               PROVE  LET m == inbox[c][i]
                          n == inbox[c][j]
                      IN /\ m.id \in broadcasted \ skipped
                         /\ m.scope = PartyAt(activity[m.id].at, activity[m.id].side)
                         /\ activity[m.id].at = activity[n.id].at /\ activity[m.id].side = activity[n.id].side
                              => i = j
    BY DEF InboxIsActivity
  <2> DEFINE m == inbox[c][i]
             n == inbox[c][j]
  <2>1. m \in Owed /\ n \in Owed
    BY DEF StreamInv
  <2>2. m.id \in broadcasted \ skipped /\ m = MessageOf(m.id) /\ n.id \in broadcasted \ skipped
    BY <2>1, OwedIds
  <2>3. m.scope = PartyAt(activity[m.id].at, activity[m.id].side)
    BY <2>2 DEF MessageOf
  <2>4. activity[m.id].at = activity[n.id].at /\ activity[m.id].side = activity[n.id].side => m.id = n.id
    BY <2>2 DEF StreamInv, IInv, ReportsInv, Once
  <2>5. m.id = n.id => i = j
    BY DEF StreamInv, OnceEach
  <2>6. QED  BY <2>2, <2>3, <2>4, <2>5
<1>3. QED  BY <1>1, <1>2, StreamNextKeeps, PTL DEF StreamSpec

===========================================================================
