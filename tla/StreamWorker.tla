---------------------------- MODULE StreamWorker ----------------------------
(***************************************************************************)
(* A stream worker of services/ingestion: the goroutine that keeps one     *)
(* WebSocket connection to Polymarket (Start, connect, readLoop), and the  *)
(* manager's goroutine that gives it tokens (startStreamComponent,         *)
(* AddToken).  The two share tokens, client and subscribed; connect sets   *)
(* the last two before it takes the worker's mutex.                        *)
(*                                                                         *)
(* The server's end of a connection is the set of tokens it was asked for. *)
(***************************************************************************)
EXTENDS Integers, Sequences

CONSTANTS
  Pairs,        \* <<TokenYes, TokenNo>> of the markets that discovery publishes
  MaxBackoff,   \* maxBackoff in units of the initial backoff (60)
  MaxConns,     \* bound: connections dialed
  MaxCrashes    \* bound: times the process restarts

Token == UNION {{p[1], p[2]} : p \in Pairs}

ASSUME PairAssumption  == Pairs \subseteq Seq(Token) /\ \A p \in Pairs : Len(p) = 2
ASSUME WorkerBounds == MaxBackoff \in Nat \ {0} /\ MaxConns \in Nat /\ MaxCrashes \in Nat

VARIABLES
  stage,        \* where Start is
  tokens,       \* w.tokens
  client,       \* w.client: number of a connection, 0 for nil
  subscribed,   \* w.subscribed
  backoff,      \* local of Start
  adding,       \* tokens the manager has still to add
  conn,         \* number of the latest connection
  alive,        \* it is up; the earlier ones are closed
  asked,        \* tokens asked for on it
  crashes

worker == <<tokens, client, subscribed>>
wire   == <<conn, alive, asked>>
workerVars   == <<stage, worker, backoff, adding, wire, crashes>>

WorkerTypeOK ==
  /\ stage \in {"looping", "connecting", "reading", "waiting", "stopped"}
  /\ tokens \subseteq Token
  /\ client \in 0..conn
  /\ subscribed \in BOOLEAN
  /\ backoff \in 1..MaxBackoff
  /\ adding \in {<<>>} \cup Pairs \cup {<<t>> : t \in Token}
  /\ conn \in 0..MaxConns
  /\ alive \in BOOLEAN
  /\ asked \subseteq Token
  /\ crashes \in 0..MaxCrashes

WorkerInit ==
  /\ stage = "looping"
  /\ tokens = {}
  /\ client = 0
  /\ subscribed = FALSE
  /\ backoff = 1
  /\ adding = <<>>
  /\ conn = 0
  /\ alive = FALSE
  /\ asked = {}
  /\ crashes = 0

---------------------------------------------------------------------------
(* Mutated forms of definitions below: plausible bugs, each used in place  *)
(* of its original to show that a property would notice it.                *)

\* a connection that asks for what is new only
InitialOmitsKnown == asked

\* Start does not dial again
DialOnce ==
  /\ stage = "looping" /\ tokens # {} /\ conn = 0
  /\ conn < MaxConns
  /\ conn' = conn + 1
  /\ alive' = TRUE
  /\ asked' = {}
  /\ stage' = "connecting"
  /\ UNCHANGED <<worker, backoff, adding, crashes>>

---------------------------------------------------------------------------
(* Start and connect                                                       *)

\* websocket.NewClient succeeds; client and subscribed are about to be set.
Dial ==
  /\ stage = "looping" /\ tokens # {}
  /\ conn < MaxConns
  /\ conn' = conn + 1
  /\ alive' = TRUE
  /\ asked' = {}
  /\ stage' = "connecting"
  /\ UNCHANGED <<worker, backoff, adding, crashes>>

Doubled(b) == IF 2 * b > MaxBackoff THEN MaxBackoff ELSE 2 * b

\* Start waits for the current backoff, then tries again with a doubled one.
DialFails ==
  /\ stage = "looping" /\ tokens # {}
  /\ stage' = "waiting"
  /\ UNCHANGED <<worker, backoff, adding, wire, crashes>>

WaitEnds ==
  /\ stage = "waiting"
  /\ backoff' = Doubled(backoff)
  /\ stage' = "looping"
  /\ UNCHANGED <<worker, adding, wire, crashes>>

\* What sendInitialSubscriptionLocked has asked for when its write arrives.
InitialSubscription == asked \cup tokens

\* connect, from w.client = client to its end.  A write on a connection that
\* went down may or may not report it; subscribed = false was written without
\* the lock and may come before or after what AddToken wrote.
Connect ==
  /\ stage = "connecting"
  /\ client' = conn
  /\ IF alive
     THEN /\ asked' = InitialSubscription
          /\ subscribed' = TRUE
     ELSE /\ UNCHANGED asked
          /\ subscribed' \in BOOLEAN
  /\ backoff' = 1
  /\ stage' = "reading"
  /\ UNCHANGED <<tokens, adding, conn, alive, crashes>>

\* ReadMessage fails: the connection is closed, client and subscribed stay.
ReadFails ==
  /\ stage = "reading"
  /\ ~alive
  /\ stage' = "looping"
  /\ UNCHANGED <<worker, backoff, adding, wire, crashes>>

\* ctx.Done, seen by Start; readLoop closes the connection.
Stop ==
  /\ stage \in {"looping", "waiting", "reading"}
  /\ stage' = "stopped"
  /\ alive' = FALSE
  /\ UNCHANGED <<worker, backoff, adding, conn, asked, crashes>>

---------------------------------------------------------------------------
(* The manager                                                             *)

\* A token message arrives; both tokens of the market go to the worker that
\* the first one hashes to.
Fetch(p) ==
  /\ adding = <<>>
  /\ stage # "stopped"
  /\ adding' = p
  /\ UNCHANGED <<stage, worker, backoff, wire, crashes>>

\* While connect assigns client and subscribed, AddToken may see either of
\* them before or after the assignment.
Seen    == IF stage = "connecting" THEN {client, conn} ELSE {client}
SeenSub == IF stage = "connecting" THEN {subscribed, FALSE} ELSE {subscribed}

\* What AddToken asks the connection it sees for.
AsksFor(t, seen, sub) ==
  IF seen = conn /\ alive THEN (IF sub THEN {t} ELSE tokens \cup {t}) ELSE {}

\* AddToken under the mutex.  The error of an incremental subscription is
\* ignored; an initial one that succeeds sets subscribed.
AddToken ==
  /\ adding # <<>>
  /\ LET t == Head(adding)
     IN IF t \in tokens
        THEN UNCHANGED <<tokens, subscribed, asked>>
        ELSE /\ tokens' = tokens \cup {t}
             /\ \E seen \in Seen, sub \in SeenSub :
                  IF seen = 0
                  THEN UNCHANGED <<subscribed, asked>>
                  ELSE /\ asked' = asked \cup AsksFor(t, seen, sub)
                       /\ IF sub
                          THEN UNCHANGED subscribed
                          ELSE IF seen = conn /\ alive
                               THEN subscribed' = TRUE
                               ELSE subscribed' \in {subscribed, TRUE}
  /\ adding' = Tail(adding)
  /\ UNCHANGED <<stage, client, backoff, conn, alive, crashes>>

---------------------------------------------------------------------------

ConnectionDies ==
  /\ alive
  /\ conn < MaxConns
  /\ alive' = FALSE
  /\ UNCHANGED <<stage, worker, backoff, adding, conn, asked, crashes>>

\* The process restarts.  Tokens are held in memory only, and the consumer
\* group has moved past the messages they came in.
Crash ==
  /\ crashes < MaxCrashes
  /\ conn < MaxConns
  /\ crashes' = crashes + 1
  /\ stage' = "looping"
  /\ tokens' = {}
  /\ client' = 0
  /\ subscribed' = FALSE
  /\ backoff' = 1
  /\ adding' = <<>>
  /\ alive' = FALSE
  /\ UNCHANGED <<conn, asked>>

Run == Dial \/ WaitEnds \/ Connect \/ ReadFails

WorkerNext ==
  \/ Run
  \/ DialFails
  \/ Stop
  \/ \E p \in Pairs : Fetch(p)
  \/ AddToken
  \/ ConnectionDies
  \/ Crash

WorkerSpec == WorkerInit /\ [][WorkerNext]_workerVars

---------------------------------------------------------------------------
(* Properties                                                              *)

\* While the worker reads from a connection that is up, every token it holds
\* has been asked for on this very connection, whatever order connect and
\* AddToken touched client and subscribed in.
EveryTokenAskedFor ==
  stage = "reading" /\ alive => asked = tokens

===========================================================================
