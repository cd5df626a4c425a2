----------------------------- MODULE RateLimit ------------------------------
(***************************************************************************)
(* The fixed-window rate limiter (services/api/middleware/ratelimit.go)    *)
(* for one API key: concurrent requests that Auth let through count        *)
(* themselves on the Redis counter rl:{key}, and the one that brought it   *)
(* to 1 gives it its expiry in a second call.  An admin may delete the     *)
(* counter, or the key.                                                    *)
(*                                                                         *)
(* Time is counted in units of which Window make the minute the code uses. *)
(***************************************************************************)
EXTENDS Integers, Sequences

CONSTANTS
  HttpRequest,   \* requests that can be in flight at once
  Limits,        \* limits the key's entry may carry (60, 600, 6000, custom)
  MaxLimit,      \* the largest of them
  Window,        \* time.Minute
  MaxCount,      \* bound: requests counted on one counter
  MaxFaults      \* bound: store calls that fail, and restarts of the API

ASSUME LimitAssumption == /\ MaxLimit \in Nat \ {0}
                          /\ Limits \subseteq 1..MaxLimit
                          /\ MaxLimit \in Limits
ASSUME LimiterBounds == Window \in Nat \ {0} /\ MaxCount \in Nat /\ MaxFaults \in Nat

VARIABLES
  count,     \* rl:{key}; 0 when there is no such entry
  ttl,       \* units until it expires; 0 when it has no expiry
  usage,     \* which of usage:total:{key} and usage:daily:{key}:{today} exist
  at,        \* the next store call of each request
  lives,     \* Auth finds the key's entry, and it is active
  dels,      \* how far AdminDeleteKey has got: its next Del, once the row is gone
  faults,    \* calls that failed, and restarts, so far
  ages       \* history: how long ago the latest admissions were, newest first;
             \* an age stops counting at Window

limiterVars == <<count, ttl, usage, at, lives, dels, faults, ages>>

Counters == {"total", "daily"}

LimiterTypeOK ==
  /\ count \in 0..MaxCount
  /\ ttl \in 0..Window
  /\ count = 0 => ttl = 0
  /\ usage \subseteq Counters
  /\ at \in [HttpRequest -> {"idle", "incr", "expire", "usage"}]
  /\ lives \in BOOLEAN
  /\ dels \in {"none", "entry", "counter", "total", "done"}
  /\ faults \in 0..MaxFaults
  /\ ages \in Seq(0..Window) /\ Len(ages) <= 2 * MaxLimit + 1

LimiterInit ==
  /\ count = 0
  /\ ttl = 0
  /\ usage = {}
  /\ at = [r \in HttpRequest |-> "idle"]
  /\ lives = TRUE
  /\ dels = "none"
  /\ faults = 0
  /\ ages = <<>>

---------------------------------------------------------------------------
(* Mutated forms of definitions below: plausible bugs, each used in place  *)
(* of its original to show that a property would notice it.                *)

\* one request too many
AdmitOneMore(n, limit) == n <= limit + 1

\* the wrong request starts the window
SecondStarts(n) == n = 2

---------------------------------------------------------------------------
(* Auth, then RateLimit                                                    *)

Fault == faults < MaxFaults /\ faults' = faults + 1

\* Auth lets the request through; whatever happens to the entry later does not
\* call it back.
Auth(r) ==
  /\ at[r] = "idle"
  /\ lives
  /\ at' = [at EXCEPT ![r] = "incr"]
  /\ UNCHANGED <<count, ttl, usage, lives, dels, faults, ages>>

StartsWindow(n) == n = 1
Admit(n, limit) == n <= limit

Latest(s) == IF Len(s) > 2 * MaxLimit + 1 THEN SubSeq(s, 1, 2 * MaxLimit + 1) ELSE s

\* Incr: the value it returns decides everything the request does.
Incr(r, limit) ==
  /\ at[r] = "incr"
  /\ count < MaxCount
  /\ count' = count + 1
  /\ at' = [at EXCEPT ![r] = IF StartsWindow(count + 1) THEN "expire" ELSE "usage"]
  /\ ages' = IF Admit(count + 1, limit) THEN Latest(<<0>> \o ages) ELSE ages
  /\ UNCHANGED <<ttl, usage, lives, dels, faults>>

\* Incr failed, with or without effect: the request is served uncounted, as no
\* admission of the limiter's, and gives the counter no expiry.
IncrFails(r) ==
  /\ at[r] = "incr"
  /\ count < MaxCount
  /\ Fault
  /\ count' \in {count, count + 1}
  /\ at' = [at EXCEPT ![r] = "idle"]
  /\ UNCHANGED <<ttl, usage, lives, dels, ages>>

\* Expire, which does nothing to a counter that is gone; its error is ignored.
Expire(r) ==
  /\ at[r] = "expire"
  /\ \/ ttl' = (IF count > 0 THEN Window ELSE 0) /\ UNCHANGED faults
     \/ UNCHANGED ttl /\ Fault
  /\ at' = [at EXCEPT ![r] = "usage"]
  /\ UNCHANGED <<count, usage, lives, dels, ages>>

\* Incr of usage:total and of today's usage:daily; then the request is served
\* or turned away.
CountUsage(r) ==
  /\ at[r] = "usage"
  /\ \/ usage' = Counters /\ UNCHANGED faults
     \/ UNCHANGED usage /\ Fault
  /\ at' = [at EXCEPT ![r] = "idle"]
  /\ UNCHANGED <<count, ttl, lives, dels, ages>>

\* The API process restarts: requests in flight are gone, Redis is not.
Restart ==
  /\ Fault
  /\ at' = [r \in HttpRequest |-> "idle"]
  /\ dels' = IF dels = "none" THEN "none" ELSE "done"
  /\ UNCHANGED <<count, ttl, usage, lives, ages>>

---------------------------------------------------------------------------
(* The admin's handlers                                                    *)

\* Del of the counter; the account of admissions starts over.
DropCounter ==
  /\ count' = 0
  /\ ttl' = 0
  /\ ages' = <<>>

AdminResetUsage ==
  /\ DropCounter
  /\ UNCHANGED <<usage, at, lives, dels, faults>>

\* AdminDeleteKey has found the row revoked and removed it; the entry may have
\* stayed active, and requests that passed Auth earlier go on.
RemoveKey ==
  /\ dels = "none"
  /\ dels' = "entry"
  /\ UNCHANGED <<count, ttl, usage, at, lives, faults, ages>>

\* Its three Dels, one after another; an error of any is ignored.
DelKeyEntry ==
  /\ dels = "entry"
  /\ dels' = "counter"
  /\ \/ lives' = FALSE /\ UNCHANGED faults
     \/ UNCHANGED lives /\ Fault
  /\ UNCHANGED <<count, ttl, usage, at, ages>>

DelCounter ==
  /\ dels = "counter"
  /\ dels' = "total"
  /\ \/ DropCounter /\ UNCHANGED faults
     \/ UNCHANGED <<count, ttl, ages>> /\ Fault
  /\ UNCHANGED <<usage, at, lives>>

DelTotal ==
  /\ dels = "total"
  /\ dels' = "done"
  /\ \/ usage' = usage \ {"total"} /\ UNCHANGED faults
     \/ UNCHANGED usage /\ Fault
  /\ UNCHANGED <<count, ttl, at, lives, ages>>

DeleteKey == RemoveKey \/ DelKeyEntry \/ DelCounter \/ DelTotal

---------------------------------------------------------------------------

Tick ==
  /\ ttl' = IF ttl > 0 THEN ttl - 1 ELSE 0
  /\ count' = IF ttl = 1 THEN 0 ELSE count
  /\ ages' = [i \in 1..Len(ages) |-> IF ages[i] < Window THEN ages[i] + 1 ELSE Window]
  /\ UNCHANGED <<usage, at, lives, dels, faults>>

GoOn(r) == Expire(r) \/ CountUsage(r)

LimiterNext ==
  \/ \E r \in HttpRequest :
       \/ Auth(r)
       \/ \E limit \in Limits : Incr(r, limit)
       \/ IncrFails(r)
       \/ GoOn(r)
  \/ Restart
  \/ AdminResetUsage
  \/ DeleteKey
  \/ Tick

LimiterSpec == LimiterInit /\ [][LimiterNext]_limiterVars

\* A request goes on once it is counted, and time passes.
LimiterFairSpec == LimiterSpec /\ WF_limiterVars(Tick) /\ \A r \in HttpRequest : WF_limiterVars(GoOn(r))

---------------------------------------------------------------------------
(* Properties                                                              *)

\* However requests, failures of Expire, restarts and windows interleave, no
\* span shorter than a minute sees more than twice the limit admitted by its
\* count (resets by an admin apart): the first of any 2 * MaxLimit + 1 admissions
\* in a row is at least a minute older than the last, because between them lies
\* the whole life of some counter.  What is served because the count itself
\* failed (ratelimit.go:53-56) is beyond any limit and not counted here either.
TwiceTheLimit ==
  Len(ages) > 2 * MaxLimit => ages[2 * MaxLimit + 1] = Window

\* As long as no call fails and the API does not restart, every counter comes to
\* its end, so that a key turned away is let through again: among concurrent
\* requests and deletions of the counter, each counter finds exactly one request
\* that gives it its expiry.
UndisturbedExpires ==
  count > 0 ~> (count = 0 \/ faults > 0)

===========================================================================
