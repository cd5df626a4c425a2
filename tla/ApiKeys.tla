------------------------------ MODULE ApiKeys -------------------------------
(***************************************************************************)
(* API keys (services/api/handlers/keys.go): rows of the Postgres table    *)
(* api_keys, and the Redis entries apikey:{key} that the Auth middleware   *)
(* decides by.  HTTP handlers run concurrently and make one store call     *)
(* after another on their request's context, so that any call may fail     *)
(* (the client went away, a store is down), with or without effect.        *)
(*                                                                         *)
(* A plan stands for a row's tier and rate_limit together.                 *)
(***************************************************************************)
EXTENDS Integers

CONSTANTS
  Key,           \* keys that generateKey may return, none of them twice, and
  Stranger,      \* other strings that an admin may type for a key
  Plan,          \* values of (tier, rate_limit)
  FreePlan,      \* ("free", 0), what RegisterKey gives
  NoPlan,        \* ("", 0), the zero keyMeta
  None,          \* no row, no entry, no key
  Handler,       \* goroutines serving requests
  MaxRequests,   \* bound: requests served
  MaxFailures,   \* bound: store calls that fail
  MaxWipes       \* bound: times Redis loses its memory

ASSUME KeyAssumption   == Stranger \subseteq Key
ASSUME PlanAssumption  == FreePlan \in Plan /\ NoPlan \notin Plan
ASSUME BoundAssumption == MaxRequests \in Nat /\ MaxFailures \in Nat /\ MaxWipes \in Nat

\* A row of api_keys, a keyMeta, and the local variable k or meta.
Meta == [plan : Plan \cup {NoPlan}, active : BOOLEAN]

Op    == {"create", "update", "enable", "revoke", "activate", "delete", "rotate"}
Stage == {"update", "get", "sync", "delete", "del", "lookup", "insert", "retire"}
Job   == [op : Op, at : Stage, key : Key, old : Key \cup {None}, meta : Meta]
Idle  == None

ASSUME NoneAssumption == None \notin Key \cup Plan \cup BOOLEAN \cup Meta \cup Job

VARIABLES
  pg,         \* api_keys: a row, or None, per key
  cache,      \* apikey:{key}: a keyMeta, or None, per key
  job,        \* what each handler is doing, with its locals
  requests, fails, wipes,     \* used up so far
  issued,     \* history: keys ever inserted
  tainted,    \* history: keys whose entry may have lost touch with their row
  alone,      \* history: keys whose latest request has had them to itself
  revoked     \* history: keys revoked, and not asked to be activated since

counters == <<requests, fails, wipes>>
history  == <<issued, tainted, alone, revoked>>
vars     == <<pg, cache, job, counters, history>>

TypeOK ==
  /\ pg \in [Key -> [plan : Plan, active : BOOLEAN] \cup {None}]
  /\ cache \in [Key -> Meta \cup {None}]
  /\ job \in [Handler -> Job \cup {Idle}]
  /\ requests \in 0..MaxRequests
  /\ fails \in 0..MaxFailures
  /\ wipes \in 0..MaxWipes
  /\ issued \subseteq Key
  /\ tainted \subseteq Key
  /\ alone \subseteq Key
  /\ revoked \subseteq Key

Init ==
  /\ pg = [k \in Key |-> None]
  /\ cache = [k \in Key |-> None]
  /\ job = [h \in Handler |-> Idle]
  /\ requests = 0
  /\ fails = 0
  /\ wipes = 0
  /\ issued = {}
  /\ tainted = {}
  /\ alone = {}
  /\ revoked = {}

---------------------------------------------------------------------------
(* Helpers                                                                 *)

Row(p, a) == [plan |-> p, active |-> a]

\* A handler that is about to make store call s on key k.
At(o, s, k, m) == [op |-> o, at |-> s, key |-> k, old |-> None, meta |-> m]

Busy(k) == {h \in Handler : job[h] # Idle /\ k \in {job[h].key, job[h].old}}

\* What a request may name; generateKey returns something else.
Known == issued \cup Stranger

\* The verdict of Auth and AuthWS: an entry, and active.
Usable(k) == cache[k] # None /\ cache[k].active

\* The handler is at the given call of its code.
Doing(h, s) == job[h] # Idle /\ job[h].at = s

\* A request arrives at an idle handler.
Arrives(h) ==
  /\ job[h] = Idle
  /\ requests < MaxRequests
  /\ requests' = requests + 1
  /\ UNCHANGED wipes

\* A Postgres statement that leaves row r for k.  It succeeds and the handler
\* goes on to "next"; or the call fails, with or without effect, and the
\* handler goes on to "instead".
Exec(h, k, r, next, instead) ==
  \/ /\ pg' = [pg EXCEPT ![k] = r]
     /\ job' = [job EXCEPT ![h] = next]
     /\ UNCHANGED fails
  \/ /\ fails < MaxFailures
     /\ fails' = fails + 1
     /\ pg' \in {pg, [pg EXCEPT ![k] = r]}
     /\ job' = [job EXCEPT ![h] = instead]

\* A Redis write of entry m of k; an error is logged or ignored.
Set(h, k, m, next) ==
  /\ \/ /\ cache' = [cache EXCEPT ![k] = m]
        /\ UNCHANGED fails
     \/ /\ fails < MaxFailures
        /\ fails' = fails + 1
        /\ cache' = cache
  /\ job' = [job EXCEPT ![h] = next]

\* UPDATE ... WHERE key = k changes nothing when there is no such row.
Updated(k, r) == IF pg[k] = None THEN None ELSE r

\* What taints k in a step: a call that failed, a request that overlaps another.
Failure(k) == IF fails' > fails THEN {k} ELSE {}
Overlap(k) == IF Busy(k) # {} THEN {k} ELSE {}

\* A request for k begins.
Enters(k) == alone' = IF Busy(k) = {} THEN alone \cup {k} ELSE alone \ {k}

---------------------------------------------------------------------------
(* Mutated forms of definitions below: plausible bugs, each used in place  *)
(* of its original to show that a property would notice it.                *)

\* an update that leaves active out switches the key on
ChangedAndOn(k, plan, active) ==
  [plan |-> IF plan = None THEN pg[k].plan ELSE plan,
   active |-> IF active = None THEN TRUE ELSE active]

\* an activation written to Redis as it was read
FlagNotSet(h, active) ==
  /\ Doing(h, "get")
  /\ job[h].op = IF active THEN "activate" ELSE "revoke"
  /\ LET j == job[h]
     IN \/ /\ job' = [job EXCEPT ![h].at = "sync",
                                 ![h].meta = IF cache[j.key] = None THEN Row(NoPlan, active)
                                             ELSE cache[j.key]]
           /\ tainted' = tainted \cup (IF cache[j.key] = None THEN {j.key} ELSE {})
           /\ UNCHANGED fails
        \/ /\ fails < MaxFailures
           /\ fails' = fails + 1
           /\ job' = [job EXCEPT ![h].at = "sync", ![h].meta = Row(NoPlan, active)]
           /\ tainted' = tainted \cup {j.key}
  /\ UNCHANGED <<pg, cache, requests, wipes, issued, alone, revoked>>

\* no return after a failed INSERT
SubmitGoesOn(h, p) ==
  /\ Arrives(h)
  /\ \E k \in Key \ Known :
       /\ Exec(h, k, Row(p, TRUE), At("create", "sync", k, Row(p, TRUE)),
                                   At("create", "sync", k, Row(p, TRUE)))
       /\ issued' = IF pg'[k] = None THEN issued ELSE issued \cup {k}
       /\ tainted' = tainted \cup Failure(k)
  /\ UNCHANGED <<cache, alone, revoked>>

---------------------------------------------------------------------------
(* RegisterKey and AdminCreateKey: INSERT, then Set                        *)

Submit(h, p) ==
  /\ Arrives(h)
  /\ \E k \in Key \ Known :
       /\ Exec(h, k, Row(p, TRUE), At("create", "sync", k, Row(p, TRUE)), Idle)
       /\ issued' = IF pg'[k] = None THEN issued ELSE issued \cup {k}
       /\ tainted' = tainted \cup Failure(k)
  /\ UNCHANGED <<cache, alone, revoked>>

RegisterKey(h)    == Submit(h, FreePlan)
AdminCreateKey(h) == \E p \in Plan : Submit(h, p)

\* syncKeyToRedis, and the Set at the end of AdminRevokeKey and
\* AdminActivateKey.  RotateKey goes on with the old key; the others answer.
SyncKeyToRedis(h) ==
  /\ Doing(h, "sync")
  /\ LET j == job[h]
     IN /\ Set(h, j.key, j.meta,
               IF j.op = "rotate" THEN [j EXCEPT !.at = "retire", !.key = j.old] ELSE Idle)
        /\ tainted' = tainted \cup Failure(j.key)
        /\ revoked' = IF j.op = "revoke" /\ j.key \in alone /\ fails' = fails
                      THEN revoked \cup {j.key}
                      ELSE revoked
  /\ UNCHANGED <<pg, requests, wipes, issued, alone>>

---------------------------------------------------------------------------
(* AdminUpdateKey: SELECT, UPDATE of all three columns, Set                *)

\* The row read, with the fields of the request in place of its own; a field
\* the request leaves out is None.
Changed(k, plan, active) ==
  Row(IF plan = None THEN pg[k].plan ELSE plan,
      IF active = None THEN pg[k].active ELSE active)

\* SELECT.  An update that has the key to itself brings row and entry together
\* again, unless a later call of it fails.
AdminUpdateKey(h, k, plan, active) ==
  /\ Arrives(h)
  /\ pg[k] # None
  /\ LET o == IF active = TRUE THEN "enable" ELSE "update"
     IN  job' = [job EXCEPT ![h] = At(o, "update", k, Changed(k, plan, active))]
  /\ tainted' = IF Busy(k) = {} THEN tainted \ {k} ELSE tainted \cup {k}
  /\ Enters(k)
  /\ revoked' = IF active = TRUE THEN revoked \ {k} ELSE revoked
  /\ UNCHANGED <<pg, cache, fails, issued>>

UpdateRow(h) ==
  /\ Doing(h, "update")
  /\ LET j == job[h]
     IN /\ Exec(h, j.key, Updated(j.key, j.meta), [j EXCEPT !.at = "sync"], Idle)
        /\ tainted' = tainted \cup Failure(j.key)
  /\ UNCHANGED <<cache, requests, wipes, issued, alone, revoked>>

---------------------------------------------------------------------------
(* AdminRevokeKey and AdminActivateKey: UPDATE active, Get, Set            *)

\* UPDATE api_keys SET active = ...; the admin may name a key long deleted, or
\* anything: it updates no row then and goes on.
SwitchRow(h, k, op, active) ==
  /\ Arrives(h)
  /\ Exec(h, k, Updated(k, Row(pg[k].plan, active)), At(op, "get", k, Row(NoPlan, active)), Idle)
  /\ tainted' = tainted \cup Failure(k) \cup Overlap(k)
  /\ Enters(k)
  /\ UNCHANGED <<cache, issued>>

AdminRevokeKey(h, k) ==
  /\ SwitchRow(h, k, "revoke", FALSE)
  /\ UNCHANGED revoked

AdminActivateKey(h, k) ==
  /\ SwitchRow(h, k, "activate", TRUE)
  /\ revoked' = revoked \ {k}

\* Get: the entry with its active flag set.  No entry, or a failed call, gives
\* the zero keyMeta, without the key's plan.
GetMeta(h, active) ==
  /\ Doing(h, "get")
  /\ job[h].op = IF active THEN "activate" ELSE "revoke"
  /\ LET j == job[h]
     IN \/ /\ job' = [job EXCEPT ![h].at = "sync",
                                 ![h].meta = IF cache[j.key] = None THEN Row(NoPlan, active)
                                             ELSE Row(cache[j.key].plan, active)]
           /\ tainted' = tainted \cup (IF cache[j.key] = None THEN {j.key} ELSE {})
           /\ UNCHANGED fails
        \/ /\ fails < MaxFailures
           /\ fails' = fails + 1
           /\ job' = [job EXCEPT ![h].at = "sync", ![h].meta = Row(NoPlan, active)]
           /\ tainted' = tainted \cup {j.key}
  /\ UNCHANGED <<pg, cache, requests, wipes, issued, alone, revoked>>

---------------------------------------------------------------------------
(* AdminDeleteKey: SELECT active, DELETE, Del                              *)

AdminDeleteKey(h, k) ==
  /\ Arrives(h)
  /\ pg[k] # None
  /\ ~pg[k].active
  /\ job' = [job EXCEPT ![h] = At("delete", "delete", k, pg[k])]
  /\ tainted' = tainted \cup Overlap(k)
  /\ Enters(k)
  /\ UNCHANGED <<pg, cache, fails, issued, revoked>>

DeleteRow(h) ==
  /\ Doing(h, "delete")
  /\ LET j == job[h]
     IN /\ Exec(h, j.key, None, [j EXCEPT !.at = "del"], Idle)
        /\ tainted' = tainted \cup Failure(j.key)
  /\ UNCHANGED <<cache, requests, wipes, issued, alone, revoked>>

\* Del of apikey:{key}, the last call of AdminDeleteKey and of RotateKey
DelEntry(h) ==
  /\ Doing(h, "del")
  /\ Set(h, job[h].key, None, Idle)
  /\ tainted' = tainted \cup Failure(job[h].key)
  /\ UNCHANGED <<pg, requests, wipes, issued, alone, revoked>>

---------------------------------------------------------------------------
(* RotateKey: Auth, SELECT, INSERT and Set of the new key, then UPDATE and *)
(* Del of the old one                                                      *)

\* Auth lets the request through.
RotateKey(h, k) ==
  /\ Arrives(h)
  /\ Usable(k)
  /\ job' = [job EXCEPT ![h] = At("rotate", "lookup", k, cache[k])]
  /\ tainted' = tainted \cup Overlap(k)
  /\ Enters(k)
  /\ UNCHANGED <<pg, cache, fails, issued, revoked>>

\* SELECT: 404 when the row is gone; the new key is active whatever the old is.
LookUpOldKey(h) ==
  /\ Doing(h, "lookup")
  /\ LET k == job[h].key
     IN job' = [job EXCEPT ![h] = IF pg[k] = None THEN Idle
                                  ELSE At("rotate", "insert", k, Row(pg[k].plan, TRUE))]
  /\ UNCHANGED <<pg, cache, counters, history>>

InsertNewKey(h) ==
  /\ Doing(h, "insert")
  /\ LET j == job[h]
     IN \E k \in Key \ Known :
          /\ Exec(h, k, j.meta, [j EXCEPT !.at = "sync", !.key = k, !.old = j.key], Idle)
          /\ issued' = IF pg'[k] = None THEN issued ELSE issued \cup {k}
          /\ tainted' = tainted \cup Failure(k)
  /\ UNCHANGED <<cache, requests, wipes, alone, revoked>>

\* UPDATE ... active = false; its error is ignored.
RetireRow(h) ==
  /\ Doing(h, "retire")
  /\ LET j == job[h]
         next == [j EXCEPT !.at = "del"]
     IN /\ Exec(h, j.key, Updated(j.key, Row(pg[j.key].plan, FALSE)), next, next)
        /\ tainted' = tainted \cup Failure(j.key)
  /\ UNCHANGED <<cache, requests, wipes, issued, alone, revoked>>

---------------------------------------------------------------------------

\* Redis restarts: it is run without persistence.
Wipe ==
  /\ wipes < MaxWipes
  /\ wipes' = wipes + 1
  /\ cache' = [k \in Key |-> None]
  /\ tainted' = tainted \cup Known
  /\ UNCHANGED <<pg, job, requests, fails, issued, alone, revoked>>

Request(h) ==
  \/ RegisterKey(h)
  \/ AdminCreateKey(h)
  \/ \E k \in Known :
       \/ \E plan \in Plan \cup {None}, active \in {TRUE, FALSE, None} :
            AdminUpdateKey(h, k, plan, active)
       \/ AdminRevokeKey(h, k)
       \/ AdminActivateKey(h, k)
       \/ AdminDeleteKey(h, k)
       \/ RotateKey(h, k)

Continue(h) ==
  \/ SyncKeyToRedis(h)
  \/ UpdateRow(h)
  \/ \E active \in BOOLEAN : GetMeta(h, active)
  \/ DeleteRow(h)
  \/ DelEntry(h)
  \/ LookUpOldKey(h)
  \/ InsertNewKey(h)
  \/ RetireRow(h)

Next == Wipe \/ \E h \in Handler : Request(h) \/ Continue(h)

Spec == Init /\ [][Next]_vars

---------------------------------------------------------------------------
(* Properties                                                              *)

Agrees(k) ==
  IF pg[k] = None THEN cache[k] = None
  ELSE cache[k] = pg[k] \/ (cache[k] = None /\ ~pg[k].active)

\* Between requests, what Auth decides by is what the table says, plan and all:
\* every handler keeps row and entry together unless a call fails, Redis is
\* wiped, two requests for one key overlap, or a handler finds the entry
\* missing; and an AdminUpdateKey that nothing disturbs repairs whatever those
\* have done ("re-sync happens automatically on PATCH", key-management.md:185).
EntriesAgreeWithRows ==
  \A k \in Key \ tainted : Busy(k) = {} => Agrees(k)

\* Whatever fails and whatever overlaps, Redis gives a plan, and with it a rate
\* limit, only to keys that were in the table: INSERT comes first, and no handler
\* goes on when it fails.  An activation of any other string makes an entry too
\* (keys.go:298-313), but one without a plan.
PlansComeFromRows ==
  \A k \in Key : cache[k] # None /\ cache[k].plan # NoPlan => k \in issued

\* "Revoke: Sets active=false instantly in Redis - key stops working
\* immediately" (key-management.md:84): a revocation that had the key to itself
\* and wrote Redis holds until somebody asks for the key to be active, whatever
\* other requests come later, overlap, fail half way or find Redis wiped.
RevocationHolds ==
  \A k \in revoked : ~Usable(k)

===========================================================================
