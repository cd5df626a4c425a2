------------------------------ MODULE ApiProofs ------------------------------
(***************************************************************************)
(* Who may call the API, how often, and what GET /v1/markets answers.      *)
(*                                                                         *)
(* Keys.  For any number of keys, handlers, failures and wipes: type       *)
(* correctness, Redis gives a plan to no string that was never a key of    *)
(* the table, where nothing went wrong since a key's last clean update its *)
(* entry says what its row says, and a revocation holds.                   *)
(*                                                                         *)
(* The limiter.  For any number of concurrent requests of a key, any       *)
(* limits, window and bounds: the counter, its expiry and the record of    *)
(* admissions keep their types, and no minute sees more than twice the     *)
(* limit admitted.  What matters among the types: a counter that is gone   *)
(* has no expiry, so that none is left over for the next counter.          *)
(*                                                                         *)
(* Listing.  For any markets, ids, tables, limit and number of changes,    *)
(* visits and failures: types, no market twice on a page, and what a walk  *)
(* with a category gives whose pages all come from the same tables.        *)
(***************************************************************************)
EXTENDS ApiKeys, RateLimit, MarketListing, DataLemmas

TableRow == [plan : Plan, active : BOOLEAN]

\* What a handler holds: keys that were issued or typed, and, when a row is to
\* be written from it, a plan the table admits; a plan that is to be written to
\* Redis is one of an issued key.
JobIn(j, keys) ==
  /\ j \in Job
  /\ j.key \in keys \cup Stranger
  /\ j.old \in keys \cup Stranger \cup {None}
  /\ j.at \in {"update", "insert"} => j.meta.plan \in Plan
  /\ j.at \in {"update", "sync"} /\ j.meta.plan # NoPlan => j.key \in keys
  /\ j.at = "sync" /\ j.op = "rotate" => j.old # None
  /\ j.at = "update" => j.op # "rotate"

Jobs == \A h \in Handler : job[h] = Idle \/ JobIn(job[h], issued)

Rows == \A k \in Key : pg[k] # None => k \in issued

Entry(m, k) == m # None => k \in Known /\ (m.plan # NoPlan => k \in issued)

Entries == \A k \in Key : Entry(cache[k], k)

Inv == TypeOK /\ Rows /\ Entries /\ Jobs

---------------------------------------------------------------------------
(* Lemmas on the helpers                                                   *)

\* A handler that starts or goes on, while keys are only ever added.
LEMMA JobStep ==
  ASSUME job \in [Handler -> Job \cup {Idle}], Jobs, issued \subseteq issued',
         NEW h \in Handler, NEW j, j = Idle \/ JobIn(j, issued'),
         job' = [job EXCEPT ![h] = j]
  PROVE  Jobs' /\ job' \in [Handler -> Job \cup {Idle}]
<1>1. ASSUME NEW g \in Handler PROVE job'[g] = Idle \/ JobIn(job'[g], issued')
  <2>1. CASE g = h
    <3>1. job'[g] = j
      BY <2>1
    <3> QED BY <3>1
  <2>2. CASE g # h
    <3>1. job'[g] = job[g]
      BY <2>2
    <3>2. job[g] = Idle \/ JobIn(job[g], issued)
      BY DEF Jobs
    <3> QED BY <3>1, <3>2 DEF JobIn
  <2> QED BY <2>1, <2>2
<1>2. j \in Job \cup {Idle}
  BY DEF JobIn
<1> QED BY <1>1, <1>2 DEF Jobs

\* Nothing a handler holds is lost when keys are added and no handler moves.
LEMMA JobsStay ==
  ASSUME Jobs, issued \subseteq issued', job' = job
  PROVE  Jobs'
BY DEF Jobs, JobIn

LEMMA KnownKeys == ASSUME TypeOK PROVE Known \in SUBSET Key /\ issued \in SUBSET Key
BY KeyAssumption DEF Known, TypeOK

\* The record At makes of a key.
LEMMA AtOK ==
  ASSUME NEW keys \in SUBSET Key, NEW o \in Op \ {"rotate"}, NEW s \in Stage,
         NEW k \in keys \cup Stranger,
         NEW m \in Meta, s \in {"update", "insert"} => m.plan \in Plan,
         s \in {"update", "sync"} /\ m.plan # NoPlan => k \in keys
  PROVE  JobIn(At(o, s, k, m), keys)
BY KeyAssumption DEF JobIn, At, Job

LEMMA AtRotateOK ==
  ASSUME NEW keys \in SUBSET Key, NEW s \in {"lookup", "insert"}, NEW k \in keys \cup Stranger,
         NEW m \in Meta, s \in {"update", "insert"} => m.plan \in Plan
  PROVE  JobIn(At("rotate", s, k, m), keys)
BY KeyAssumption DEF JobIn, At, Job, Op, Stage

LEMMA RowOK ==
  ASSUME NEW p \in Plan \cup {NoPlan}, NEW a \in BOOLEAN
  PROVE  /\ Row(p, a) \in Meta
         /\ Row(p, a).plan = p
         /\ p \in Plan => Row(p, a) \in TableRow
BY DEF Row, Meta, TableRow

\* A row is not the missing row.
LEMMA RowIsNotNone == ASSUME NEW r \in TableRow PROVE r # None /\ r \in Meta
BY NoneAssumption DEF TableRow, Meta

\* A statement leaves the table with rows, and the handler where it says.
LEMMA ExecStep ==
  ASSUME TypeOK, NEW h \in Handler, NEW k \in Key, NEW r \in TableRow \cup {None},
         NEW next, NEW instead, Exec(h, k, r, next, instead)
  PROVE  /\ pg' \in [Key -> TableRow \cup {None}]
         /\ \A x \in Key \ {k} : pg'[x] = pg[x]
         /\ pg'[k] \in {pg[k], r}
         /\ fails' \in 0..MaxFailures
         /\ \/ job' = [job EXCEPT ![h] = next] /\ pg'[k] = r
            \/ job' = [job EXCEPT ![h] = instead]
<1>1. pg \in [Key -> TableRow \cup {None}] /\ fails \in 0..MaxFailures /\ MaxFailures \in Nat
  BY BoundAssumption DEF TypeOK, TableRow
<1>2. [pg EXCEPT ![k] = r] \in [Key -> TableRow \cup {None}]
  BY <1>1
<1>3. [pg EXCEPT ![k] = r][k] = r /\ \A x \in Key \ {k} : [pg EXCEPT ![k] = r][x] = pg[x]
  BY <1>1
<1>4. CASE /\ pg' = [pg EXCEPT ![k] = r]
           /\ job' = [job EXCEPT ![h] = next]
           /\ UNCHANGED fails
  BY <1>1, <1>2, <1>3, <1>4
<1>5. CASE /\ fails < MaxFailures
           /\ fails' = fails + 1
           /\ pg' \in {pg, [pg EXCEPT ![k] = r]}
           /\ job' = [job EXCEPT ![h] = instead]
  <2>1. fails' \in 0..MaxFailures
    BY <1>1, <1>5
  <2>2. pg' \in [Key -> TableRow \cup {None}]
    BY <1>1, <1>2, <1>5
  <2> QED BY <1>3, <1>5, <2>1, <2>2
<1> QED BY <1>4, <1>5 DEF Exec

\* Rows stay rows of issued keys.
LEMMA RowsKept ==
  ASSUME Rows, issued \subseteq issued', NEW k \in Key, \A x \in Key \ {k} : pg'[x] = pg[x],
         pg'[k] # None => k \in issued'
  PROVE  Rows'
BY DEF Rows

\* A write to Redis adds no plan but one of an issued key.
LEMMA SetStep ==
  ASSUME TypeOK, Entries, NEW h \in Handler, NEW k \in Key,
         NEW m \in Meta \cup {None}, Entry(m, k), NEW next,
         Set(h, k, m, next), issued' = issued
  PROVE  /\ cache' \in [Key -> Meta \cup {None}]
         /\ Entries'
         /\ fails' \in 0..MaxFailures
         /\ job' = [job EXCEPT ![h] = next]
<1>1. cache \in [Key -> Meta \cup {None}] /\ fails \in 0..MaxFailures /\ MaxFailures \in Nat
  BY BoundAssumption DEF TypeOK
<1>2. fails' \in 0..MaxFailures
  BY <1>1 DEF Set
<1>3. cache' = cache \/ cache' = [cache EXCEPT ![k] = m]
  BY DEF Set
<1>4. CASE cache' = cache
  BY <1>1, <1>2, <1>4 DEF Entries, Entry, Known, Set
<1>5. CASE cache' = [cache EXCEPT ![k] = m]
  <2>1. cache' \in [Key -> Meta \cup {None}]
    BY <1>1, <1>5
  <2>2. ASSUME NEW x \in Key PROVE Entry(cache'[x], x)
    <3>1. CASE x = k
      <4>1. cache'[x] = m
        BY <1>1, <1>5, <3>1
      <4> QED BY <3>1, <4>1
    <3>2. CASE x # k
      <4>1. cache'[x] = cache[x]
        BY <1>1, <1>5, <3>2
      <4> QED BY <4>1 DEF Entries
    <3> QED BY <3>1, <3>2
  <2> QED BY <1>2, <2>1, <2>2 DEF Entries, Entry, Known, Set
<1> QED BY <1>3, <1>4, <1>5

\* UPDATE leaves a row or no row.
LEMMA UpdatedOK ==
  ASSUME TypeOK, NEW k \in Key, NEW r, pg[k] # None => r \in TableRow
  PROVE  Updated(k, r) \in TableRow \cup {None}
BY DEF Updated

\* What counts as tainted, and as arrived, keeps its type.
LEMMA CountersOK ==
  ASSUME TypeOK, NEW h \in Handler
  PROVE  /\ \A k \in Key : Failure(k) \subseteq Key /\ Overlap(k) \subseteq Key
         /\ \A k \in Key : Enters(k) => alone' \subseteq Key
         /\ Arrives(h) => requests' \in 0..MaxRequests /\ wipes' = wipes
BY BoundAssumption DEF TypeOK, Failure, Overlap, Enters, Arrives

\* The parts of Inv', for a step that may add to the issued keys.
LEMMA InvFollows ==
  ASSUME Inv, issued \subseteq issued', issued' \subseteq Key,
         tainted' \subseteq Key, alone' \subseteq Key, revoked' \subseteq Key,
         pg' \in [Key -> TableRow \cup {None}], Rows',
         \/ cache' = cache
         \/ cache' \in [Key -> Meta \cup {None}] /\ Entries',
         Jobs' /\ job' \in [Handler -> Job \cup {Idle}],
         requests' \in 0..MaxRequests, fails' \in 0..MaxFailures, wipes' \in 0..MaxWipes
  PROVE  Inv'
<1>1. TypeOK'
  BY DEF Inv, TypeOK, TableRow
<1>2. Entries'
  BY DEF Inv, Entries, Entry, Known
<1> QED BY <1>1, <1>2 DEF Inv

---------------------------------------------------------------------------
(* Every action keeps Inv                                                  *)

LEMMA SubmitKeepsInv ==
  ASSUME Inv, NEW h \in Handler, NEW p \in Plan, Submit(h, p)
  PROVE  Inv'
<1> USE DEF Inv
<1>1. PICK k \in Key \ Known :
        /\ Exec(h, k, Row(p, TRUE), At("create", "sync", k, Row(p, TRUE)), Idle)
        /\ issued' = IF pg'[k] = None THEN issued ELSE issued \cup {k}
        /\ tainted' = tainted \cup Failure(k)
  BY DEF Submit
<1>2. Row(p, TRUE) \in TableRow /\ Row(p, TRUE) # None /\ Row(p, TRUE) \in Meta
  BY RowOK, RowIsNotNone
<1>3. /\ pg' \in [Key -> TableRow \cup {None}]
      /\ \A x \in Key \ {k} : pg'[x] = pg[x]
      /\ fails' \in 0..MaxFailures
      /\ \/ /\ job' = [job EXCEPT ![h] = At("create", "sync", k, Row(p, TRUE))]
            /\ pg'[k] = Row(p, TRUE)
         \/ job' = [job EXCEPT ![h] = Idle]
  <2> DEFINE r == Row(p, TRUE)
             n == At("create", "sync", k, Row(p, TRUE))
  <2>1. Exec(h, k, r, n, Idle) /\ r \in TableRow \cup {None} /\ k \in Key
    BY <1>1, <1>2
  <2> HIDE DEF r, n
  <2>2. /\ pg' \in [Key -> TableRow \cup {None}]
        /\ \A x \in Key \ {k} : pg'[x] = pg[x]
        /\ fails' \in 0..MaxFailures
        /\ (job' = [job EXCEPT ![h] = n] /\ pg'[k] = r) \/ job' = [job EXCEPT ![h] = Idle]
    BY <2>1, ExecStep
  <2>3. QED  BY <2>2 DEF r, n
<1>4. issued \subseteq issued' /\ issued' \subseteq Key
  BY <1>1 DEF TypeOK
<1>5. Jobs' /\ job' \in [Handler -> Job \cup {Idle}]
  <2>1. job \in [Handler -> Job \cup {Idle}]
    BY DEF TypeOK
  <2>2. CASE job' = [job EXCEPT ![h] = Idle]
    BY <1>4, <2>1, <2>2, JobStep
  <2>3. CASE /\ job' = [job EXCEPT ![h] = At("create", "sync", k, Row(p, TRUE))]
             /\ pg'[k] = Row(p, TRUE)
    <3>1. k \in issued'
      BY <1>1, <1>2, <2>3
    <3>2. JobIn(At("create", "sync", k, Row(p, TRUE)), issued')
      <4>1. "create" \in Op \ {"rotate"} /\ "sync" \in Stage \ {"update", "insert"}
        BY DEF Op, Stage
      <4> QED BY <1>2, <1>4, <3>1, <4>1, AtOK
    <3> QED BY <1>4, <2>1, <2>3, <3>2, JobStep
  <2> QED BY <1>3, <2>2, <2>3
<1>6. /\ tainted' \subseteq Key /\ alone' \subseteq Key /\ revoked' \subseteq Key /\ cache' = cache
      /\ requests' \in 0..MaxRequests /\ wipes' \in 0..MaxWipes
  BY <1>1, CountersOK DEF Submit, TypeOK
<1>7. Rows'
  BY <1>1, <1>3, <1>4, RowsKept
<1> QED BY <1>3, <1>4, <1>5, <1>6, <1>7, InvFollows

LEMMA SyncKeepsInv ==
  ASSUME Inv, NEW h \in Handler, SyncKeyToRedis(h)
  PROVE  Inv'
<1> DEFINE j == job[h]
           next == IF j.op = "rotate" THEN [j EXCEPT !.at = "retire", !.key = j.old] ELSE Idle
<1> USE DEF Inv
<1>1. j # Idle /\ j.at = "sync"
  BY DEF SyncKeyToRedis, Doing
<1>2. JobIn(j, issued)
  BY <1>1 DEF Jobs
<1>3. /\ Set(h, j.key, j.meta, next)
      /\ tainted' = tainted \cup Failure(j.key)
      /\ issued' = issued
  BY DEF SyncKeyToRedis
<1>4. j.key \in Key /\ j.meta \in Meta /\ Entry(j.meta, j.key)
  BY <1>1, <1>2 DEF JobIn, Job, Entry, Known
<1>5. /\ cache' \in [Key -> Meta \cup {None}]
      /\ Entries'
      /\ fails' \in 0..MaxFailures
      /\ job' = [job EXCEPT ![h] = next]
  BY <1>3, <1>4, SetStep
<1>6. next = Idle \/ JobIn(next, issued')
  BY <1>1, <1>2, <1>3, KeyAssumption DEF JobIn, Job, Stage, TypeOK
<1>7. Jobs' /\ job' \in [Handler -> Job \cup {Idle}]
  <2>1. job \in [Handler -> Job \cup {Idle}] /\ Jobs
    BY DEF TypeOK
  <2> QED BY <1>3, <1>5, <1>6, <2>1, JobStep
<1>8. tainted' \subseteq Key /\ revoked' \subseteq Key
  BY <1>3, <1>4, CountersOK DEF SyncKeyToRedis, TypeOK
<1>9. UNCHANGED <<pg, requests, wipes, issued, alone>> /\ Rows'
  BY DEF SyncKeyToRedis, Rows
<1> QED BY <1>5, <1>7, <1>8, <1>9, InvFollows DEF TypeOK, TableRow

\* What an update is about to write is a row.
LEMMA ChangedOK ==
  ASSUME TypeOK, NEW k \in Key, pg[k] # None,
         NEW plan \in Plan \cup {None}, NEW active \in {TRUE, FALSE, None}
  PROVE  Changed(k, plan, active) \in TableRow
<1>1. pg[k] \in TableRow
  BY DEF TypeOK, TableRow
<1>2. (IF plan = None THEN pg[k].plan ELSE plan) \in Plan
  BY <1>1 DEF TableRow
<1>3. (IF active = None THEN pg[k].active ELSE active) \in BOOLEAN
  BY <1>1 DEF TableRow
<1> QED BY <1>2, <1>3 DEF Changed, Row, TableRow

LEMMA UpdateKeepsInv ==
  ASSUME Inv, NEW h \in Handler, NEW k \in Known, NEW plan \in Plan \cup {None},
         NEW active \in {TRUE, FALSE, None}, AdminUpdateKey(h, k, plan, active)
  PROVE  Inv'
<1> USE DEF Inv
<1> DEFINE o == IF active = TRUE THEN "enable" ELSE "update"
           j == At(o, "update", k, Changed(k, plan, active))
<1>1. k \in issued /\ k \in Key /\ issued \in SUBSET Key /\ pg[k] # None
  BY KnownKeys DEF Rows, AdminUpdateKey
<1>2. Changed(k, plan, active) \in TableRow
  BY <1>1, ChangedOK
<1>3. JobIn(j, issued')
  <2>1. o \in Op \ {"rotate"} /\ "update" \in Stage
    BY DEF Op, Stage
  <2>2. Changed(k, plan, active) \in Meta /\ Changed(k, plan, active).plan \in Plan
    BY <1>2, RowIsNotNone DEF TableRow
  <2>3. issued' = issued
    BY DEF AdminUpdateKey
  <2> QED BY <1>1, <2>1, <2>2, <2>3, AtOK
<1>4. job' = [job EXCEPT ![h] = j]
  BY DEF AdminUpdateKey
<1>5. Jobs' /\ job' \in [Handler -> Job \cup {Idle}]
  <2>1. job \in [Handler -> Job \cup {Idle}] /\ Jobs /\ issued' = issued
    BY DEF TypeOK, AdminUpdateKey
  <2> QED BY <1>3, <1>4, <2>1, JobStep
<1>6. tainted' \subseteq Key /\ alone' \subseteq Key /\ revoked' \subseteq Key
  BY <1>1, CountersOK DEF AdminUpdateKey, TypeOK
<1>7. UNCHANGED <<pg, cache, fails, issued>> /\ requests' \in 0..MaxRequests /\ wipes' = wipes /\ Rows'
  BY CountersOK DEF AdminUpdateKey, Rows
<1> QED BY <1>5, <1>6, <1>7, InvFollows DEF TypeOK, TableRow

\* The UPDATE with which a revocation or an activation begins.
LEMMA SwitchKeepsInv ==
  ASSUME Inv, NEW h \in Handler, NEW k \in Known, NEW op \in {"revoke", "activate"},
         NEW active \in BOOLEAN, SwitchRow(h, k, op, active), revoked' \subseteq Key
  PROVE  Inv'
<1> USE DEF Inv
<1> DEFINE r == Updated(k, Row(pg[k].plan, active))
           j == At(op, "get", k, Row(NoPlan, active))
<1>1. k \in Key /\ k \in issued \cup Stranger /\ issued \in SUBSET Key /\ issued' = issued
  BY KnownKeys DEF SwitchRow, Known
<1>2. r \in TableRow \cup {None}
  <2>1. pg[k] # None => pg[k].plan \in Plan
    BY <1>1 DEF TypeOK
  <2>2. pg[k] # None => Row(pg[k].plan, active) \in TableRow
    BY <2>1, RowOK
  <2> QED BY <1>1, <2>2, UpdatedOK
<1>3. /\ pg' \in [Key -> TableRow \cup {None}]
      /\ \A x \in Key \ {k} : pg'[x] = pg[x]
      /\ pg'[k] \in {pg[k], r}
      /\ fails' \in 0..MaxFailures
      /\ job' = [job EXCEPT ![h] = j] \/ job' = [job EXCEPT ![h] = Idle]
  <2>1. Exec(h, k, r, j, Idle)
    BY DEF SwitchRow
  <2> HIDE DEF r, j
  <2> QED BY <1>1, <1>2, <2>1, ExecStep
<1>4. JobIn(j, issued')
  <2>1. op \in Op \ {"rotate"} /\ "get" \in Stage \ {"update", "insert", "sync"}
    BY DEF Op, Stage
  <2>2. Row(NoPlan, active) \in Meta
    BY RowOK
  <2> QED BY <1>1, <2>1, <2>2, AtOK
<1>5. Jobs' /\ job' \in [Handler -> Job \cup {Idle}]
  <2>1. job \in [Handler -> Job \cup {Idle}] /\ Jobs
    BY DEF TypeOK
  <2> QED BY <1>1, <1>3, <1>4, <2>1, JobStep
<1>6. tainted' \subseteq Key /\ alone' \subseteq Key /\ cache' = cache
  BY <1>1, CountersOK DEF SwitchRow, TypeOK
<1>7. requests' \in 0..MaxRequests /\ wipes' = wipes
  BY CountersOK DEF SwitchRow
<1>8. Rows'
  <2>1. pg'[k] # None => pg[k] # None
    BY <1>3 DEF Updated
  <2>2. pg'[k] # None => k \in issued'
    BY <1>1, <2>1 DEF Rows
  <2> QED BY <1>1, <1>3, <2>2, RowsKept
<1> QED BY <1>1, <1>3, <1>5, <1>6, <1>7, <1>8, InvFollows DEF TypeOK

LEMMA GetMetaKeepsInv ==
  ASSUME Inv, NEW h \in Handler, NEW active \in BOOLEAN, GetMeta(h, active)
  PROVE  Inv'
<1> USE DEF Inv
<1> DEFINE j == job[h]
<1>1. j # Idle /\ j.at = "get" /\ j.op \in {"revoke", "activate"} /\ JobIn(j, issued)
  BY DEF GetMeta, Doing, Jobs
<1>2. j.key \in Key /\ j \in Job
  BY <1>1 DEF JobIn, Job
<1>3. PICK m \in Meta : /\ m.plan # NoPlan => j.key \in issued
                       /\ job' = [job EXCEPT ![h] = [j EXCEPT !.at = "sync", !.meta = m]]
  <2>1. Row(NoPlan, active) \in Meta /\ Row(NoPlan, active).plan = NoPlan
    BY RowOK
  <2>2. cache[j.key] # None => /\ Row(cache[j.key].plan, active) \in Meta
                               /\ Row(cache[j.key].plan, active).plan # NoPlan => j.key \in issued
    <3>1. cache[j.key] # None => cache[j.key].plan \in Plan \cup {NoPlan}
      BY <1>2 DEF TypeOK, Meta
    <3>2. Entry(cache[j.key], j.key)
      BY <1>2 DEF Entries
    <3> QED BY <3>1, <3>2, RowOK DEF Entry
  <2>3. job \in [Handler -> Job \cup {Idle}]
    BY DEF TypeOK
  <2> QED BY <1>1, <1>2, <2>1, <2>2, <2>3 DEF GetMeta
<1>4. JobIn([j EXCEPT !.at = "sync", !.meta = m], issued)
  BY <1>1, <1>2, <1>3 DEF JobIn, Job, Stage
<1>5. issued' = issued
  BY DEF GetMeta
<1>6. Jobs' /\ job' \in [Handler -> Job \cup {Idle}]
  <2>1. job \in [Handler -> Job \cup {Idle}] /\ Jobs
    BY DEF TypeOK
  <2> QED BY <1>3, <1>4, <1>5, <2>1, JobStep
<1>7. tainted' \subseteq Key /\ fails' \in 0..MaxFailures
  BY <1>2, BoundAssumption DEF GetMeta, TypeOK
<1>8. UNCHANGED <<pg, cache, requests, wipes, issued, alone, revoked>> /\ Rows'
  BY DEF GetMeta, Rows
<1> QED BY <1>6, <1>7, <1>8, InvFollows DEF TypeOK, TableRow

\* A step of a handler that makes no store call that matters here.
LEMMA QuietStep ==
  ASSUME Inv, NEW h \in Handler, NEW next, next = Idle \/ JobIn(next, issued),
         job' = [job EXCEPT ![h] = next], UNCHANGED <<pg, cache, fails, issued, revoked>>,
         tainted' \subseteq Key, alone' \subseteq Key, requests' \in 0..MaxRequests, wipes' = wipes
  PROVE  Inv'
<1>1. job \in [Handler -> Job \cup {Idle}] /\ Jobs /\ issued' = issued
  BY DEF Inv, TypeOK
<1>2. Jobs' /\ job' \in [Handler -> Job \cup {Idle}]
  BY <1>1, JobStep
<1>3. Rows'
  BY DEF Inv, Rows
<1> QED BY <1>2, <1>3, InvFollows DEF Inv, TypeOK, TableRow

\* A statement on the key a handler holds, which issues no key.
LEMMA RowStep ==
  ASSUME Inv, NEW h \in Handler, job[h] # Idle, NEW r \in TableRow \cup {None},
         NEW next, next = Idle \/ JobIn(next, issued),
         NEW instead, instead = Idle \/ JobIn(instead, issued),
         Exec(h, job[h].key, r, next, instead), tainted' = tainted \cup Failure(job[h].key),
         r # None => pg[job[h].key] # None,
         UNCHANGED <<cache, requests, wipes, issued, alone, revoked>>
  PROVE  Inv'
<1>1. job[h].key \in Key
  BY DEF Inv, Jobs, JobIn, Job
<1>2. /\ pg' \in [Key -> TableRow \cup {None}]
      /\ \A x \in Key \ {job[h].key} : pg'[x] = pg[x]
      /\ pg'[job[h].key] \in {pg[job[h].key], r}
      /\ fails' \in 0..MaxFailures
      /\ job' = [job EXCEPT ![h] = next] \/ job' = [job EXCEPT ![h] = instead]
  BY <1>1, ExecStep DEF Inv
<1>3. Jobs' /\ job' \in [Handler -> Job \cup {Idle}]
  <2>1. job \in [Handler -> Job \cup {Idle}] /\ Jobs /\ issued' = issued
    BY DEF Inv, TypeOK
  <2> QED BY <1>2, <2>1, JobStep
<1>4. tainted' \subseteq Key
  BY <1>1, CountersOK DEF Inv, TypeOK
<1>5. Rows'
  <2>1. pg'[job[h].key] # None => job[h].key \in issued'
    BY <1>1, <1>2 DEF Inv, Rows
  <2> QED BY <1>1, <1>2, <2>1, RowsKept DEF Inv
<1> QED BY <1>2, <1>3, <1>4, <1>5, InvFollows DEF Inv, TypeOK

\* What is known of a handler that is at a call.
LEMMA AtCall ==
  ASSUME Inv, NEW h \in Handler, NEW s, Doing(h, s)
  PROVE  /\ job[h] # Idle /\ job[h].at = s
         /\ JobIn(job[h], issued) /\ job[h] \in Job
         /\ job[h].key \in Known /\ job[h].key \in Key /\ job[h].meta \in Meta
BY DEF Inv, TypeOK, Jobs, JobIn, Job, Doing, Known

LEMMA RowStepsKeepInv ==
  ASSUME Inv, NEW h \in Handler, UpdateRow(h) \/ DeleteRow(h) \/ RetireRow(h)
  PROVE  Inv'
<1> DEFINE j == job[h]
<1>1. CASE UpdateRow(h)
  <2>1. /\ Exec(h, j.key, Updated(j.key, j.meta), [j EXCEPT !.at = "sync"], Idle)
        /\ tainted' = tainted \cup Failure(j.key)
        /\ UNCHANGED <<cache, requests, wipes, issued, alone, revoked>>
    BY <1>1 DEF UpdateRow
  <2>2. Doing(h, "update") /\ j # Idle
    BY <1>1 DEF UpdateRow, Doing
  <2>3. j.at = "update" /\ JobIn(j, issued) /\ j \in Job /\ j.key \in Key /\ j.meta \in Meta
    BY <2>2, AtCall
  <2>4. j.meta \in TableRow
    BY <2>3 DEF JobIn, Meta, TableRow
  <2>5. Updated(j.key, j.meta) \in TableRow \cup {None}
    BY <2>3, <2>4, UpdatedOK DEF Inv
  <2>6. JobIn([j EXCEPT !.at = "sync"], issued)
    BY <2>3 DEF JobIn, Job, Stage
  <2>7. Updated(j.key, j.meta) # None => pg[j.key] # None
    BY DEF Updated
  <2> QED BY <2>1, <2>2, <2>5, <2>6, <2>7, RowStep
<1>2. CASE DeleteRow(h)
  <2>1. /\ Exec(h, j.key, None, [j EXCEPT !.at = "del"], Idle)
        /\ tainted' = tainted \cup Failure(j.key)
        /\ UNCHANGED <<cache, requests, wipes, issued, alone, revoked>>
    BY <1>2 DEF DeleteRow
  <2>2. Doing(h, "delete") /\ j # Idle
    BY <1>2 DEF DeleteRow, Doing
  <2>3. JobIn(j, issued) /\ j \in Job
    BY <2>2, AtCall
  <2>4. JobIn([j EXCEPT !.at = "del"], issued)
    BY <2>3 DEF JobIn, Job, Stage
  <2> QED BY <2>1, <2>2, <2>4, RowStep
<1>3. CASE RetireRow(h)
  <2> DEFINE next == [j EXCEPT !.at = "del"]
             r == Updated(j.key, Row(pg[j.key].plan, FALSE))
  <2>1. /\ Exec(h, j.key, r, next, next)
        /\ tainted' = tainted \cup Failure(j.key)
        /\ UNCHANGED <<cache, requests, wipes, issued, alone, revoked>>
    BY <1>3 DEF RetireRow
  <2>2. Doing(h, "retire") /\ j # Idle
    BY <1>3 DEF RetireRow, Doing
  <2>3. JobIn(j, issued) /\ j \in Job /\ j.key \in Key
    BY <2>2, AtCall
  <2>4. JobIn(next, issued)
    BY <2>3 DEF JobIn, Job, Stage
  <2>5. r \in TableRow \cup {None}
    <3>1. pg[j.key] # None => pg[j.key].plan \in Plan
      BY <2>3 DEF Inv, TypeOK
    <3>2. pg[j.key] # None => Row(pg[j.key].plan, FALSE) \in TableRow
      BY <3>1, RowOK
    <3> QED BY <2>3, <3>2, UpdatedOK DEF Inv
  <2>6. r # None => pg[j.key] # None
    BY DEF Updated
  <2> QED BY <2>1, <2>2, <2>4, <2>5, <2>6, RowStep
<1> QED BY <1>1, <1>2, <1>3

LEMMA QuietStepsKeepInv ==
  ASSUME Inv, NEW h \in Handler,
         \/ \E k \in Known : AdminDeleteKey(h, k) \/ RotateKey(h, k)
         \/ LookUpOldKey(h)
  PROVE  Inv'
<1>1. ASSUME NEW k \in Known, AdminDeleteKey(h, k) PROVE Inv'
  <2>1. k \in Key /\ k \in issued \cup Stranger /\ issued \in SUBSET Key
    BY KnownKeys DEF Inv, Known
  <2>2. pg[k] # None /\ pg[k] \in TableRow
    BY <1>1, <2>1 DEF AdminDeleteKey, Inv, TypeOK, TableRow
  <2>3. "delete" \in Op \ {"rotate"} /\ "delete" \in Stage \ {"update", "insert", "sync"}
    BY DEF Op, Stage
  <2>4. JobIn(At("delete", "delete", k, pg[k]), issued)
    BY <2>1, <2>2, <2>3, RowIsNotNone, AtOK
  <2>5. tainted' \subseteq Key /\ alone' \subseteq Key /\ requests' \in 0..MaxRequests /\ wipes' = wipes
    BY <1>1, <2>1, CountersOK DEF AdminDeleteKey, Inv, TypeOK
  <2>6. /\ job' = [job EXCEPT ![h] = At("delete", "delete", k, pg[k])]
        /\ UNCHANGED <<pg, cache, fails, issued, revoked>>
    BY <1>1 DEF AdminDeleteKey
  <2> QED BY <2>4, <2>5, <2>6, QuietStep
<1>2. ASSUME NEW k \in Known, RotateKey(h, k) PROVE Inv'
  <2>1. k \in Key /\ k \in issued \cup Stranger /\ issued \in SUBSET Key
    BY KnownKeys DEF Inv, Known
  <2>2. cache[k] \in Meta
    BY <1>2, <2>1 DEF RotateKey, Usable, Inv, TypeOK
  <2>4. JobIn(At("rotate", "lookup", k, cache[k]), issued)
    BY <2>1, <2>2, AtRotateOK
  <2>5. tainted' \subseteq Key /\ alone' \subseteq Key /\ requests' \in 0..MaxRequests /\ wipes' = wipes
    BY <1>2, <2>1, CountersOK DEF RotateKey, Inv, TypeOK
  <2>6. /\ job' = [job EXCEPT ![h] = At("rotate", "lookup", k, cache[k])]
        /\ UNCHANGED <<pg, cache, fails, issued, revoked>>
    BY <1>2 DEF RotateKey
  <2> QED BY <2>4, <2>5, <2>6, QuietStep
<1>3. CASE LookUpOldKey(h)
  <2> DEFINE k == job[h].key
             insert == At("rotate", "insert", k, Row(pg[k].plan, TRUE))
  <2>1. k \in issued \cup Stranger /\ k \in Key /\ issued \in SUBSET Key
    BY <1>3, AtCall DEF LookUpOldKey, Inv, TypeOK, Known
  <2>2. CASE pg[k] = None
    BY <1>3, <2>2, QuietStep DEF LookUpOldKey, counters, history, Inv, TypeOK
  <2>3. CASE pg[k] # None
    <3>1. pg[k].plan \in Plan
      BY <2>1, <2>3 DEF Inv, TypeOK
    <3>2. Row(pg[k].plan, TRUE) \in Meta /\ Row(pg[k].plan, TRUE).plan \in Plan
      BY <3>1, RowOK
    <3>4. JobIn(insert, issued)
      BY <2>1, <3>2, AtRotateOK
    <3>5. job' = [job EXCEPT ![h] = insert]
      BY <1>3, <2>3 DEF LookUpOldKey
    <3>6. UNCHANGED <<pg, cache, fails, issued, revoked>> /\ UNCHANGED <<tainted, alone, requests, wipes>>
      BY <1>3 DEF LookUpOldKey, counters, history
    <3> QED BY <3>4, <3>5, <3>6, QuietStep DEF Inv, TypeOK
  <2> QED BY <2>2, <2>3
<1> QED BY <1>1, <1>2, <1>3

LEMMA InsertKeepsInv ==
  ASSUME Inv, NEW h \in Handler, InsertNewKey(h)
  PROVE  Inv'
<1> USE DEF Inv
<1> DEFINE j == job[h]
<1>1. Doing(h, "insert")
  BY DEF InsertNewKey
<1>2. j.at = "insert" /\ JobIn(j, issued) /\ j \in Job /\ j.key \in Known /\ j.meta \in TableRow
  BY <1>1, AtCall DEF JobIn, Meta, TableRow
<1>3. PICK k \in Key \ Known :
        /\ Exec(h, k, j.meta, [j EXCEPT !.at = "sync", !.key = k, !.old = j.key], Idle)
        /\ issued' = IF pg'[k] = None THEN issued ELSE issued \cup {k}
        /\ tainted' = tainted \cup Failure(k)
  BY DEF InsertNewKey
<1> DEFINE next == [j EXCEPT !.at = "sync", !.key = k, !.old = j.key]
<1>4. /\ pg' \in [Key -> TableRow \cup {None}]
      /\ \A x \in Key \ {k} : pg'[x] = pg[x]
      /\ fails' \in 0..MaxFailures
      /\ \/ job' = [job EXCEPT ![h] = next] /\ pg'[k] = j.meta
         \/ job' = [job EXCEPT ![h] = Idle]
  BY <1>2, <1>3, ExecStep
<1>5. issued \subseteq issued' /\ issued' \subseteq Key
  BY <1>3 DEF TypeOK
<1>6. Jobs' /\ job' \in [Handler -> Job \cup {Idle}]
  <2>1. job \in [Handler -> Job \cup {Idle}] /\ Jobs
    BY DEF TypeOK
  <2>2. CASE job' = [job EXCEPT ![h] = Idle]
    BY <1>5, <2>1, <2>2, JobStep
  <2>3. CASE job' = [job EXCEPT ![h] = next] /\ pg'[k] = j.meta
    <3>1. k \in issued'
      BY <1>2, <1>3, <2>3, RowIsNotNone
    <3>2. JobIn(next, issued')
      BY <1>2, <1>5, <3>1, NoneAssumption DEF JobIn, Job, Stage
    <3> QED BY <1>5, <2>1, <2>3, <3>2, JobStep
  <2> QED BY <1>4, <2>2, <2>3
<1>7. tainted' \subseteq Key
  BY <1>3, CountersOK DEF TypeOK
<1>8. UNCHANGED <<cache, requests, wipes, alone, revoked>> /\ Rows'
  BY <1>3, <1>4, <1>5, RowsKept DEF InsertNewKey
<1> QED BY <1>4, <1>5, <1>6, <1>7, <1>8, InvFollows DEF TypeOK

LEMMA DelKeepsInv ==
  ASSUME Inv, NEW h \in Handler, DelEntry(h)
  PROVE  Inv'
<1>1. job[h].key \in Key
  BY AtCall DEF DelEntry
<1>2. /\ cache' \in [Key -> Meta \cup {None}]
      /\ Entries'
      /\ fails' \in 0..MaxFailures
      /\ job' = [job EXCEPT ![h] = Idle]
  BY <1>1, SetStep DEF DelEntry, Inv, Entry
<1>3. Jobs' /\ job' \in [Handler -> Job \cup {Idle}]
  <2>1. job \in [Handler -> Job \cup {Idle}] /\ Jobs /\ issued' = issued
    BY DEF Inv, TypeOK, DelEntry
  <2> QED BY <1>2, <2>1, JobStep
<1>4. tainted' \subseteq Key
  BY <1>1, CountersOK DEF DelEntry, Inv, TypeOK
<1>5. UNCHANGED <<pg, requests, wipes, issued, alone, revoked>> /\ Rows'
  BY DEF DelEntry, Inv, Rows
<1> QED BY <1>2, <1>3, <1>4, <1>5, InvFollows DEF Inv, TypeOK, TableRow

LEMMA WipeKeepsInv ==
  ASSUME Inv, Wipe
  PROVE  Inv'
<1>1. UNCHANGED <<pg, job, requests, fails, issued, alone, revoked>> /\ Rows'
  BY DEF Wipe, Inv, Rows
<1>2. cache' \in [Key -> Meta \cup {None}] /\ Entries'
  BY DEF Wipe, Entries, Entry
<1>3. Jobs'
  BY <1>1, JobsStay DEF Inv
<1>4. tainted' \subseteq Key /\ wipes' \in 0..MaxWipes
  BY BoundAssumption, KeyAssumption DEF Wipe, Known, Inv, TypeOK
<1> QED BY <1>1, <1>2, <1>3, <1>4, InvFollows DEF Inv, TypeOK, TableRow

LEMMA NextKeepsInv == Inv /\ [Next]_vars => Inv'
<1> SUFFICES ASSUME Inv, [Next]_vars PROVE Inv'
  OBVIOUS
<1>1. CASE UNCHANGED vars
  BY <1>1, JobsStay DEF Inv, TypeOK, Rows, Entries, Entry, Known, vars, counters, history
<1>2. CASE Wipe
  BY <1>2, WipeKeepsInv
<1>3. ASSUME NEW h \in Handler, Request(h) PROVE Inv'
  <2>1. CASE RegisterKey(h)
    BY <2>1, PlanAssumption, SubmitKeepsInv DEF RegisterKey
  <2>2. CASE AdminCreateKey(h)
    BY <2>2, SubmitKeepsInv DEF AdminCreateKey
  <2>3. ASSUME NEW k \in Known, NEW plan \in Plan \cup {None}, NEW active \in {TRUE, FALSE, None},
               AdminUpdateKey(h, k, plan, active)
        PROVE  Inv'
    BY <2>3, UpdateKeepsInv
  <2>4. ASSUME NEW k \in Known, AdminRevokeKey(h, k) PROVE Inv'
    <3>1. SwitchRow(h, k, "revoke", FALSE) /\ revoked' \subseteq Key
      BY <2>4 DEF AdminRevokeKey, Inv, TypeOK
    <3> QED BY <3>1, SwitchKeepsInv
  <2>5. ASSUME NEW k \in Known, AdminActivateKey(h, k) PROVE Inv'
    <3>1. SwitchRow(h, k, "activate", TRUE) /\ revoked' \subseteq Key
      BY <2>5 DEF AdminActivateKey, Inv, TypeOK
    <3> QED BY <3>1, SwitchKeepsInv
  <2>6. ASSUME NEW k \in Known, AdminDeleteKey(h, k) \/ RotateKey(h, k) PROVE Inv'
    BY <2>6, QuietStepsKeepInv
  <2> QED BY <1>3, <2>1, <2>2, <2>3, <2>4, <2>5, <2>6 DEF Request
<1>4. ASSUME NEW h \in Handler, Continue(h) PROVE Inv'
  <2>1. CASE SyncKeyToRedis(h)
    BY <2>1, SyncKeepsInv
  <2>2. CASE UpdateRow(h) \/ DeleteRow(h) \/ RetireRow(h)
    BY <2>2, RowStepsKeepInv
  <2>3. ASSUME NEW active \in BOOLEAN, GetMeta(h, active) PROVE Inv'
    BY <2>3, GetMetaKeepsInv
  <2>4. CASE DelEntry(h)
    BY <2>4, DelKeepsInv
  <2>5. CASE LookUpOldKey(h)
    BY <2>5, QuietStepsKeepInv
  <2>6. CASE InsertNewKey(h)
    BY <2>6, InsertKeepsInv
  <2> QED BY <1>4, <2>1, <2>2, <2>3, <2>4, <2>5, <2>6 DEF Continue
<1> QED BY <1>1, <1>2, <1>3, <1>4 DEF Next

LEMMA InitInv == Init => Inv
BY BoundAssumption DEF Init, Inv, TypeOK, Rows, Entries, Entry, Jobs, Idle

---------------------------------------------------------------------------
(* Rows and entries: what a handler alone with a key has made of the two   *)

\* Agrees(k), of a row and an entry.
Match(row, entry) ==
  IF row = None THEN entry = None ELSE entry = row \/ (entry = None /\ ~row.active)

\* What the code of a handler counts on at each of its calls, about row and
\* entry of a key k that it works on.
Right(j, k, row, entry) ==
  /\ j.at = "sync" /\ k = j.key => row = j.meta
  /\ j.at = "update" /\ k = j.key => row # None
  /\ j.at = "get" /\ k = j.key => (entry # None => row = Row(entry.plan, j.op = "activate"))
  /\ j.at = "del" /\ k = j.key => row = None \/ ~row.active
  /\ j.at \in {"delete", "lookup", "insert", "retire"} \/ k # j.key => Match(row, entry)

Holds(j, k) == j # Idle /\ k \in {j.key, j.old}

\* At most one handler works on the key, and it has what it counts on.
Unharmed(k) ==
  /\ \A g, h \in Busy(k) : g = h
  /\ Busy(k) = {} => Match(pg[k], cache[k])
  /\ \A h \in Busy(k) : Right(job[h], k, pg[k], cache[k])

\* A rotation works on two keys.
TwoKeys ==
  \A h \in Handler : job[h] # Idle /\ job[h].at \in {"update", "get", "sync"} => job[h].old # job[h].key

AgreeInv == TwoKeys /\ \A k \in Key \ tainted : Unharmed(k)

\* A handler that holds an undisturbed key is alone with it.
LEMMA Alone ==
  ASSUME NEW k \in Key, Unharmed(k), NEW h \in Handler, Holds(job[h], k)
  PROVE  Busy(k) \subseteq {h} /\ Right(job[h], k, pg[k], cache[k])
<1>1. h \in Busy(k)
  BY DEF Busy, Holds
<1>2. \A g \in Busy(k) : g = h
  BY <1>1 DEF Unharmed
<1>3. Right(job[h], k, pg[k], cache[k])
  BY <1>1 DEF Unharmed
<1> QED BY <1>2, <1>3

\* A step of the only handler at a key.
LEMMA Moves ==
  ASSUME job \in [Handler -> Job \cup {Idle}], NEW k \in Key, NEW h \in Handler, NEW n,
         Busy(k) \subseteq {h}, job' = [job EXCEPT ![h] = n],
         Holds(n, k) => Right(n, k, pg'[k], cache'[k]),
         ~Holds(n, k) => Match(pg'[k], cache'[k])
  PROVE  Unharmed(k)'
<1>1. job'[h] = n /\ \A g \in Handler : g # h => job'[g] = job[g]
  OBVIOUS
<1>2. \A g \in Handler : Holds(job'[g], k) => g = h
  BY <1>1 DEF Busy, Holds
<1>3. Busy(k)' = {g \in Handler : Holds(job'[g], k)}
  BY DEF Busy, Holds
<1>4. \A g \in Busy(k)' : g = h
  BY <1>2, <1>3
<1>5. Busy(k)' = {} => Match(pg'[k], cache'[k])
  BY <1>1, <1>3
<1>6. \A g \in Busy(k)' : Right(job'[g], k, pg'[k], cache'[k])
  BY <1>1, <1>3, <1>4
<1> QED BY <1>4, <1>5, <1>6 DEF Unharmed

\* A step that is about other keys.
LEMMA Untouched ==
  ASSUME job \in [Handler -> Job \cup {Idle}], NEW k \in Key, NEW h \in Handler, NEW n,
         Unharmed(k), job' = [job EXCEPT ![h] = n], ~Holds(job[h], k), ~Holds(n, k),
         pg'[k] = pg[k], cache'[k] = cache[k]
  PROVE  Unharmed(k)'
<1>1. job'[h] = n /\ \A g \in Handler : g # h => job'[g] = job[g]
  OBVIOUS
<1>2. Busy(k) = {g \in Handler : Holds(job[g], k)} /\ Busy(k)' = {g \in Handler : Holds(job'[g], k)}
  BY DEF Busy, Holds
<1>3. \A g \in Handler : Holds(job'[g], k) <=> Holds(job[g], k)
  BY <1>1
<1>4. Busy(k)' = Busy(k)
  BY <1>2, <1>3
<1>5. \A g \in Busy(k) : job'[g] = job[g]
  BY <1>1, <1>2
<1> QED BY <1>4, <1>5 DEF Unharmed

\* What the calls of a step have done to a key that it does not taint.
LEMMA ExecUntainted ==
  ASSUME Inv, NEW h \in Handler, NEW kk \in Key, NEW r, NEW next, NEW instead,
         Exec(h, kk, r, next, instead), Failure(kk) \subseteq tainted', NEW k \in Key \ tainted'
  PROVE  \/ /\ job' = [job EXCEPT ![h] = next]
            /\ pg'[k] = IF k = kk THEN r ELSE pg[k]
         \/ /\ k # kk
            /\ job' = [job EXCEPT ![h] = instead]
            /\ pg'[k] = pg[k]
<1>1. fails \in Int /\ pg \in [Key -> [plan : Plan, active : BOOLEAN] \cup {None}]
  BY BoundAssumption DEF Inv, TypeOK
<1>2. CASE pg' = [pg EXCEPT ![kk] = r] /\ job' = [job EXCEPT ![h] = next]
  BY <1>1, <1>2
<1>3. CASE fails' = fails + 1 /\ pg' \in {pg, [pg EXCEPT ![kk] = r]} /\ job' = [job EXCEPT ![h] = instead]
  <2>1. k # kk
    BY <1>1, <1>3 DEF Failure
  <2> QED BY <1>1, <1>3, <2>1
<1> QED BY <1>2, <1>3 DEF Exec

LEMMA SetUntainted ==
  ASSUME Inv, NEW h \in Handler, NEW kk \in Key, NEW m, NEW next,
         Set(h, kk, m, next), Failure(kk) \subseteq tainted', NEW k \in Key \ tainted'
  PROVE  /\ job' = [job EXCEPT ![h] = next]
         /\ cache'[k] = IF k = kk THEN m ELSE cache[k]
<1>1. fails \in Int /\ cache \in [Key -> Meta \cup {None}]
  BY BoundAssumption DEF Inv, TypeOK
<1>2. CASE cache' = [cache EXCEPT ![kk] = m]
  BY <1>1, <1>2 DEF Set
<1>3. CASE fails' = fails + 1 /\ cache' = cache
  <2>1. k # kk
    BY <1>1, <1>3 DEF Failure
  <2> QED BY <1>1, <1>3, <2>1 DEF Set
<1> QED BY <1>2, <1>3 DEF Set

\* A key that was never issued, nor typed, is nobody's, and Redis does not know it.
LEMMA UnissuedIsFree ==
  ASSUME Inv, NEW k \in Key \ Known
  PROVE  Busy(k) = {} /\ cache[k] = None
<1>1. k # None
  BY NoneAssumption
<1>2. Busy(k) = {}
  BY <1>1 DEF Inv, Jobs, JobIn, Busy, Known
<1> QED BY <1>2 DEF Inv, Entries, Entry

\* A handler that does not begin another call on two different keys.
LEMMA TwoKeysKept ==
  ASSUME job \in [Handler -> Job \cup {Idle}], TwoKeys, NEW h \in Handler, NEW n,
         job' = [job EXCEPT ![h] = n],
         n # Idle /\ n.at \in {"update", "get", "sync"} => n.old # n.key
  PROVE  TwoKeys'
BY DEF TwoKeys

LEMMA NotIdle == ASSUME NEW j \in Job PROVE j # Idle
BY NoneAssumption DEF Idle

\* What At makes is a job.
LEMMA AtIsJob ==
  ASSUME NEW o \in Op, NEW s \in Stage, NEW k \in Key, NEW m \in Meta
  PROVE  At(o, s, k, m) \in Job
BY DEF At, Job

\* A request that makes its first call with an undisturbed key to itself, and
\* otherwise leaves the stores alone.
LEMMA Starts ==
  ASSUME Inv, NEW h \in Handler, job[h] = Idle, NEW kk \in Key, NEW n \in Job,
         n.key = kk, n.old = None, job' = [job EXCEPT ![h] = n], tainted \cup Overlap(kk) \subseteq tainted',
         cache' = cache, NEW k \in Key \ tainted', Unharmed(k), k # kk => pg'[k] = pg[k],
         k = kk /\ Match(pg[k], cache[k]) => Right(n, k, pg'[k], cache[k])
  PROVE  Unharmed(k)'
<1>1. job \in [Handler -> Job \cup {Idle}] /\ k # None /\ n # Idle
  BY NotIdle, NoneAssumption DEF Inv, TypeOK
<1>2. CASE k = kk
  <2>1. Busy(k) = {}
    BY <1>2 DEF Overlap
  <2>2. Match(pg[k], cache[k])
    BY <2>1 DEF Unharmed
  <2>3. Right(n, k, pg'[k], cache'[k]) /\ Holds(n, k)
    BY <1>1, <1>2, <2>2 DEF Holds
  <2> QED BY <1>1, <2>1, <2>3, Moves
<1>3. CASE k # kk
  <2>1. ~Holds(job[h], k) /\ ~Holds(n, k)
    BY <1>1, <1>3 DEF Holds
  <2> QED BY <1>1, <1>3, <2>1, Untouched
<1> QED BY <1>2, <1>3

\* A handler that goes on with, or leaves, the keys it holds.
LEMMA GoesOn ==
  ASSUME Inv, NEW h \in Handler, job[h] \in Job, NEW n,
         job' = [job EXCEPT ![h] = n], NEW k \in Key, Unharmed(k),
         Holds(n, k) => Holds(job[h], k),
         ~Holds(job[h], k) => pg'[k] = pg[k] /\ cache'[k] = cache[k],
         Holds(job[h], k) /\ Right(job[h], k, pg[k], cache[k])
           => IF Holds(n, k) THEN Right(n, k, pg'[k], cache'[k]) ELSE Match(pg'[k], cache'[k])
  PROVE  Unharmed(k)'
<1>1. job \in [Handler -> Job \cup {Idle}]
  BY DEF Inv, TypeOK
<1>2. CASE Holds(job[h], k)
  <2>1. Busy(k) \subseteq {h} /\ Right(job[h], k, pg[k], cache[k])
    BY <1>2, Alone
  <2> QED BY <1>1, <1>2, <2>1, Moves
<1>3. CASE ~Holds(job[h], k)
  BY <1>1, <1>3, Untouched
<1> QED BY <1>2, <1>3

LEMMA SubmitAgrees ==
  ASSUME Inv, AgreeInv, NEW h \in Handler, NEW p \in Plan, Submit(h, p)
  PROVE  AgreeInv'
<1>1. PICK kk \in Key \ Known :
        /\ Exec(h, kk, Row(p, TRUE), At("create", "sync", kk, Row(p, TRUE)), Idle)
        /\ tainted' = tainted \cup Failure(kk)
  BY DEF Submit
<1> DEFINE n == At("create", "sync", kk, Row(p, TRUE))
<1>2. job[h] = Idle /\ cache' = cache /\ job \in [Handler -> Job \cup {Idle}]
  BY DEF Submit, Arrives, Inv, TypeOK
<1>3. n \in Job
  BY RowOK, AtIsJob DEF Op, Stage
<1>4. n.at = "sync" /\ n.key = kk /\ n.old = None /\ n.meta = Row(p, TRUE) /\ kk # None
  BY NoneAssumption DEF At
<1>5. job' = [job EXCEPT ![h] = n] \/ job' = [job EXCEPT ![h] = Idle]
  BY <1>1 DEF Exec
<1>6. TwoKeys'
  BY <1>2, <1>4, <1>5, TwoKeysKept DEF AgreeInv
<1>7. ASSUME NEW k \in Key \ tainted' PROVE Unharmed(k)'
  <2>1. Unharmed(k)
    BY <1>1, <1>7 DEF AgreeInv
  <2>2. \/ job' = [job EXCEPT ![h] = n] /\ pg'[k] = IF k = kk THEN Row(p, TRUE) ELSE pg[k]
        \/ k # kk /\ job' = [job EXCEPT ![h] = Idle] /\ pg'[k] = pg[k]
    <3> DEFINE r == Row(p, TRUE)
    <3>1. Exec(h, kk, r, n, Idle) /\ Failure(kk) \subseteq tainted' /\ kk \in Key
      BY <1>1
    <3> HIDE DEF n, r
    <3>2. \/ job' = [job EXCEPT ![h] = n] /\ pg'[k] = IF k = kk THEN r ELSE pg[k]
          \/ k # kk /\ job' = [job EXCEPT ![h] = Idle] /\ pg'[k] = pg[k]
      BY <1>7, <3>1, ExecUntainted
    <3> QED BY <3>2 DEF r
  <2>3. CASE k = kk
    <3>1. Busy(k) = {} /\ job' = [job EXCEPT ![h] = n] /\ pg'[k] = n.meta
      BY <1>4, <2>2, <2>3, UnissuedIsFree
    <3>2. Right(n, k, pg'[k], cache'[k]) /\ Holds(n, k)
      BY <1>3, <1>4, <2>3, <3>1, NotIdle DEF Right, Holds
    <3> QED BY <1>2, <3>1, <3>2, Moves
  <2>4. CASE k # kk
    <3>1. ~Holds(job[h], k) /\ ~Holds(n, k) /\ ~Holds(Idle, k)
      BY <1>2, <1>4, <2>4, NoneAssumption DEF Holds
    <3> QED BY <1>2, <2>1, <2>2, <2>4, <3>1, Untouched
  <2> QED BY <2>3, <2>4
<1> QED BY <1>6, <1>7 DEF AgreeInv

LEMMA SyncAgrees ==
  ASSUME Inv, AgreeInv, NEW h \in Handler, SyncKeyToRedis(h)
  PROVE  AgreeInv'
<1> DEFINE j == job[h]
           n == IF j.op = "rotate" THEN [j EXCEPT !.at = "retire", !.key = j.old] ELSE Idle
<1>1. j # Idle /\ j.at = "sync" /\ j \in Job /\ j.key \in Key
  BY AtCall DEF SyncKeyToRedis
<1>2. /\ Set(h, j.key, j.meta, n)
      /\ tainted' = tainted \cup Failure(j.key)
      /\ pg' = pg
  BY DEF SyncKeyToRedis
<1>3. job' = [job EXCEPT ![h] = n] /\ job \in [Handler -> Job \cup {Idle}] /\ TwoKeys
  BY <1>2 DEF Set, Inv, TypeOK, AgreeInv
<1>4. j.old # j.key
  BY <1>1 DEF AgreeInv, TwoKeys
<1>5. n # Idle => n.at = "retire" /\ n.key = j.old /\ n.old = j.old
  BY <1>1 DEF Job
<1>6. TwoKeys'
  BY <1>3, <1>5, TwoKeysKept
<1>7. ASSUME NEW k \in Key \ tainted' PROVE Unharmed(k)'
  <2>1. Unharmed(k)
    BY <1>2, <1>7 DEF AgreeInv
  <2>2. cache'[k] = IF k = j.key THEN j.meta ELSE cache[k]
    BY <1>1, <1>2, <1>7, SetUntainted
  <2>3. Holds(n, k) => k = j.old
    BY <1>5 DEF Holds
  <2>4. ~Holds(j, k) => k # j.key /\ k # j.old
    BY <1>1 DEF Holds
  <2>5. ASSUME Right(j, k, pg[k], cache[k]), Holds(j, k)
        PROVE  IF Holds(n, k) THEN Right(n, k, pg'[k], cache'[k]) ELSE Match(pg'[k], cache'[k])
    <3>1. CASE k = j.key
      <4>1. pg[k] = j.meta /\ cache'[k] = j.meta /\ ~Holds(n, k)
        BY <1>1, <1>4, <2>2, <2>3, <2>5, <3>1 DEF Right
      <4>2. pg[k] # None
        BY <1>1, <4>1, NoneAssumption DEF Job
      <4> QED BY <1>2, <4>1, <4>2 DEF Match
    <3>2. CASE k # j.key
      <4>1. Match(pg'[k], cache'[k])
        BY <1>2, <2>2, <2>5, <3>2 DEF Right
      <4>2. Holds(n, k) => Right(n, k, pg'[k], cache'[k])
        BY <1>5, <4>1 DEF Right, Holds
      <4> QED BY <4>1, <4>2
    <3> QED BY <3>1, <3>2
  <2>6. (Holds(n, k) => Holds(j, k)) /\ (~Holds(j, k) => pg'[k] = pg[k] /\ cache'[k] = cache[k])
    BY <1>1, <1>2, <2>2, <2>3, <2>4 DEF Holds
  <2> HIDE DEF n
  <2> QED BY <1>1, <1>3, <2>1, <2>5, <2>6, GoesOn
<1> QED BY <1>6, <1>7 DEF AgreeInv

LEMMA UpdateAgrees ==
  ASSUME Inv, AgreeInv, NEW h \in Handler, NEW kk \in Known, NEW plan \in Plan \cup {None},
         NEW active \in {TRUE, FALSE, None}, AdminUpdateKey(h, kk, plan, active)
  PROVE  AgreeInv'
<1> DEFINE o == IF active = TRUE THEN "enable" ELSE "update"
           m == Changed(kk, plan, active)
           n == At(o, "update", kk, m)
<1>1. kk \in Key /\ pg[kk] # None /\ job[h] = Idle /\ job \in [Handler -> Job \cup {Idle}]
  BY KnownKeys DEF AdminUpdateKey, Arrives, Inv, TypeOK
<1>2. n \in Job
  <2>1. m \in Meta
    BY <1>1, ChangedOK, RowIsNotNone DEF Inv
  <2>2. o \in Op /\ "update" \in Stage
    BY DEF Op, Stage
  <2> HIDE DEF m, o
  <2> QED BY <1>1, <2>1, <2>2, AtIsJob
<1>3. n.at = "update" /\ n.key = kk /\ n.old = None /\ kk # None
  BY <1>1, NoneAssumption DEF At
<1>4. /\ job' = [job EXCEPT ![h] = n]
      /\ tainted' = IF Busy(kk) = {} THEN tainted \ {kk} ELSE tainted \cup {kk}
      /\ pg' = pg /\ cache' = cache
  BY DEF AdminUpdateKey
<1> HIDE DEF n
<1>5. TwoKeys'
  BY <1>1, <1>3, <1>4, TwoKeysKept DEF AgreeInv
<1>6. ASSUME NEW k \in Key \ tainted' PROVE Unharmed(k)'
  <2>1. CASE k = kk
    <3>1. Busy(k) = {}
      BY <1>4, <1>6, <2>1
    <3>2. Right(n, k, pg'[k], cache'[k]) /\ Holds(n, k)
      BY <1>1, <1>2, <1>3, <1>4, <2>1, NotIdle DEF Right, Holds
    <3> QED BY <1>1, <1>4, <3>1, <3>2, Moves
  <2>2. CASE k # kk
    <3>1. ~Holds(job[h], k) /\ ~Holds(n, k)
      BY <1>1, <1>3, <2>2, NoneAssumption DEF Holds
    <3>2. Unharmed(k)
      BY <1>4, <1>6, <2>2 DEF AgreeInv
    <3> QED BY <1>1, <1>4, <3>1, <3>2, Untouched
  <2> QED BY <2>1, <2>2
<1> QED BY <1>5, <1>6 DEF AgreeInv

\* The row of kk is switched in step with the entry, when there is one.
LEMMA SwitchAgrees ==
  ASSUME Inv, AgreeInv, NEW h \in Handler, NEW kk \in Known, NEW op \in {"revoke", "activate"},
         NEW active \in BOOLEAN, active = (op = "activate"), SwitchRow(h, kk, op, active)
  PROVE  AgreeInv'
<1> DEFINE r == Updated(kk, Row(pg[kk].plan, active))
           n == At(op, "get", kk, Row(NoPlan, active))
<1>1. kk \in Key /\ job[h] = Idle /\ job \in [Handler -> Job \cup {Idle}]
  BY KnownKeys DEF SwitchRow, Arrives, Inv, TypeOK
<1>2. n \in Job
  <2>1. op \in Op /\ "get" \in Stage
    BY DEF Op, Stage
  <2>2. Row(NoPlan, active) \in Meta
    BY RowOK
  <2> QED BY <1>1, <2>1, <2>2, AtIsJob
<1>3. n.op = op /\ n.at = "get" /\ n.key = kk /\ n.old = None /\ kk # None
  BY <1>1, NoneAssumption DEF At
<1>4. Exec(h, kk, r, n, Idle) /\ tainted' = tainted \cup Failure(kk) \cup Overlap(kk) /\ cache' = cache
  BY DEF SwitchRow
<1>5. pg[kk] # None => r = Row(pg[kk].plan, active)
  BY DEF Updated
<1>6. pg[kk] = None => r = None
  BY DEF Updated
<1> HIDE DEF n, r
<1>7. job' = [job EXCEPT ![h] = n] \/ job' = [job EXCEPT ![h] = Idle]
  BY <1>4 DEF Exec
<1>8. TwoKeys'
  BY <1>1, <1>3, <1>7, TwoKeysKept DEF AgreeInv
<1>9. ASSUME NEW k \in Key \ tainted' PROVE Unharmed(k)'
  <2>1. Unharmed(k)
    BY <1>4, <1>9 DEF AgreeInv
  <2>2. \/ job' = [job EXCEPT ![h] = n] /\ pg'[k] = IF k = kk THEN r ELSE pg[k]
        \/ k # kk /\ job' = [job EXCEPT ![h] = Idle] /\ pg'[k] = pg[k]
    <3>1. Failure(kk) \subseteq tainted'
      BY <1>4
    <3> QED BY <1>1, <1>4, <1>9, <3>1, ExecUntainted
  <2>3. CASE job' = [job EXCEPT ![h] = n] /\ pg'[k] = IF k = kk THEN r ELSE pg[k]
    <3>1. ASSUME k = kk, Match(pg[k], cache[k]) PROVE Right(n, k, pg'[k], cache[k])
      <4>1. cache[k] # None => pg[k] # None /\ cache[k] = pg[k]
        BY <3>1 DEF Match
      <4>2. cache[k] # None => pg'[k] = Row(cache[k].plan, n.op = "activate")
        BY <1>3, <1>5, <2>3, <3>1, <4>1
      <4> QED BY <1>3, <3>1, <4>2 DEF Right
    <3>2. tainted \cup Overlap(kk) \subseteq tainted'
      BY <1>4
    <3> QED BY <1>1, <1>2, <1>3, <1>4, <1>9, <2>1, <2>3, <3>1, <3>2, Starts
  <2>4. CASE k # kk /\ job' = [job EXCEPT ![h] = Idle] /\ pg'[k] = pg[k]
    <3>1. ~Holds(job[h], k) /\ ~Holds(Idle, k)
      BY <1>1 DEF Holds
    <3> QED BY <1>1, <1>4, <2>1, <2>4, <3>1, Untouched
  <2> QED BY <2>2, <2>3, <2>4
<1> QED BY <1>8, <1>9 DEF AgreeInv

LEMMA GetMetaAgrees ==
  ASSUME Inv, AgreeInv, NEW h \in Handler, NEW active \in BOOLEAN, GetMeta(h, active)
  PROVE  AgreeInv'
<1> DEFINE j == job[h]
<1>1. j # Idle /\ j.at = "get" /\ j \in Job /\ j.key \in Key
  BY AtCall DEF GetMeta
<1>2. active = (j.op = "activate")
  <2>1. j.op = IF active THEN "activate" ELSE "revoke"
    BY DEF GetMeta
  <2>2. CASE active = TRUE
    BY <2>1, <2>2
  <2>3. CASE active = FALSE
    BY <2>1, <2>3
  <2> QED BY <2>2, <2>3
<1>3. PICK m : job' = [job EXCEPT ![h] = [j EXCEPT !.at = "sync", !.meta = m]]
               /\ (j.key \notin tainted' => cache[j.key] # None /\ m = Row(cache[j.key].plan, active))
  <2>1. job \in [Handler -> Job \cup {Idle}]
    BY DEF Inv, TypeOK
  <2> QED BY <1>1, <2>1 DEF GetMeta
<1> DEFINE n == [j EXCEPT !.at = "sync", !.meta = m]
<1>4. n.at = "sync" /\ n.key = j.key /\ n.old = j.old /\ n.meta = m
  BY <1>1 DEF Job
<1>5. job' = [job EXCEPT ![h] = n] /\ pg' = pg /\ cache' = cache /\ tainted \subseteq tainted'
  BY <1>3 DEF GetMeta
<1> HIDE DEF n
<1>6. TwoKeys'
  <2>1. j.old # j.key
    BY <1>1 DEF AgreeInv, TwoKeys
  <2> QED BY <1>4, <1>5, <2>1, TwoKeysKept DEF AgreeInv, Inv, TypeOK
<1>7. ASSUME NEW k \in Key \ tainted' PROVE Unharmed(k)'
  <2>1. Unharmed(k)
    BY <1>5, <1>7 DEF AgreeInv
  <2>2. Holds(n, k) => Holds(j, k)
    BY <1>1, <1>4 DEF Holds
  <2>3. ASSUME Right(j, k, pg[k], cache[k]), Holds(j, k)
        PROVE  Right(n, k, pg'[k], cache'[k]) /\ (Holds(n, k) \/ Match(pg'[k], cache'[k]))
    <3>1. CASE k = j.key
      <4>1. pg[k] = m
        BY <1>1, <1>2, <1>3, <1>7, <2>3, <3>1 DEF Right
      <4>2. Right(n, k, pg'[k], cache'[k])
        BY <1>4, <1>5, <3>1, <4>1 DEF Right
      <4>3. n # Idle
        <5>1. n.meta \in Meta
          <6>1. cache[k] # None /\ m = Row(cache[k].plan, active)
            BY <1>3, <1>5, <1>7, <3>1
          <6>2. cache[k].plan \in Plan \cup {NoPlan}
            BY <6>1 DEF Inv, TypeOK, Meta
          <6> QED BY <1>4, <6>1, <6>2, RowOK
        <5>2. n \in Job
          BY <1>1, <5>1, <1>4 DEF n, Job, Stage
        <5> QED BY <5>2, NotIdle
      <4> QED BY <1>4, <3>1, <4>2, <4>3 DEF Holds
    <3>2. CASE k # j.key
      BY <1>1, <1>4, <1>5, <2>3, <3>2 DEF Right
    <3> QED BY <3>1, <3>2
  <2> QED BY <1>1, <1>5, <2>1, <2>2, <2>3, GoesOn
<1> QED BY <1>6, <1>7 DEF AgreeInv

\* A statement on the key a handler holds, after which it goes on at a call
\* that does not ask for two keys.
LEMMA RowStepAgrees ==
  ASSUME Inv, AgreeInv, NEW h \in Handler, job[h] \in Job, NEW r, NEW n, NEW instead,
         Exec(h, job[h].key, r, n, instead), tainted' = tainted \cup Failure(job[h].key), cache' = cache,
         instead \in {Idle, n},
         n # Idle /\ n.key = job[h].key /\ n.old = job[h].old,
         n.at \in {"sync", "del"}, n.at = "sync" => n.old # n.key,
         \A k \in Key : Right(job[h], k, pg[k], cache[k]) /\ k # n.key => Match(pg[k], cache[k]),
         Unharmed(job[h].key) =>
           Right(n, job[h].key, r, cache[job[h].key])
  PROVE  AgreeInv'
<1> DEFINE j == job[h]
<1>1. j # Idle /\ j.key \in Key /\ job \in [Handler -> Job \cup {Idle}]
  BY NotIdle DEF Job, Inv, TypeOK
<1>2. job' = [job EXCEPT ![h] = n] \/ job' = [job EXCEPT ![h] = Idle]
  BY DEF Exec
<1>3. TwoKeys'
  BY <1>1, <1>2, TwoKeysKept DEF AgreeInv
<1>4. ASSUME NEW k \in Key \ tainted' PROVE Unharmed(k)'
  <2>1. Unharmed(k) /\ Failure(j.key) \subseteq tainted'
    BY <1>4 DEF AgreeInv
  <2>2. \/ job' = [job EXCEPT ![h] = n] /\ pg'[k] = IF k = j.key THEN r ELSE pg[k]
        \/ k # j.key /\ job' = [job EXCEPT ![h] = instead] /\ pg'[k] = pg[k]
    BY <1>1, <1>4, <2>1, ExecUntainted
  <2>3. CASE k = j.key
    <3>1. Holds(j, k) /\ Holds(n, k)
      BY <1>1, <2>3 DEF Holds
    <3>2. Right(n, k, pg'[k], cache'[k])
      BY <2>1, <2>2, <2>3
    <3> QED BY <1>1, <2>1, <2>2, <2>3, <3>1, <3>2, GoesOn
  <2>4. CASE k # j.key
    <3>1. PICK x \in {n, Idle} : job' = [job EXCEPT ![h] = x]
      BY <1>2
    <3>2. pg'[k] = pg[k] /\ cache'[k] = cache[k]
      BY <2>2, <2>4
    <3>3. Holds(x, k) => Holds(j, k)
      BY <1>1, <3>1 DEF Holds
    <3>4. ASSUME Right(j, k, pg[k], cache[k])
          PROVE  Match(pg'[k], cache'[k]) /\ (Holds(x, k) => Right(x, k, pg'[k], cache'[k]))
      <4>1. Match(pg'[k], cache'[k])
        BY <2>4, <3>2, <3>4
      <4>2. Holds(x, k) => x = n
        BY <3>1 DEF Holds
      <4> QED BY <2>4, <4>1, <4>2 DEF Right
    <3> QED BY <1>1, <2>1, <3>1, <3>2, <3>3, <3>4, GoesOn
  <2> QED BY <2>3, <2>4
<1> QED BY <1>3, <1>4 DEF AgreeInv

LEMMA RowStepsAgree ==
  ASSUME Inv, AgreeInv, NEW h \in Handler, UpdateRow(h) \/ DeleteRow(h) \/ RetireRow(h)
  PROVE  AgreeInv'
<1> DEFINE j == job[h]
           sync == [j EXCEPT !.at = "sync"]
           del == [j EXCEPT !.at = "del"]
<1>1. \E s \in {"update", "delete", "retire"} : Doing(h, s)
  BY DEF UpdateRow, DeleteRow, RetireRow
<1>2. j # Idle /\ j.at \in {"update", "delete", "retire"} /\ j \in Job /\ j.key \in Key /\ j.meta \in Meta
  BY <1>1, AtCall
<1>3. /\ sync.at = "sync" /\ sync.key = j.key /\ sync.old = j.old /\ sync.meta = j.meta
      /\ del.at = "del" /\ del.key = j.key /\ del.old = j.old
      /\ sync \in Job /\ del \in Job
  BY <1>2 DEF Job, Stage
<1>4. sync # Idle /\ del # Idle
  BY <1>3, NotIdle
<1>5. \A k \in Key : Right(j, k, pg[k], cache[k]) /\ k # j.key => Match(pg[k], cache[k])
  BY DEF Right
<1>6. Unharmed(j.key) => Right(j, j.key, pg[j.key], cache[j.key])
  <2>1. Holds(j, j.key)
    BY <1>2 DEF Holds
  <2> QED BY <1>2, <2>1, Alone
<1>7. CASE UpdateRow(h)
  <2>1. /\ Exec(h, j.key, Updated(j.key, j.meta), sync, Idle)
        /\ tainted' = tainted \cup Failure(j.key)
        /\ cache' = cache /\ j.at = "update"
    BY <1>7 DEF UpdateRow, Doing
  <2>2. j.old # j.key
    BY <1>2, <2>1 DEF AgreeInv, TwoKeys
  <2>3. Unharmed(j.key) => Updated(j.key, j.meta) = j.meta
    BY <1>6, <2>1 DEF Updated, Right
  <2> HIDE DEF sync
  <2>4. Unharmed(j.key) => Right(sync, j.key, Updated(j.key, j.meta), cache[j.key])
    BY <1>3, <2>3 DEF Right
  <2> QED BY <1>2, <1>3, <1>4, <1>5, <2>1, <2>2, <2>4, RowStepAgrees
<1>8. CASE DeleteRow(h)
  <2>1. /\ Exec(h, j.key, None, del, Idle)
        /\ tainted' = tainted \cup Failure(j.key)
        /\ cache' = cache
    BY <1>8 DEF DeleteRow
  <2> HIDE DEF del
  <2>2. Right(del, j.key, None, cache[j.key])
    BY <1>3 DEF Right
  <2> QED BY <1>2, <1>3, <1>4, <1>5, <2>1, <2>2, RowStepAgrees
<1>9. CASE RetireRow(h)
  <2> DEFINE r == Updated(j.key, Row(pg[j.key].plan, FALSE))
  <2>1. /\ Exec(h, j.key, r, del, del)
        /\ tainted' = tainted \cup Failure(j.key)
        /\ cache' = cache
    BY <1>9 DEF RetireRow
  <2>2. r = None \/ ~r.active
    BY DEF Updated, Row
  <2> HIDE DEF del, r
  <2>3. Right(del, j.key, r, cache[j.key])
    BY <1>3, <2>2 DEF Right
  <2> QED BY <1>2, <1>3, <1>4, <1>5, <2>1, <2>3, RowStepAgrees
<1> QED BY <1>7, <1>8, <1>9

LEMMA DelAgrees ==
  ASSUME Inv, AgreeInv, NEW h \in Handler, DelEntry(h)
  PROVE  AgreeInv'
<1> DEFINE j == job[h]
<1>1. j # Idle /\ j.at = "del" /\ j \in Job /\ j.key \in Key
  BY AtCall DEF DelEntry
<1>2. /\ Set(h, j.key, None, Idle)
      /\ tainted' = tainted \cup Failure(j.key)
      /\ pg' = pg
  BY DEF DelEntry
<1>3. job' = [job EXCEPT ![h] = Idle] /\ job \in [Handler -> Job \cup {Idle}]
  BY <1>2 DEF Set, Inv, TypeOK
<1>4. TwoKeys'
  BY <1>3, TwoKeysKept DEF AgreeInv
<1>5. ASSUME NEW k \in Key \ tainted' PROVE Unharmed(k)'
  <2>1. Unharmed(k) /\ Failure(j.key) \subseteq tainted'
    BY <1>2, <1>5 DEF AgreeInv
  <2>2. cache'[k] = IF k = j.key THEN None ELSE cache[k]
    BY <1>1, <1>2, <1>5, <2>1, SetUntainted
  <2>3. Right(j, k, pg[k], cache[k]) => Match(pg'[k], cache'[k])
    BY <1>1, <1>2, <2>2 DEF Right, Match
  <2>4. ~Holds(Idle, k) /\ (~Holds(j, k) => cache'[k] = cache[k])
    BY <1>1, <2>2 DEF Holds
  <2> QED BY <1>1, <1>2, <1>3, <2>1, <2>3, <2>4, GoesOn
<1> QED BY <1>4, <1>5 DEF AgreeInv

LEMMA DeleteAgrees ==
  ASSUME Inv, AgreeInv, NEW h \in Handler, NEW kk \in Known, AdminDeleteKey(h, kk)
  PROVE  AgreeInv'
<1> DEFINE n == At("delete", "delete", kk, pg[kk])
<1>1. kk \in Key /\ job[h] = Idle /\ job \in [Handler -> Job \cup {Idle}] /\ pg[kk] \in TableRow
  BY KnownKeys DEF AdminDeleteKey, Arrives, Inv, TypeOK, TableRow
<1>2. n \in Job
  <2>1. pg[kk] \in Meta /\ "delete" \in Op /\ "delete" \in Stage
    BY <1>1, RowIsNotNone DEF Op, Stage
  <2> QED BY <1>1, <2>1, AtIsJob
<1>3. n.at = "delete" /\ n.key = kk /\ n.old = None
  BY DEF At
<1>4. /\ job' = [job EXCEPT ![h] = n]
      /\ tainted' = tainted \cup Overlap(kk)
      /\ pg' = pg /\ cache' = cache
  BY DEF AdminDeleteKey
<1> HIDE DEF n
<1>5. TwoKeys'
  BY <1>1, <1>3, <1>4, TwoKeysKept DEF AgreeInv
<1>6. ASSUME NEW k \in Key \ tainted' PROVE Unharmed(k)'
  <2>1. Unharmed(k)
    BY <1>4, <1>6 DEF AgreeInv
  <2>2. Match(pg[k], cache[k]) => Right(n, k, pg'[k], cache[k])
    BY <1>3, <1>4 DEF Right
  <2> QED BY <1>1, <1>2, <1>3, <1>4, <1>6, <2>1, <2>2, Starts
<1> QED BY <1>5, <1>6 DEF AgreeInv

LEMMA RotateAgrees ==
  ASSUME Inv, AgreeInv, NEW h \in Handler, NEW kk \in Known, RotateKey(h, kk)
  PROVE  AgreeInv'
<1> DEFINE n == At("rotate", "lookup", kk, cache[kk])
<1>1. kk \in Key /\ job[h] = Idle /\ job \in [Handler -> Job \cup {Idle}] /\ cache[kk] \in Meta
  BY KnownKeys DEF RotateKey, Usable, Arrives, Inv, TypeOK
<1>2. n \in Job
  <2>1. "rotate" \in Op /\ "lookup" \in Stage
    BY DEF Op, Stage
  <2> QED BY <1>1, <2>1, AtIsJob
<1>3. n.at = "lookup" /\ n.key = kk /\ n.old = None
  BY DEF At
<1>4. /\ job' = [job EXCEPT ![h] = n]
      /\ tainted' = tainted \cup Overlap(kk)
      /\ pg' = pg /\ cache' = cache
  BY DEF RotateKey
<1> HIDE DEF n
<1>5. TwoKeys'
  BY <1>1, <1>3, <1>4, TwoKeysKept DEF AgreeInv
<1>6. ASSUME NEW k \in Key \ tainted' PROVE Unharmed(k)'
  <2>1. Unharmed(k)
    BY <1>4, <1>6 DEF AgreeInv
  <2>2. Match(pg[k], cache[k]) => Right(n, k, pg'[k], cache[k])
    BY <1>3, <1>4 DEF Right
  <2> QED BY <1>1, <1>2, <1>3, <1>4, <1>6, <2>1, <2>2, Starts
<1> QED BY <1>5, <1>6 DEF AgreeInv

LEMMA LookUpAgrees ==
  ASSUME Inv, AgreeInv, NEW h \in Handler, LookUpOldKey(h)
  PROVE  AgreeInv'
<1> DEFINE j == job[h]
           n == IF pg[j.key] = None THEN Idle ELSE At("rotate", "insert", j.key, Row(pg[j.key].plan, TRUE))
<1>1. j # Idle /\ j.at = "lookup" /\ j \in Job /\ j.key \in Key
  BY AtCall DEF LookUpOldKey
<1>2. job' = [job EXCEPT ![h] = n] /\ tainted' = tainted /\ pg' = pg /\ cache' = cache
  BY DEF LookUpOldKey, history
<1>3. n # Idle => n.at = "insert" /\ n.key = j.key /\ n.old = None
  BY DEF At
<1> HIDE DEF n
<1>4. TwoKeys'
  BY <1>2, <1>3, TwoKeysKept DEF AgreeInv, Inv, TypeOK
<1>5. ASSUME NEW k \in Key \ tainted' PROVE Unharmed(k)'
  <2>1. Unharmed(k)
    BY <1>2, <1>5 DEF AgreeInv
  <2>2. Holds(n, k) => Holds(j, k)
    BY <1>1, <1>3, NoneAssumption DEF Holds
  <2>3. Right(j, k, pg[k], cache[k]) => Match(pg[k], cache[k])
    BY <1>1 DEF Right
  <2>4. Holds(n, k) /\ Match(pg[k], cache[k]) => Right(n, k, pg[k], cache[k])
    BY <1>3 DEF Right, Holds
  <2> QED BY <1>1, <1>2, <2>1, <2>2, <2>3, <2>4, GoesOn
<1> QED BY <1>4, <1>5 DEF AgreeInv

\* A rotation goes on with two keys, the new one its own.
LEMMA InsertAgrees ==
  ASSUME Inv, AgreeInv, NEW h \in Handler, InsertNewKey(h)
  PROVE  AgreeInv'
<1> DEFINE j == job[h]
<1>1. j # Idle /\ j.at = "insert" /\ j \in Job /\ j.key \in Key /\ j.key \in Known
  BY AtCall DEF InsertNewKey
<1>2. PICK kk \in Key \ Known :
        /\ Exec(h, kk, j.meta, [j EXCEPT !.at = "sync", !.key = kk, !.old = j.key], Idle)
        /\ tainted' = tainted \cup Failure(kk)
  BY DEF InsertNewKey
<1> DEFINE n == [j EXCEPT !.at = "sync", !.key = kk, !.old = j.key]
<1>3. /\ n \in Job /\ n.at = "sync" /\ n.key = kk /\ n.old = j.key /\ n.meta = j.meta
      /\ n.old # n.key
  BY <1>1, <1>2 DEF Job, Stage
<1>4. n # Idle /\ cache' = cache /\ job \in [Handler -> Job \cup {Idle}]
  BY <1>3, NotIdle DEF InsertNewKey, Inv, TypeOK
<1>5. Exec(h, kk, j.meta, n, Idle) /\ Failure(kk) \subseteq tainted'
  BY <1>2
<1> HIDE DEF n
<1>6. job' = [job EXCEPT ![h] = n] \/ job' = [job EXCEPT ![h] = Idle]
  BY <1>5 DEF Exec
<1>7. TwoKeys'
  BY <1>3, <1>4, <1>6, TwoKeysKept DEF AgreeInv
<1>8. ASSUME NEW k \in Key \ tainted' PROVE Unharmed(k)'
  <2>1. Unharmed(k)
    BY <1>2, <1>8 DEF AgreeInv
  <2>2. \/ job' = [job EXCEPT ![h] = n] /\ pg'[k] = IF k = kk THEN j.meta ELSE pg[k]
        \/ k # kk /\ job' = [job EXCEPT ![h] = Idle] /\ pg'[k] = pg[k]
    BY <1>2, <1>5, <1>8, ExecUntainted
  <2>3. CASE k = kk
    <3>1. Busy(k) = {}
      BY <2>3, <1>2, UnissuedIsFree
    <3>2. Right(n, k, pg'[k], cache'[k]) /\ Holds(n, k)
      BY <1>3, <1>4, <2>2, <2>3 DEF Right, Holds
    <3> QED BY <1>4, <2>2, <2>3, <3>1, <3>2, Moves
  <2>4. CASE k # kk
    <3>1. PICK x \in {n, Idle} : job' = [job EXCEPT ![h] = x]
      BY <1>6
    <3>2. pg'[k] = pg[k] /\ cache'[k] = cache[k]
      BY <1>4, <2>2, <2>4
    <3>3. Holds(x, k) => Holds(j, k)
      BY <1>1, <1>3, <2>4, <3>1 DEF Holds
    <3>4. ASSUME Right(j, k, pg[k], cache[k])
          PROVE  Match(pg'[k], cache'[k]) /\ (Holds(x, k) => Right(x, k, pg'[k], cache'[k]))
      <4>1. Match(pg'[k], cache'[k])
        BY <1>1, <3>2, <3>4 DEF Right
      <4>2. Holds(x, k) => x = n
        BY <3>1 DEF Holds
      <4> QED BY <1>3, <2>4, <4>1, <4>2 DEF Right
    <3> QED BY <1>1, <2>1, <3>1, <3>2, <3>3, <3>4, GoesOn
  <2> QED BY <2>3, <2>4
<1> QED BY <1>7, <1>8 DEF AgreeInv

LEMMA WipeAgrees ==
  ASSUME Inv, AgreeInv, Wipe
  PROVE  AgreeInv'
<1>1. UNCHANGED <<pg, job>> /\ cache' = [k \in Key |-> None] /\ tainted' = tainted \cup Known
  BY DEF Wipe
<1>2. ASSUME NEW k \in Key \ tainted' PROVE Unharmed(k)'
  <2>1. Busy(k) = {} /\ cache[k] = None /\ Unharmed(k)
    BY <1>1, <1>2, UnissuedIsFree DEF AgreeInv
  <2>2. Busy(k)' = {} /\ cache'[k] = cache[k] /\ pg'[k] = pg[k]
    BY <1>1, <2>1 DEF Busy
  <2> QED BY <2>1, <2>2 DEF Unharmed
<1> QED BY <1>1, <1>2 DEF AgreeInv, TwoKeys

LEMMA NextAgrees == Inv /\ AgreeInv /\ [Next]_vars => AgreeInv'
<1> SUFFICES ASSUME Inv, AgreeInv, [Next]_vars PROVE AgreeInv'
  OBVIOUS
<1>1. CASE UNCHANGED vars
  BY <1>1 DEF AgreeInv, TwoKeys, Unharmed, Busy, vars, history
<1>2. CASE Wipe
  BY <1>2, WipeAgrees
<1>3. ASSUME NEW h \in Handler, Request(h) PROVE AgreeInv'
  <2>1. CASE RegisterKey(h)
    BY <2>1, PlanAssumption, SubmitAgrees DEF RegisterKey
  <2>2. CASE AdminCreateKey(h)
    BY <2>2, SubmitAgrees DEF AdminCreateKey
  <2>3. ASSUME NEW k \in Known, NEW plan \in Plan \cup {None}, NEW active \in {TRUE, FALSE, None},
               AdminUpdateKey(h, k, plan, active)
        PROVE  AgreeInv'
    BY <2>3, UpdateAgrees
  <2>4. ASSUME NEW k \in Known, AdminRevokeKey(h, k) PROVE AgreeInv'
    <3>1. SwitchRow(h, k, "revoke", FALSE) /\ FALSE = ("revoke" = "activate")
      BY <2>4 DEF AdminRevokeKey
    <3> QED BY <3>1, SwitchAgrees
  <2>5. ASSUME NEW k \in Known, AdminActivateKey(h, k) PROVE AgreeInv'
    <3>1. SwitchRow(h, k, "activate", TRUE) /\ TRUE = ("activate" = "activate")
      BY <2>5 DEF AdminActivateKey
    <3> QED BY <3>1, SwitchAgrees
  <2>6. ASSUME NEW k \in Known, AdminDeleteKey(h, k) \/ RotateKey(h, k) PROVE AgreeInv'
    BY <2>6, DeleteAgrees, RotateAgrees
  <2> QED BY <1>3, <2>1, <2>2, <2>3, <2>4, <2>5, <2>6 DEF Request
<1>4. ASSUME NEW h \in Handler, Continue(h) PROVE AgreeInv'
  <2>1. ASSUME NEW active \in BOOLEAN, GetMeta(h, active) PROVE AgreeInv'
    BY <2>1, GetMetaAgrees
  <2> QED BY <1>4, <2>1, SyncAgrees, RowStepsAgree, DelAgrees, LookUpAgrees, InsertAgrees
          DEF Continue
<1> QED BY <1>1, <1>2, <1>3, <1>4 DEF Next

---------------------------------------------------------------------------
(* A revoked key: nothing is left that could switch it on again, and what  *)
(* begins later reads that it is off                                       *)

Off(row) == row = None \/ ~row.active

\* What a handler may still be about to do with a key that is revoked.
Quiet(j, k) ==
  k = j.key => /\ j.at \in {"update", "sync"} => ~j.meta.active
               /\ j.at = "get" => j.op = "revoke"

\* A revocation under way; alone with its key, it has switched the row off.
Revoking(j, k) ==
  j.key = k /\ j.op = "revoke" => /\ j.at \in {"get", "sync"} /\ j.old = None
                                  /\ j.at = "sync" => ~j.meta.active
                                  /\ k \in alone => Off(pg[k])

Kept(k) ==
  /\ k \in alone => \A g, h \in Busy(k) : g = h
  /\ k \in revoked => Off(pg[k]) /\ Off(cache[k]) /\ \A h \in Busy(k) : Quiet(job[h], k)
  /\ \A h \in Busy(k) : Revoking(job[h], k)

RevokedInv == revoked \subseteq Known /\ alone \subseteq Known /\ \A k \in Key : Kept(k)

\* A step of a handler at key k, its own or new to it.
LEMMA KeptHere ==
  ASSUME job \in [Handler -> Job \cup {Idle}], NEW k \in Key, NEW h \in Handler, NEW n,
         Kept(k), job' = [job EXCEPT ![h] = n],
         k \in alone' => Busy(k) = {} \/ (k \in alone /\ (Holds(n, k) => Holds(job[h], k))),
         k \in revoked' => /\ Off(pg'[k]) /\ Off(cache'[k])
                           /\ Holds(n, k) => Quiet(n, k)
                           /\ k \in revoked \/ Busy(k) \subseteq {h},
         Holds(n, k) => Revoking(n, k)',
         k \in alone' => Busy(k) \subseteq {h} \/ (Off(pg[k]) => Off(pg'[k]))
  PROVE  Kept(k)'
<1>1. job'[h] = n /\ \A g \in Handler : g # h => job'[g] = job[g]
  OBVIOUS
<1>2. Busy(k) = {g \in Handler : Holds(job[g], k)} /\ Busy(k)' = {g \in Handler : Holds(job'[g], k)}
  BY DEF Busy, Holds
<1>3. \A g \in Busy(k)' : g # h => g \in Busy(k) /\ job'[g] = job[g]
  BY <1>1, <1>2
<1>4. h \in Busy(k)' => Holds(n, k)
  BY <1>1, <1>2
<1>5. k \in alone' => \A f, g \in Busy(k)' : f = g
  <2>1. CASE Busy(k) = {}
    BY <1>3, <2>1
  <2>2. CASE k \in alone /\ (Holds(n, k) => Holds(job[h], k))
    BY <1>2, <1>3, <1>4, <2>2 DEF Kept
  <2>3. QED  BY <2>1, <2>2
<1>6. k \in revoked' => Off(pg'[k]) /\ Off(cache'[k]) /\ \A g \in Busy(k)' : Quiet(job'[g], k)
  <2>1. ASSUME k \in revoked', NEW g \in Busy(k)' PROVE Quiet(job'[g], k)
    <3>1. CASE g = h
      BY <1>1, <1>4, <2>1, <3>1
    <3>2. CASE g # h
      BY <1>3, <2>1, <3>2 DEF Kept
    <3>3. QED  BY <3>1, <3>2
  <2>2. QED  BY <2>1
<1>7. ASSUME NEW g \in Busy(k)' PROVE Revoking(job[g], k)'
  <2>1. CASE g = h
    BY <1>1, <1>4, <2>1 DEF Revoking
  <2>2. CASE g # h
    <3>1. Revoking(job[g], k) /\ g \in Busy(k) /\ job'[g] = job[g]
      BY <1>3, <1>7, <2>2 DEF Kept
    <3>2. k \in alone' => k \in alone /\ (Off(pg[k]) => Off(pg'[k]))
      BY <2>2, <3>1
    <3>3. QED  BY <3>1, <3>2 DEF Revoking
  <2>3. QED  BY <2>1, <2>2
<1>8. QED  BY <1>5, <1>6, <1>7 DEF Kept

\* A step that does not touch row and entry of k, after which its handler does
\* not write them from what it holds.
LEMMA KeptElsewhere ==
  ASSUME job \in [Handler -> Job \cup {Idle}], NEW k \in Key, NEW h \in Handler, NEW n,
         Kept(k), job' = [job EXCEPT ![h] = n],
         Holds(n, k) => Holds(job[h], k) /\ n.op # "revoke" /\ (n.key = k => n.at \notin {"update", "get", "sync"}),
         pg'[k] = pg[k], cache'[k] = cache[k],
         k \in alone' => k \in alone, k \in revoked' => k \in revoked
  PROVE  Kept(k)'
<1>1. Holds(n, k) => Quiet(n, k) /\ Revoking(n, k)'
  BY DEF Quiet, Revoking
<1>2. k \in revoked' => Off(pg'[k]) /\ Off(cache'[k]) /\ k \in revoked
  BY DEF Kept
<1>3. QED  BY <1>1, <1>2, KeptHere

LEMMA KnownGrows == ASSUME issued \subseteq issued' PROVE Known \subseteq Known'
BY DEF Known

\* What a statement does to the row of its key and to the others.
LEMMA ExecRows ==
  ASSUME TypeOK, NEW h \in Handler, NEW k \in Key, NEW r, NEW next, NEW instead,
         Exec(h, k, r, next, instead)
  PROVE  /\ pg'[k] \in {pg[k], r}
         /\ \A x \in Key \ {k} : pg'[x] = pg[x]
         /\ \/ job' = [job EXCEPT ![h] = next] /\ pg'[k] = r
            \/ job' = [job EXCEPT ![h] = instead]
<1>1. pg \in [Key -> [plan : Plan, active : BOOLEAN] \cup {None}]
  BY DEF TypeOK
<1>2. [pg EXCEPT ![k] = r][k] = r /\ \A x \in Key \ {k} : [pg EXCEPT ![k] = r][x] = pg[x]
  BY <1>1
<1>3. QED  BY <1>2 DEF Exec

LEMMA SetEntries ==
  ASSUME TypeOK, NEW h \in Handler, NEW k \in Key, NEW m, NEW next, Set(h, k, m, next)
  PROVE  /\ cache'[k] \in {cache[k], m} /\ (fails' = fails => cache'[k] = m)
         /\ \A x \in Key \ {k} : cache'[x] = cache[x]
         /\ job' = [job EXCEPT ![h] = next]
<1>1. cache \in [Key -> Meta \cup {None}] /\ fails \in Nat
  BY BoundAssumption DEF TypeOK
<1>2. [cache EXCEPT ![k] = m][k] = m /\ \A x \in Key \ {k} : [cache EXCEPT ![k] = m][x] = cache[x]
  BY <1>1
<1>3. fails + 1 # fails
  BY <1>1
<1>4. QED  BY <1>2, <1>3 DEF Set

LEMMA SubmitKeeps ==
  ASSUME Inv, RevokedInv, NEW h \in Handler, NEW p \in Plan, Submit(h, p)
  PROVE  RevokedInv'
<1> DEFINE r == Row(p, TRUE)
<1>1. PICK kk \in Key \ Known : /\ Exec(h, kk, r, At("create", "sync", kk, r), Idle)
                                /\ issued \subseteq issued'
  BY DEF Submit
<1> DEFINE n == At("create", "sync", kk, r)
<1>2. Exec(h, kk, r, n, Idle)
  BY <1>1
<1>3. /\ UNCHANGED <<cache, alone, revoked>> /\ TypeOK
      /\ job \in [Handler -> Job \cup {Idle}] /\ job[h] = Idle
  BY DEF Submit, Arrives, Inv, TypeOK
<1>4. n.op = "create" /\ n.key = kk /\ n.old = None
  BY DEF At
<1> HIDE DEF n, r
<1>5. /\ \A x \in Key \ {kk} : pg'[x] = pg[x]
      /\ job' = [job EXCEPT ![h] = n] \/ job' = [job EXCEPT ![h] = Idle]
  BY <1>2, <1>3, ExecRows
<1>6. PICK x \in {n, Idle} : job' = [job EXCEPT ![h] = x]
  BY <1>5
<1>7. ASSUME NEW k \in Key PROVE Kept(k)'
  <2>1. Kept(k)
    BY DEF RevokedInv
  <2>2. CASE k = kk
    <3>1. k \notin alone' /\ k \notin revoked'
      BY <1>1, <1>3, <2>2 DEF RevokedInv
    <3>2. Holds(x, k) => Revoking(x, k)'
      BY <1>4, <1>6 DEF Holds, Revoking
    <3>3. QED  BY <1>3, <1>6, <2>1, <3>1, <3>2, KeptHere
  <2>3. CASE k # kk
    <3>1. ~Holds(x, k)
      BY <1>4, <1>6, <2>3, NoneAssumption DEF Holds
    <3>2. QED  BY <1>3, <1>5, <1>6, <2>1, <2>3, <3>1, KeptElsewhere
  <2>4. QED  BY <2>2, <2>3
<1>8. QED  BY <1>1, <1>3, <1>7, KnownGrows DEF RevokedInv

LEMMA SyncKeeps ==
  ASSUME Inv, RevokedInv, NEW h \in Handler, SyncKeyToRedis(h)
  PROVE  RevokedInv'
<1> DEFINE j == job[h]
<1>1. PICK n : n = IF j.op = "rotate" THEN [j EXCEPT !.at = "retire", !.key = j.old] ELSE Idle
  OBVIOUS
<1>2. j # Idle /\ j.at = "sync" /\ j \in Job /\ j.key \in Key /\ j.key \in Known
  BY AtCall DEF SyncKeyToRedis
<1>3. /\ Set(h, j.key, j.meta, n) /\ TypeOK
      /\ revoked' = IF j.op = "revoke" /\ j.key \in alone /\ fails' = fails
                    THEN revoked \cup {j.key} ELSE revoked
      /\ UNCHANGED <<pg, issued, alone>>
  BY <1>1 DEF SyncKeyToRedis, Inv
<1>4. job \in [Handler -> Job \cup {Idle}]
  BY <1>3 DEF TypeOK
<1>5. n # Idle => n.at = "retire" /\ n.key = j.old /\ n.old = j.old /\ n.op = "rotate" /\ j.op = "rotate"
  BY <1>1, <1>2 DEF Job
<1>6. /\ cache'[j.key] \in {cache[j.key], j.meta} /\ (fails' = fails => cache'[j.key] = j.meta)
      /\ \A x \in Key \ {j.key} : cache'[x] = cache[x]
      /\ job' = [job EXCEPT ![h] = n]
  BY <1>2, <1>3, SetEntries
<1>7. ASSUME NEW k \in Key PROVE Kept(k)'
  <2>1. Kept(k) /\ (Holds(n, k) => Holds(j, k))
    BY <1>2, <1>5 DEF RevokedInv, Holds
  <2>2. CASE k = j.key
    <3>1. Holds(j, k) /\ h \in Busy(k)
      BY <1>2, <2>2 DEF Holds, Busy
    <3>2. Holds(n, k) => Quiet(n, k) /\ Revoking(n, k)'
      BY <1>5 DEF Quiet, Revoking, Holds
    <3>3. ASSUME k \in revoked' PROVE Off(pg'[k]) /\ Off(cache'[k]) /\ (k \in revoked \/ Busy(k) \subseteq {h})
      <4>1. CASE k \in revoked
        <5>1. Off(pg[k]) /\ Off(cache[k]) /\ ~j.meta.active
          BY <1>2, <2>1, <2>2, <3>1, <4>1 DEF Kept, Quiet
        <5>2. QED  BY <1>3, <1>6, <2>2, <4>1, <5>1 DEF Off
      <4>2. CASE k \notin revoked
        <5>1. j.op = "revoke" /\ k \in alone /\ fails' = fails
          BY <1>3, <2>2, <3>3, <4>2
        <5>2. ~j.meta.active /\ Off(pg[k]) /\ Busy(k) \subseteq {h}
          BY <1>2, <2>1, <2>2, <3>1, <5>1 DEF Kept, Revoking
        <5>3. QED  BY <1>3, <1>6, <2>2, <5>1, <5>2 DEF Off
      <4>3. QED  BY <4>1, <4>2
    <3>4. QED  BY <1>3, <1>4, <1>6, <2>1, <3>2, <3>3, KeptHere
  <2>3. CASE k # j.key
    <3>1. Holds(n, k) => n.op # "revoke" /\ n.at \notin {"update", "get", "sync"}
      BY <1>5 DEF Holds
    <3>2. QED  BY <1>3, <1>4, <1>6, <2>1, <2>3, <3>1, KeptElsewhere
  <2>4. QED  BY <2>2, <2>3
<1>8. QED  BY <1>2, <1>3, <1>7, KnownGrows DEF RevokedInv

\* A request begins, with its first call.
LEMMA RequestKeeps ==
  ASSUME Inv, RevokedInv, NEW h \in Handler, job[h] = Idle, NEW kk \in Known, NEW n,
         job' = [job EXCEPT ![h] = n], Enters(kk), cache' = cache, issued' = issued, revoked' \subseteq revoked,
         \A x \in Key \ {kk} : pg'[x] = pg[x],
         n # Idle => n.key = kk /\ n.old = None,
         kk \in revoked' /\ Off(pg[kk]) /\ Off(cache[kk]) => Off(pg'[kk]) /\ (n # Idle => Quiet(n, kk)),
         n # Idle /\ n.op = "revoke" => n.at = "get" /\ Off(pg'[kk]),
         Busy(kk) = {} \/ (Off(pg[kk]) => Off(pg'[kk])) \/ kk \notin alone'
  PROVE  RevokedInv'
<1>1. job \in [Handler -> Job \cup {Idle}] /\ kk \in Key
  BY KnownKeys DEF Inv, TypeOK
<1>2. /\ kk \in alone' => Busy(kk) = {}
      /\ \A k \in Key \ {kk} : k \in alone' => k \in alone
      /\ alone' \subseteq alone \cup {kk}
  BY DEF Enters
<1>3. ASSUME NEW k \in Key PROVE Kept(k)'
  <2>1. Kept(k)
    BY DEF RevokedInv
  <2>2. CASE k = kk
    <3>1. Holds(n, k) => n # Idle
      BY DEF Holds
    <3>2. Holds(n, k) => Revoking(n, k)'
      BY <2>2, <3>1 DEF Revoking
    <3>3. k \in revoked' => /\ Off(pg'[k]) /\ Off(cache'[k]) /\ k \in revoked
                            /\ Holds(n, k) => Quiet(n, k)
      BY <2>1, <2>2, <3>1 DEF Kept
    <3>4. QED  BY <1>1, <1>2, <2>1, <2>2, <3>2, <3>3, KeptHere
  <2>3. CASE k # kk
    <3>1. ~Holds(n, k)
      BY <2>3, NoneAssumption DEF Holds
    <3>2. QED  BY <1>1, <1>2, <2>1, <2>3, <3>1, KeptElsewhere
  <2>4. QED  BY <2>2, <2>3
<1>4. QED  BY <1>2, <1>3 DEF RevokedInv, Known

LEMMA UpdateKeeps ==
  ASSUME Inv, RevokedInv, NEW h \in Handler, NEW kk \in Known, NEW plan \in Plan \cup {None},
         NEW active \in {TRUE, FALSE, None}, AdminUpdateKey(h, kk, plan, active)
  PROVE  RevokedInv'
<1> DEFINE o == IF active = TRUE THEN "enable" ELSE "update"
           n == At(o, "update", kk, Changed(kk, plan, active))
<1>1. /\ job[h] = Idle /\ job' = [job EXCEPT ![h] = n] /\ Enters(kk)
      /\ UNCHANGED <<pg, cache, issued>> /\ pg[kk] # None
      /\ revoked' = IF active = TRUE THEN revoked \ {kk} ELSE revoked
  BY DEF AdminUpdateKey, Arrives
<1>2. n.key = kk /\ n.old = None /\ n.op # "revoke" /\ n.at = "update"
      /\ n.meta.active = IF active = None THEN pg[kk].active ELSE active
  BY DEF At, Changed, Row
<1>3. kk \in revoked' /\ Off(pg[kk]) => ~n.meta.active
  <2>1. kk \in revoked' => active = FALSE \/ active = None
    BY <1>1
  <2>2. Off(pg[kk]) => ~pg[kk].active
    BY <1>1 DEF Off
  <2>3. CASE active = None
    BY <1>2, <2>2, <2>3
  <2>4. CASE active # None
    BY <1>2, <2>1, <2>4
  <2>5. QED  BY <2>3, <2>4
<1> HIDE DEF n
<1>4. kk \in revoked' /\ Off(pg[kk]) => Quiet(n, kk)
  BY <1>2, <1>3 DEF Quiet
<1>5. QED  BY <1>1, <1>2, <1>4, RequestKeeps

LEMMA SwitchKeeps ==
  ASSUME Inv, RevokedInv, NEW h \in Handler, NEW kk \in Known,
         AdminRevokeKey(h, kk) \/ AdminActivateKey(h, kk)
  PROVE  RevokedInv'
<1>1. kk \in Key /\ TypeOK
  BY KnownKeys DEF Inv
<1>2. CASE AdminRevokeKey(h, kk)
  <2> DEFINE r == Updated(kk, Row(pg[kk].plan, FALSE))
             n == At("revoke", "get", kk, Row(NoPlan, FALSE))
  <2>1. /\ Exec(h, kk, r, n, Idle) /\ job[h] = Idle /\ Enters(kk)
        /\ UNCHANGED <<cache, issued, revoked>>
    BY <1>2 DEF AdminRevokeKey, SwitchRow, Arrives
  <2>2. n.key = kk /\ n.old = None /\ n.op = "revoke" /\ n.at = "get"
    BY DEF At
  <2>3. Off(r)
    BY DEF Off, Updated, Row
  <2> HIDE DEF n, r
  <2>4. /\ pg'[kk] \in {pg[kk], r} /\ \A x \in Key \ {kk} : pg'[x] = pg[x]
        /\ (job' = [job EXCEPT ![h] = n] /\ pg'[kk] = r) \/ job' = [job EXCEPT ![h] = Idle]
    BY <1>1, <2>1, ExecRows
  <2>5. Quiet(n, kk) /\ (Off(pg[kk]) => Off(pg'[kk]))
    BY <2>2, <2>3, <2>4 DEF Quiet
  <2>6. CASE job' = [job EXCEPT ![h] = n] /\ pg'[kk] = r
    BY <2>1, <2>2, <2>3, <2>4, <2>5, <2>6, RequestKeeps
  <2>7. CASE job' = [job EXCEPT ![h] = Idle]
    BY <2>1, <2>4, <2>5, <2>7, RequestKeeps
  <2>8. QED  BY <2>4, <2>6, <2>7
<1>3. CASE AdminActivateKey(h, kk)
  <2> DEFINE r == Updated(kk, Row(pg[kk].plan, TRUE))
             n == At("activate", "get", kk, Row(NoPlan, TRUE))
  <2>1. /\ Exec(h, kk, r, n, Idle) /\ job[h] = Idle /\ Enters(kk)
        /\ UNCHANGED <<cache, issued>> /\ revoked' = revoked \ {kk}
    BY <1>3 DEF AdminActivateKey, SwitchRow, Arrives
  <2>2. n.key = kk /\ n.old = None /\ n.op = "activate"
    BY DEF At
  <2> HIDE DEF n, r
  <2>4. /\ \A x \in Key \ {kk} : pg'[x] = pg[x]
        /\ job' = [job EXCEPT ![h] = n] \/ job' = [job EXCEPT ![h] = Idle]
    BY <1>1, <2>1, ExecRows
  <2>5. Busy(kk) = {} \/ kk \notin alone'
    BY <2>1 DEF Enters
  <2>6. CASE job' = [job EXCEPT ![h] = n]
    BY <2>1, <2>2, <2>4, <2>5, <2>6, RequestKeeps
  <2>7. CASE job' = [job EXCEPT ![h] = Idle]
    BY <2>1, <2>4, <2>5, <2>7, RequestKeeps
  <2>8. QED  BY <2>4, <2>6, <2>7
<1>4. QED  BY <1>2, <1>3

LEMMA DeleteOrRotateKeeps ==
  ASSUME Inv, RevokedInv, NEW h \in Handler, NEW kk \in Known,
         AdminDeleteKey(h, kk) \/ RotateKey(h, kk)
  PROVE  RevokedInv'
<1>1. PICK n : /\ job' = [job EXCEPT ![h] = n]
               /\ n.at \in {"delete", "lookup"} /\ n.op # "revoke" /\ n.key = kk /\ n.old = None
  <2>1. CASE AdminDeleteKey(h, kk)
    <3>1. PICK n : n = At("delete", "delete", kk, pg[kk])
      OBVIOUS
    <3>2. job' = [job EXCEPT ![h] = n]
      BY <2>1, <3>1 DEF AdminDeleteKey
    <3>3. n.at = "delete" /\ n.op = "delete" /\ n.key = kk /\ n.old = None
      BY <3>1 DEF At
    <3>4. QED  BY <3>2, <3>3
  <2>2. CASE RotateKey(h, kk)
    <3>1. PICK n : n = At("rotate", "lookup", kk, cache[kk])
      OBVIOUS
    <3>2. job' = [job EXCEPT ![h] = n]
      BY <2>2, <3>1 DEF RotateKey
    <3>3. n.at = "lookup" /\ n.op = "rotate" /\ n.key = kk /\ n.old = None
      BY <3>1 DEF At
    <3>4. QED  BY <3>2, <3>3
  <2>3. QED  BY <2>1, <2>2
<1>2. job[h] = Idle /\ Enters(kk) /\ UNCHANGED <<pg, cache, issued, revoked>>
  BY DEF AdminDeleteKey, RotateKey, Arrives
<1>3. Quiet(n, kk)
  BY <1>1 DEF Quiet
<1>4. QED  BY <1>1, <1>2, <1>3, RequestKeeps

\* A call of a handler on its key, after which it holds no other; entries stay.
LEMMA CallKeeps ==
  ASSUME Inv, RevokedInv, NEW h \in Handler, job[h] \in Job, job[h].key \in Key, NEW n,
         job' = [job EXCEPT ![h] = n], UNCHANGED <<issued, alone, revoked>>,
         \A x \in Key \ {job[h].key} : pg'[x] = pg[x] /\ cache'[x] = cache[x],
         n # Idle => n.key = job[h].key /\ n.old \in {job[h].old, None} /\ (n.op = "revoke" => job[h].op = "revoke"),
         Off(cache[job[h].key]) => Off(cache'[job[h].key]),
         Quiet(job[h], job[h].key) /\ Off(pg[job[h].key]) =>
           Off(pg'[job[h].key]) /\ (n # Idle => Quiet(n, job[h].key)),
         n # Idle /\ n.op = "revoke" /\ Revoking(job[h], job[h].key) => Revoking(n, job[h].key)'
  PROVE  RevokedInv'
<1> DEFINE j == job[h]
<1>1. job \in [Handler -> Job \cup {Idle}] /\ j # Idle
  BY NotIdle DEF Inv, TypeOK
<1>2. ASSUME NEW k \in Key PROVE Kept(k)'
  <2>1. Kept(k)
    BY DEF RevokedInv
  <2>2. CASE k = j.key
    <3>1. Holds(j, k) /\ h \in Busy(k)
      BY <1>1, <2>2 DEF Holds, Busy
    <3>2. Holds(n, k) => n # Idle
      BY DEF Holds
    <3>3. Revoking(j, k)
      BY <2>1, <3>1 DEF Kept
    <3>4. Holds(n, k) => Revoking(n, k)'
      <4>1. CASE n # Idle /\ n.op = "revoke"
        BY <2>2, <3>3, <4>1
      <4>2. CASE n # Idle /\ n.op # "revoke"
        BY <4>2 DEF Revoking
      <4>3. QED  BY <3>2, <4>1, <4>2
    <3>5. k \in revoked' => /\ Off(pg'[k]) /\ Off(cache'[k]) /\ k \in revoked
                            /\ Holds(n, k) => Quiet(n, k)
      BY <2>1, <2>2, <3>1, <3>2 DEF Kept
    <3>6. k \in alone' => k \in alone /\ Busy(k) \subseteq {h}
      BY <2>1, <3>1 DEF Kept
    <3>7. QED  BY <1>1, <2>1, <3>1, <3>4, <3>5, <3>6, KeptHere
  <2>3. CASE k # j.key
    <3>1. h \in Busy(j.key) /\ Kept(j.key)
      BY <1>1 DEF Busy, RevokedInv
    <3>2. j.op = "revoke" => j.old = None
      BY <3>1 DEF Kept, Revoking
    <3>3. Holds(n, k) => Holds(j, k) /\ n.op # "revoke" /\ n.key # k
      BY <1>1, <2>3, <3>2, NoneAssumption DEF Holds
    <3>4. QED  BY <1>1, <2>1, <2>3, <3>3, KeptElsewhere
  <2>4. QED  BY <2>2, <2>3
<1>3. QED  BY <1>2 DEF RevokedInv, Known

LEMMA RowCallsKeep ==
  ASSUME Inv, RevokedInv, NEW h \in Handler, UpdateRow(h) \/ DeleteRow(h) \/ RetireRow(h)
  PROVE  RevokedInv'
<1> DEFINE j == job[h]
<1>1. j \in Job /\ j # Idle /\ j.key \in Key /\ UNCHANGED <<cache, issued, alone, revoked>> /\ TypeOK
  BY AtCall DEF UpdateRow, DeleteRow, RetireRow, Inv
<1>2. CASE UpdateRow(h)
  <2> DEFINE r == Updated(j.key, j.meta)
             n == [j EXCEPT !.at = "sync"]
  <2>1. Exec(h, j.key, r, n, Idle) /\ j.at = "update"
    BY <1>2 DEF UpdateRow, Doing
  <2>2. /\ n.key = j.key /\ n.old = j.old /\ n.op = j.op /\ n.at = "sync" /\ n.meta = j.meta
        /\ r \in {None, j.meta}
    BY <1>1 DEF Job, Updated
  <2> HIDE DEF n, r
  <2>3. /\ pg'[j.key] \in {pg[j.key], r} /\ \A x \in Key \ {j.key} : pg'[x] = pg[x]
        /\ job' = [job EXCEPT ![h] = n] \/ job' = [job EXCEPT ![h] = Idle]
    BY <1>1, <2>1, ExecRows
  <2>4. ASSUME Quiet(j, j.key), Off(pg[j.key]) PROVE Off(pg'[j.key]) /\ Quiet(n, j.key)
    <3>1. ~j.meta.active
      BY <2>1, <2>4 DEF Quiet
    <3>2. Off(r)
      BY <2>2, <3>1 DEF Off
    <3>3. Quiet(n, j.key)
      BY <2>2, <3>1 DEF Quiet
    <3>4. QED  BY <2>3, <2>4, <3>2, <3>3
  <2>5. n.op = "revoke" => ~Revoking(j, j.key)
    BY <2>1, <2>2 DEF Revoking
  <2>6. PICK x \in {n, Idle} : job' = [job EXCEPT ![h] = x]
    BY <2>3
  <2>7. QED  BY <1>1, <2>2, <2>3, <2>4, <2>5, <2>6, CallKeeps
<1>3. CASE DeleteRow(h) \/ RetireRow(h)
  <2> DEFINE n == [j EXCEPT !.at = "del"]
  <2>1. PICK r : Off(r) /\ (Exec(h, j.key, r, n, Idle) \/ Exec(h, j.key, r, n, n))
    <3>1. CASE DeleteRow(h)
      <4>1. Exec(h, j.key, None, n, Idle)
        BY <3>1 DEF DeleteRow
      <4>2. Off(None)
        BY DEF Off
      <4> HIDE DEF n
      <4>3. QED  BY <4>1, <4>2
    <3>2. CASE RetireRow(h)
      <4>1. Exec(h, j.key, Updated(j.key, Row(pg[j.key].plan, FALSE)), n, n)
        BY <3>2 DEF RetireRow
      <4>2. Off(Updated(j.key, Row(pg[j.key].plan, FALSE)))
        BY DEF Off, Updated, Row
      <4> HIDE DEF n
      <4>3. QED  BY <4>1, <4>2
    <3>3. QED  BY <1>3, <3>1, <3>2
  <2>2. n.key = j.key /\ n.old = j.old /\ n.op = j.op /\ n.at = "del" /\ j.at \in {"delete", "retire"}
    BY <1>1, <1>3 DEF Job, DeleteRow, RetireRow, Doing
  <2> HIDE DEF n
  <2>3. /\ pg'[j.key] \in {pg[j.key], r} /\ \A x \in Key \ {j.key} : pg'[x] = pg[x]
        /\ job' = [job EXCEPT ![h] = n] \/ job' = [job EXCEPT ![h] = Idle]
    BY <1>1, <2>1, ExecRows
  <2>4. Quiet(n, j.key) /\ (Off(pg[j.key]) => Off(pg'[j.key]))
    BY <2>1, <2>2, <2>3 DEF Quiet
  <2>5. n.op = "revoke" => ~Revoking(j, j.key)
    BY <2>2 DEF Revoking
  <2>6. PICK x \in {n, Idle} : job' = [job EXCEPT ![h] = x]
    BY <2>3
  <2>7. QED  BY <1>1, <2>2, <2>3, <2>4, <2>5, <2>6, CallKeeps
<1>4. QED  BY <1>2, <1>3

LEMMA GetMetaKeeps ==
  ASSUME Inv, RevokedInv, NEW h \in Handler, NEW active \in BOOLEAN, GetMeta(h, active)
  PROVE  RevokedInv'
<1> DEFINE j == job[h]
<1>1. /\ j \in Job /\ j # Idle /\ j.key \in Key /\ j.at = "get"
      /\ j.op = IF active THEN "activate" ELSE "revoke"
      /\ UNCHANGED <<pg, cache, issued, alone, revoked>>
  BY AtCall DEF GetMeta
<1>2. PICK m : m.active = active /\ job' = [job EXCEPT ![h].at = "sync", ![h].meta = m]
  BY DEF GetMeta, Row
<1>3. PICK n : n = [j EXCEPT !.at = "sync", !.meta = m]
  OBVIOUS
<1>4. /\ job' = [job EXCEPT ![h] = n]
      /\ n.key = j.key /\ n.old = j.old /\ n.op = j.op /\ n.at = "sync" /\ n.meta = m
  BY <1>1, <1>2, <1>3 DEF Inv, TypeOK, Job
<1>5. Quiet(j, j.key) => Quiet(n, j.key)
  BY <1>1, <1>2, <1>4 DEF Quiet
<1>6. n.op = "revoke" /\ Revoking(j, j.key) => Revoking(n, j.key)'
  BY <1>1, <1>2, <1>4 DEF Revoking
<1>7. QED  BY <1>1, <1>4, <1>5, <1>6, CallKeeps

LEMMA LookUpOrDelKeeps ==
  ASSUME Inv, RevokedInv, NEW h \in Handler, LookUpOldKey(h) \/ DelEntry(h)
  PROVE  RevokedInv'
<1> DEFINE j == job[h]
<1>1. j \in Job /\ j # Idle /\ j.key \in Key /\ UNCHANGED <<pg, issued, alone, revoked>> /\ TypeOK
  BY AtCall DEF LookUpOldKey, DelEntry, Inv, history
<1>2. CASE LookUpOldKey(h)
  <2> DEFINE n == IF pg[j.key] = None THEN Idle ELSE At("rotate", "insert", j.key, Row(pg[j.key].plan, TRUE))
  <2>1. job' = [job EXCEPT ![h] = n] /\ cache' = cache
    BY <1>2 DEF LookUpOldKey
  <2>2. n # Idle => n.key = j.key /\ n.old = None /\ n.op = "rotate" /\ n.at = "insert"
    BY DEF At
  <2> HIDE DEF n
  <2>3. n # Idle => Quiet(n, j.key)
    BY <2>2 DEF Quiet
  <2>4. QED  BY <1>1, <2>1, <2>2, <2>3, CallKeeps
<1>3. CASE DelEntry(h)
  <2>1. Set(h, j.key, None, Idle)
    BY <1>3 DEF DelEntry
  <2>2. /\ cache'[j.key] \in {cache[j.key], None} /\ \A x \in Key \ {j.key} : cache'[x] = cache[x]
        /\ job' = [job EXCEPT ![h] = Idle]
    BY <1>1, <2>1, SetEntries
  <2>3. Off(cache[j.key]) => Off(cache'[j.key])
    BY <2>2 DEF Off
  <2>4. QED  BY <1>1, <2>2, <2>3, CallKeeps
<1>4. QED  BY <1>2, <1>3

LEMMA InsertKeeps ==
  ASSUME Inv, RevokedInv, NEW h \in Handler, InsertNewKey(h)
  PROVE  RevokedInv'
<1> DEFINE j == job[h]
<1>1. j \in Job /\ j # Idle /\ j.key \in Key /\ j.key \in Known /\ j.at = "insert"
  BY AtCall DEF InsertNewKey
<1>2. PICK kk \in Key \ Known :
        /\ Exec(h, kk, j.meta, [j EXCEPT !.at = "sync", !.key = kk, !.old = j.key], Idle)
        /\ tainted' = tainted \cup Failure(kk)
  BY DEF InsertNewKey
<1>3. PICK n : n = [j EXCEPT !.at = "sync", !.key = kk, !.old = j.key]
  OBVIOUS
<1>4. n.key = kk /\ n.old = j.key /\ n.op = j.op /\ n.at = "sync"
  BY <1>1, <1>3 DEF Job
<1>5. Exec(h, kk, j.meta, n, Idle)
  BY <1>2, <1>3
<1>6. UNCHANGED <<cache, alone, revoked>> /\ TypeOK /\ job \in [Handler -> Job \cup {Idle}]
  BY DEF InsertNewKey, Inv, TypeOK
<1>7. /\ \A x \in Key \ {kk} : pg'[x] = pg[x]
      /\ job' = [job EXCEPT ![h] = n] \/ job' = [job EXCEPT ![h] = Idle]
  BY <1>5, <1>6, ExecRows
<1>8. PICK x \in {n, Idle} : job' = [job EXCEPT ![h] = x]
  BY <1>7
<1>9. j.op # "revoke"
  <2>1. h \in Busy(j.key) /\ Kept(j.key)
    BY <1>1 DEF Busy, RevokedInv
  <2>2. QED  BY <1>1, <2>1 DEF Kept, Revoking
<1>10. ASSUME NEW k \in Key PROVE Kept(k)'
  <2>1. Kept(k)
    BY DEF RevokedInv
  <2>2. CASE k = kk
    <3>1. k \notin alone' /\ k \notin revoked'
      BY <1>2, <1>6, <2>2 DEF RevokedInv
    <3>2. Holds(x, k) => Revoking(x, k)'
      BY <1>4, <1>8, <1>9 DEF Holds, Revoking
    <3>3. QED  BY <1>6, <1>8, <2>1, <3>1, <3>2, KeptHere
  <2>3. CASE k # kk
    <3>1. Holds(x, k) => Holds(j, k) /\ x.op # "revoke" /\ x.key # k
      BY <1>1, <1>4, <1>8, <1>9, <2>3 DEF Holds
    <3>2. QED  BY <1>6, <1>7, <1>8, <2>1, <2>3, <3>1, KeptElsewhere
  <2>4. QED  BY <2>2, <2>3
<1>11. issued \subseteq issued'
  BY DEF InsertNewKey
<1>12. QED  BY <1>6, <1>10, <1>11, KnownGrows DEF RevokedInv

LEMMA WipeKeeps ==
  ASSUME Inv, RevokedInv, Wipe
  PROVE  RevokedInv'
<1>1. UNCHANGED <<pg, job, issued, alone, revoked>> /\ \A k \in Key : cache'[k] = None
  BY DEF Wipe
<1>2. \A k \in Key : Busy(k)' = Busy(k)
  BY <1>1 DEF Busy
<1>3. ASSUME NEW k \in Key PROVE Kept(k)'
  BY <1>1, <1>2 DEF RevokedInv, Kept, Revoking, Quiet, Off
<1>4. QED  BY <1>1, <1>3 DEF RevokedInv, Known

LEMMA NextKeepsRevoked == Inv /\ RevokedInv /\ [Next]_vars => RevokedInv'
<1> SUFFICES ASSUME Inv, RevokedInv, [Next]_vars PROVE RevokedInv'
  OBVIOUS
<1>1. CASE UNCHANGED vars
  <2>1. UNCHANGED <<pg, cache, job, issued, alone, revoked>>
    BY <1>1 DEF vars, history
  <2>2. \A k \in Key : Kept(k)' <=> Kept(k)
    BY <2>1 DEF Kept, Busy, Revoking, Quiet, Off
  <2>3. QED  BY <2>1, <2>2 DEF RevokedInv, Known
<1>2. CASE Wipe
  BY <1>2, WipeKeeps
<1>3. ASSUME NEW h \in Handler, Request(h) PROVE RevokedInv'
  <2>1. CASE RegisterKey(h)
    BY <2>1, PlanAssumption, SubmitKeeps DEF RegisterKey
  <2>2. CASE AdminCreateKey(h)
    BY <2>2, SubmitKeeps DEF AdminCreateKey
  <2>3. ASSUME NEW k \in Known, NEW plan \in Plan \cup {None}, NEW active \in {TRUE, FALSE, None},
               AdminUpdateKey(h, k, plan, active)
        PROVE  RevokedInv'
    BY <2>3, UpdateKeeps
  <2>4. ASSUME NEW k \in Known, AdminRevokeKey(h, k) \/ AdminActivateKey(h, k) PROVE RevokedInv'
    BY <2>4, SwitchKeeps
  <2>5. ASSUME NEW k \in Known, AdminDeleteKey(h, k) \/ RotateKey(h, k) PROVE RevokedInv'
    BY <2>5, DeleteOrRotateKeeps
  <2>6. QED  BY <1>3, <2>1, <2>2, <2>3, <2>4, <2>5 DEF Request
<1>4. ASSUME NEW h \in Handler, Continue(h) PROVE RevokedInv'
  <2>1. ASSUME NEW active \in BOOLEAN, GetMeta(h, active) PROVE RevokedInv'
    BY <2>1, GetMetaKeeps
  <2>2. QED  BY <1>4, <2>1, SyncKeeps, RowCallsKeep, LookUpOrDelKeeps, InsertKeeps DEF Continue
<1>5. QED  BY <1>1, <1>2, <1>3, <1>4 DEF Next

---------------------------------------------------------------------------
(* Theorems                                                                *)

\* Every reachable state of the two stores and the handlers is type correct;
\* in particular no row ever has the zero plan of an unset keyMeta.
THEOREM TypeCorrect == Spec => []TypeOK
<1>1. Inv => TypeOK
  BY DEF Inv
<1> QED BY <1>1, InitInv, NextKeepsInv, PTL DEF Spec

\* Redis gives a plan to no string that was never a key of the table (keys.go:
\* every handler inserts the row before it writes the entry, and returns when
\* that fails).
THEOREM PlansAreFromRows == Spec => []PlansComeFromRows
<1>1. Inv => PlansComeFromRows
  BY DEF Inv, Entries, Entry, PlansComeFromRows
<1> QED BY <1>1, InitInv, NextKeepsInv, PTL DEF Spec

\* Between requests, what Auth decides by is what the table says, for every key
\* that no failed call, wipe, overlap or missing entry has touched since it was
\* issued or last updated alone (keys.go: what each handler does between its
\* first statement and its last store call).
THEOREM EntriesAgree == Spec => []EntriesAgreeWithRows
<1>1. Init => AgreeInv
  BY DEF Init, AgreeInv, TwoKeys, Unharmed, Busy, Match, Idle
<1>2. AgreeInv => EntriesAgreeWithRows
  BY DEF AgreeInv, Unharmed, EntriesAgreeWithRows, Agrees, Match
<1> QED BY <1>1, <1>2, InitInv, NextKeepsInv, NextAgrees, PTL DEF Spec

\* A revocation that had its key to itself and wrote Redis holds until somebody
\* asks for the key to be active (keys.go:275-296), whatever requests come later,
\* overlap, fail half way or find Redis wiped: every one of them reads the key
\* off, in row and entry, and writes it back off.
THEOREM RevokedStaysRevoked == Spec => []RevocationHolds
<1>1. Init => RevokedInv
  BY DEF Init, RevokedInv, Kept, Busy, Idle
<1>2. Inv /\ RevokedInv => RevocationHolds
  <2>1. Inv => revoked \subseteq Key
    BY DEF Inv, TypeOK
  <2>2. ASSUME Inv, RevokedInv, NEW k \in revoked PROVE cache[k] = None \/ ~cache[k].active
    <3>1. k \in Key
      BY <2>1, <2>2
    <3>2. Kept(k)
      BY <2>2, <3>1 DEF RevokedInv
    <3>3. QED  BY <2>2, <3>2 DEF Kept, Off
  <2>3. QED  BY <2>2 DEF RevocationHolds, Usable
<1> QED BY <1>1, <1>2, InitInv, NextKeepsInv, NextKeepsRevoked, PTL DEF Spec

---------------------------------------------------------------------------
(* The limiter.                                                            *)

\* The first elements of a sequence.
LEMMA Beginning ==
  ASSUME NEW S, NEW s \in Seq(S), NEW n \in Nat, n <= Len(s)
  PROVE  SubSeq(s, 1, n) \in Seq(S) /\ Len(SubSeq(s, 1, n)) = n
<1>1. \A i \in 1..n : s[i] \in S
  OBVIOUS
<1>2. QED  BY <1>1

\* The record of admissions stays within its bound when a new one is put in
\* front of it.
LEMMA LatestType ==
  ASSUME ages \in Seq(0..Window)
  PROVE  /\ Latest(<<0>> \o ages) \in Seq(0..Window)
         /\ Len(Latest(<<0>> \o ages)) <= 2 * MaxLimit + 1
<1> DEFINE s    == <<0>> \o ages
           most == 2 * MaxLimit + 1
<1>1. Window \in Nat \ {0} /\ MaxLimit \in Nat \ {0}
  BY LimitAssumption, LimiterBounds
<1>2. <<0>> \in Seq(0..Window)
  BY <1>1
<1>3. s \in Seq(0..Window) /\ Len(s) \in Nat
  BY <1>2
<1>4. most \in Nat
  BY <1>1
<1> HIDE DEF s, most
<1>5. CASE Len(s) > most
  <2>1. most <= Len(s)
    BY <1>3, <1>4, <1>5
  <2>2. SubSeq(s, 1, most) \in Seq(0..Window) /\ Len(SubSeq(s, 1, most)) = most
    BY <1>3, <1>4, <2>1, Beginning
  <2>3. Latest(s) = SubSeq(s, 1, most)
    BY <1>5 DEF Latest, most
  <2>4. most <= most
    BY <1>4
  <2>5. QED  BY <2>2, <2>3, <2>4 DEF s, most
<1>6. CASE ~(Len(s) > most)
  <2>1. Latest(s) = s
    BY <1>6 DEF Latest, most
  <2>2. Len(s) <= most
    BY <1>3, <1>4, <1>6
  <2>3. QED  BY <1>3, <2>1, <2>2 DEF s, most
<1>7. QED  BY <1>5, <1>6

\* A request's own steps.
LEMMA RequestType ==
  ASSUME LimiterTypeOK, NEW r \in HttpRequest,
         Auth(r) \/ (\E limit \in Limits : Incr(r, limit)) \/ IncrFails(r) \/ GoOn(r)
  PROVE  LimiterTypeOK'
<1> USE LimitAssumption, LimiterBounds DEF LimiterTypeOK
<1>1. CASE \E limit \in Limits : Incr(r, limit)
  <2>1. PICK limit \in Limits : Incr(r, limit)
    BY <1>1
  <2>2. ages' \in Seq(0..Window) /\ Len(ages') <= 2 * MaxLimit + 1
    BY <2>1, LatestType DEF Incr
  <2>3. QED  BY <2>1, <2>2 DEF Incr
<1>2. CASE IncrFails(r)   BY <1>2 DEF IncrFails, Fault
<1>3. CASE Expire(r)      BY <1>3 DEF Expire, Fault
<1>4. CASE CountUsage(r)  BY <1>4 DEF CountUsage, Fault
<1>5. CASE Auth(r)        BY <1>5 DEF Auth
<1>6. QED  BY <1>1, <1>2, <1>3, <1>4, <1>5 DEF GoOn

\* Time ages every admission and takes the counter at the end of its minute.
LEMMA TickType ==
  ASSUME LimiterTypeOK, Tick
  PROVE  LimiterTypeOK'
<1> USE LimitAssumption, LimiterBounds DEF LimiterTypeOK
<1> DEFINE older == [i \in 1..Len(ages) |-> IF ages[i] < Window THEN ages[i] + 1 ELSE Window]
<1>1. \A i \in 1..Len(ages) : older[i] \in 0..Window
  OBVIOUS
<1>2. older \in Seq(0..Window) /\ Len(older) = Len(ages)
  BY <1>1
<1>3. ages' = older
  BY DEF Tick
<1> HIDE DEF older
<1>4. ages' \in Seq(0..Window) /\ Len(ages') <= 2 * MaxLimit + 1
  BY <1>2, <1>3
<1>5. QED  BY <1>4 DEF Tick

\* The counter is deleted.
LEMMA DropType ==
  ASSUME LimiterTypeOK, DropCounter
  PROVE  /\ count' \in 0..MaxCount /\ ttl' \in 0..Window /\ (count' = 0 => ttl' = 0)
         /\ ages' \in Seq(0..Window) /\ Len(ages') <= 2 * MaxLimit + 1
BY LimitAssumption, LimiterBounds DEF DropCounter, LimiterTypeOK

\* The key is deleted, step by step.
LEMMA DeleteType ==
  ASSUME LimiterTypeOK, DeleteKey
  PROVE  LimiterTypeOK'
<1> USE LimiterBounds DEF LimiterTypeOK, Fault
<1>1. CASE RemoveKey   BY <1>1 DEF RemoveKey
<1>2. CASE DelKeyEntry
  <2>1. dels' = "counter" /\ UNCHANGED <<count, ttl, usage, at, ages>>
    BY <1>2 DEF DelKeyEntry
  <2>2. lives' \in BOOLEAN
    BY <1>2 DEF DelKeyEntry
  <2>3. faults' = faults \/ (faults < MaxFaults /\ faults' = faults + 1)
    BY <1>2, Zenon DEF DelKeyEntry
  <2>4. faults' \in 0..MaxFaults
    BY <2>3
  <2>5. QED  BY <2>1, <2>2, <2>4
<1>3. CASE DelCounter
  <2>1. CASE DropCounter
    BY <1>3, <2>1, DropType DEF DelCounter
  <2>2. CASE UNCHANGED <<count, ttl, ages>>
    BY <1>3, <2>2 DEF DelCounter
  <2>3. QED  BY <1>3, <2>1, <2>2 DEF DelCounter
<1>4. CASE DelTotal    BY <1>4 DEF DelTotal
<1>5. QED  BY <1>1, <1>2, <1>3, <1>4 DEF DeleteKey

LEMMA NextType ==
  ASSUME LimiterTypeOK, [LimiterNext]_limiterVars
  PROVE  LimiterTypeOK'
<1>1. ASSUME NEW r \in HttpRequest,
             Auth(r) \/ (\E limit \in Limits : Incr(r, limit)) \/ IncrFails(r) \/ GoOn(r)
      PROVE  LimiterTypeOK'
  BY <1>1, RequestType
<1>2. CASE Restart
  BY <1>2, LimiterBounds DEF Restart, Fault, LimiterTypeOK
<1>3. CASE AdminResetUsage
  BY <1>3, DropType DEF AdminResetUsage, LimiterTypeOK
<1>4. CASE DeleteKey
  BY <1>4, DeleteType
<1>5. CASE Tick
  BY <1>5, TickType
<1>6. CASE UNCHANGED limiterVars
  BY <1>6 DEF limiterVars, LimiterTypeOK
<1>7. QED  BY <1>1, <1>2, <1>3, <1>4, <1>5, <1>6 DEF LimiterNext

LEMMA InitType ==
  ASSUME LimiterInit
  PROVE  LimiterTypeOK
<1>1. ages \in Seq(0..Window) /\ Len(ages) = 0
  BY DEF LimiterInit
<1>2. 0 <= 2 * MaxLimit + 1
  BY LimitAssumption
<1>3. 0 \in 0..MaxCount /\ 0 \in 0..Window /\ 0 \in 0..MaxFaults
  BY LimiterBounds
<1>4. QED  BY <1>1, <1>2, <1>3 DEF LimiterInit, LimiterTypeOK

\* LimiterTypeOK holds in every reachable state: in particular no expiry outlives the
\* counter it was given to (ratelimit.go:57-59), although Expire is a call of its
\* own that may come after the counter is gone.
THEOREM LimiterTypeCorrect == LimiterSpec => []LimiterTypeOK
BY InitType, NextType, PTL DEF LimiterSpec

---------------------------------------------------------------------------
(* Twice the limit                                                         *)

\* The latest a admissions were counted on the counter there is, the b before
\* them on the counter before.  What is older than the counter is as old as its
\* expiry has been running, and what is older than the counter before it is
\* older than a minute.
Counted(a, b) ==
  /\ a \in 0..MaxLimit /\ b \in 0..MaxLimit
  /\ a <= count
  /\ \A i \in 1..Len(ages) : i > a /\ ttl > 0 => ages[i] + ttl >= Window
  /\ \A i \in 1..Len(ages) : i > a + b => ages[i] = Window

\* What a new admission makes of the record.
LEMMA LatestElements ==
  ASSUME ages \in Seq(0..Window)
  PROVE  LET new == Latest(<<0>> \o ages)
         IN  \A i \in 1..Len(new) : i > 1 => i - 1 \in 1..Len(ages) /\ new[i] = ages[i - 1]
<1> DEFINE s    == <<0>> \o ages
           most == 2 * MaxLimit + 1
<1>1. Window \in Nat \ {0} /\ MaxLimit \in Nat \ {0}
  BY LimitAssumption, LimiterBounds
<1>2. s \in Seq(0..Window) /\ Len(s) = Len(ages) + 1 /\ Len(ages) \in Nat
  BY <1>1
<1>3. \A i \in 1..Len(s) : i > 1 => i - 1 \in 1..Len(ages) /\ s[i] = ages[i - 1]
  BY <1>1, <1>2
<1>4. most \in Nat
  BY <1>1
<1> HIDE DEF s, most
<1>5. \A i \in 1..Len(Latest(s)) : i \in 1..Len(s) /\ Latest(s)[i] = s[i]
  <2>1. CASE Len(s) > most
    <3>1. Latest(s) = SubSeq(s, 1, most)
      BY <2>1 DEF Latest, most
    <3>2. Len(SubSeq(s, 1, most)) = most
      BY <1>2, <1>4, <2>1, Beginning
    <3>3. \A i \in 1..most : SubSeq(s, 1, most)[i] = s[i]
      BY <1>2, <1>4, <2>1
    <3>4. QED  BY <1>2, <1>4, <2>1, <3>1, <3>2, <3>3
  <2>2. CASE ~(Len(s) > most)
    BY <2>2 DEF Latest, most
  <2>3. QED  BY <2>1, <2>2
<1>6. QED  BY <1>3, <1>5 DEF s

LEMMA IncrCounted ==
  ASSUME LimiterTypeOK, NEW a, NEW b, Counted(a, b), NEW r \in HttpRequest, NEW limit \in Limits,
         Incr(r, limit)
  PROVE  \E c, d : Counted(c, d)'
<1>1. /\ a \in Nat /\ b \in Nat /\ count \in Nat /\ limit \in Nat /\ MaxLimit \in Nat
      /\ limit <= MaxLimit /\ count' = count + 1 /\ ttl' = ttl
      /\ ages \in Seq(0..Window)
  BY LimitAssumption, LimiterBounds DEF Counted, LimiterTypeOK, Incr
<1>2. CASE Admit(count + 1, limit)
  <2>1. ages' = Latest(<<0>> \o ages)
    BY <1>2 DEF Incr
  <2>2. a + 1 \in 0..MaxLimit /\ a + 1 <= count'
    BY <1>1, <1>2 DEF Admit, Counted
  <2>3. \A i \in 1..Len(ages') : i > 1 => i - 1 \in 1..Len(ages) /\ ages'[i] = ages[i - 1]
    BY <1>1, <2>1, LatestElements
  <2>4. Len(ages') \in Nat
    BY <1>1, <2>1, LatestType
  <2>5. ASSUME NEW i \in 1..Len(ages')
        PROVE  /\ i > a + 1 /\ ttl' > 0 => ages'[i] + ttl' >= Window
               /\ i > (a + 1) + b => ages'[i] = Window
    BY <1>1, <2>3, <2>4 DEF Counted
  <2>6. Counted(a + 1, b)'
    BY <1>1, <2>2, <2>5 DEF Counted
  <2>7. QED  BY <2>6
<1>3. CASE ~Admit(count + 1, limit)
  <2>1. ages' = ages
    BY <1>3 DEF Incr
  <2>2. Counted(a, b)'
    BY <1>1, <2>1 DEF Counted
  <2>3. QED  BY <2>2
<1>4. QED  BY <1>2, <1>3

\* At the end of its minute the counter becomes the one before.
LEMMA TickCounted ==
  ASSUME LimiterTypeOK, NEW a, NEW b, Counted(a, b), Tick
  PROVE  \E c, d : Counted(c, d)'
<1>1. /\ Window \in Nat /\ MaxLimit \in Nat /\ a \in Nat /\ b \in Nat
      /\ ttl \in 0..Window /\ count \in Nat /\ Len(ages) \in Nat
      /\ \A i \in 1..Len(ages) : ages[i] \in 0..Window
  BY LimitAssumption, LimiterBounds DEF Counted, LimiterTypeOK
<1>2. /\ Len(ages') = Len(ages)
      /\ \A i \in 1..Len(ages) :
           ages'[i] = IF ages[i] < Window THEN ages[i] + 1 ELSE Window
  BY <1>1 DEF Tick
<1>3. CASE ttl = 1
  <2>1. count' = 0 /\ ttl' = 0
    BY <1>3 DEF Tick
  <2>2. \A i \in 1..Len(ages) : i > a => ages'[i] = Window
    BY <1>1, <1>2, <1>3 DEF Counted
  <2>3. Counted(0, a)'
    BY <1>1, <1>2, <2>1, <2>2 DEF Counted
  <2>4. QED  BY <2>3
<1>4. CASE ttl # 1
  <2>1. count' = count /\ ttl' = IF ttl > 0 THEN ttl - 1 ELSE 0
    BY <1>4 DEF Tick
  <2>2. \A i \in 1..Len(ages) : i > a /\ ttl' > 0 => ages'[i] + ttl' >= Window
    BY <1>1, <1>2, <2>1 DEF Counted
  <2>3. \A i \in 1..Len(ages) : i > a + b => ages'[i] = Window
    BY <1>1, <1>2 DEF Counted
  <2>4. Counted(a, b)'
    BY <1>1, <1>2, <2>1, <2>2, <2>3 DEF Counted
  <2>5. QED  BY <2>4
<1>5. QED  BY <1>3, <1>4

\* The other steps give the counter its minute, or change neither the record nor
\* what it says of the counter.
LEMMA OthersCounted ==
  ASSUME LimiterTypeOK, NEW a, NEW b, Counted(a, b), ages' = ages,
         count' = count \/ count' = count + 1,
         ttl' = ttl \/ ttl' = Window
  PROVE  \E c, d : Counted(c, d)'
<1>1. /\ Window \in Nat /\ MaxLimit \in Nat /\ a \in Nat /\ count \in Nat /\ ttl \in Nat
      /\ \A i \in 1..Len(ages) : ages[i] \in 0..Window
  BY LimitAssumption, LimiterBounds DEF Counted, LimiterTypeOK
<1>2. Counted(a, b)'
  BY <1>1 DEF Counted
<1>3. QED  BY <1>2

LEMMA StartOver ==
  ASSUME ages' = <<>>, count' = 0
  PROVE  \E c, d : Counted(c, d)'
<1>1. Counted(0, 0)'
  BY LimitAssumption DEF Counted
<1>2. QED  BY <1>1

\* However requests, failing calls, restarts and windows interleave, the
\* middleware (ratelimit.go:29-85) admits no more than twice the limit in less
\* than a minute; for any number of requests at once, any limits and window.
THEOREM AtMostTwice == LimiterSpec => []TwiceTheLimit
<1> DEFINE LimiterInv == LimiterTypeOK /\ \E a, b : Counted(a, b)
<1>1. LimiterInit => LimiterInv
  <2> SUFFICES ASSUME LimiterInit PROVE Counted(0, 0) /\ LimiterTypeOK
    OBVIOUS
  <2>1. Counted(0, 0)
    BY LimitAssumption DEF LimiterInit, Counted
  <2>2. QED  BY <2>1, InitType
<1>2. LimiterInv /\ [LimiterNext]_limiterVars => LimiterInv'
  <2> SUFFICES ASSUME LimiterInv, [LimiterNext]_limiterVars PROVE \E c, d : Counted(c, d)'
    BY NextType
  <2>1. PICK a, b : Counted(a, b)
    OBVIOUS
  <2>2. ASSUME NEW r \in HttpRequest, NEW limit \in Limits, Incr(r, limit)
        PROVE  \E c, d : Counted(c, d)'
    BY <2>1, <2>2, IncrCounted
  <2>3. ASSUME NEW r \in HttpRequest, Auth(r) \/ IncrFails(r) \/ GoOn(r)
        PROVE  \E c, d : Counted(c, d)'
    <3>1. /\ ages' = ages
          /\ count' = count \/ count' = count + 1
          /\ ttl' = ttl \/ ttl' = Window
      BY <2>3 DEF Auth, IncrFails, GoOn, Expire, CountUsage, LimiterTypeOK
    <3>2. QED  BY <2>1, <3>1, OthersCounted
  <2>4. CASE Restart
    <3>1. ages' = ages /\ count' = count /\ ttl' = ttl
      BY <2>4 DEF Restart
    <3>2. QED  BY <2>1, <3>1, OthersCounted
  <2>5. CASE AdminResetUsage \/ DeleteKey
    <3>1. DropCounter \/ UNCHANGED <<count, ttl, ages>>
      BY <2>5 DEF AdminResetUsage, DeleteKey, RemoveKey, DelKeyEntry, DelCounter, DelTotal
    <3>2. CASE DropCounter
      BY <3>2, StartOver DEF DropCounter
    <3>3. CASE UNCHANGED <<count, ttl, ages>>
      BY <2>1, <3>3, OthersCounted
    <3>4. QED  BY <3>1, <3>2, <3>3
  <2>6. CASE Tick
    BY <2>1, <2>6, TickCounted
  <2>7. CASE UNCHANGED limiterVars
    <3>1. ages' = ages /\ count' = count /\ ttl' = ttl
      BY <2>7 DEF limiterVars
    <3>2. QED  BY <2>1, <3>1, OthersCounted
  <2>8. QED  BY <2>2, <2>3, <2>4, <2>5, <2>6, <2>7 DEF LimiterNext
<1>3. LimiterInv => TwiceTheLimit
  <2> SUFFICES ASSUME LimiterTypeOK, NEW a, NEW b, Counted(a, b), Len(ages) > 2 * MaxLimit
               PROVE  ages[2 * MaxLimit + 1] = Window
    BY DEF TwiceTheLimit
  <2>1. MaxLimit \in Nat /\ Len(ages) \in Nat /\ a \in 0..MaxLimit /\ b \in 0..MaxLimit
    BY LimitAssumption DEF LimiterTypeOK, Counted
  <2>2. 2 * MaxLimit + 1 \in 1..Len(ages) /\ 2 * MaxLimit + 1 > a + b
    BY <2>1
  <2>3. QED  BY <2>2 DEF Counted
<1>4. QED  BY <1>1, <1>2, <1>3, PTL DEF LimiterSpec

---------------------------------------------------------------------------
(* The markets of a page                                                   *)

\* The first elements of a sequence.
LEMMA TakeIs ==
  ASSUME NEW T, NEW s \in Seq(T), NEW n \in Nat
  PROVE  /\ Take(s, n) \in Seq(T) /\ Len(s) \in Nat
         /\ Len(Take(s, n)) = IF n < Len(s) THEN n ELSE Len(s)
         /\ \A i \in 1..Len(Take(s, n)) : Take(s, n)[i] = s[i]
<1> DEFINE b == IF n < Len(s) THEN n ELSE Len(s)
<1>1. Len(s) \in Nat /\ 0 \in 0..Len(s) /\ b \in 0..Len(s) /\ 0 + 1 = 1 /\ b - 0 = b /\ \A i \in 1..b : 0 + i = i
  OBVIOUS
<1>2. Take(s, n) = SubSeq(s, 1, b)
  BY DEF Take
<1> HIDE DEF b
<1>3. /\ SubSeq(s, 0 + 1, b) \in Seq(T) /\ Len(SubSeq(s, 0 + 1, b)) = b - 0
      /\ \A i \in 1..(b - 0) : SubSeq(s, 0 + 1, b)[i] = s[0 + i]
  BY <1>1, Part
<1>4. Take(s, n) \in Seq(T) /\ Len(Take(s, n)) = b /\ \A i \in 1..b : Take(s, n)[i] = s[i]
  BY <1>1, <1>2, <1>3
<1>5. QED  BY <1>1, <1>4 DEF b

\* The elements after the first ones.
LEMMA FromIs ==
  ASSUME NEW T, NEW s \in Seq(T), NEW o \in Nat
  PROVE  /\ From(s, o) \in Seq(T) /\ Len(s) \in Nat
         /\ Len(From(s, o)) = IF o < Len(s) THEN Len(s) - o ELSE 0
         /\ \A i \in 1..Len(From(s, o)) : From(s, o)[i] = s[o + i]
<1>1. Len(s) \in Nat /\ \A i \in 1..Len(s) : s[i] \in T
  BY LenProperties
<1>2. CASE o < Len(s)
  <2>1. o \in 0..Len(s) /\ Len(s) \in o..Len(s)
    BY <1>1, <1>2
  <2>2. QED  BY <1>1, <1>2, <2>1, Part DEF From
<1>3. CASE ~(o < Len(s))
  <2>1. o + 1 \in Int /\ Len(s) \in Int /\ ~(o + 1 <= Len(s)) /\ \A i \in (o + 1)..Len(s) : s[i] \in T
    BY <1>1, <1>3
  <2>2. From(s, o) \in Seq(T) /\ Len(From(s, o)) = 0
    BY <2>1, SubSeqProperties DEF From
  <2>3. QED  BY <1>1, <1>3, <2>2
<1>4. QED  BY <1>2, <1>3

LEMMA TakeSome ==
  ASSUME NEW T, NEW s \in Seq(T), NEW n \in Nat
  PROVE  Range(Take(s, n)) \subseteq Range(s) /\ (IsInjective(s) => IsInjective(Take(s, n)))
<1> DEFINE p == Take(s, n)
<1>1. /\ p \in Seq(T) /\ Len(s) \in Nat /\ Len(p) = (IF n < Len(s) THEN n ELSE Len(s))
      /\ \A i \in 1..Len(p) : p[i] = s[i]
  BY TakeIs
<1> HIDE DEF p
<1>2. 0 + Len(p) <= Len(s) /\ \A i \in 1..Len(p) : p[i] = s[0 + i]
  BY <1>1
<1>3. QED  BY <1>1, <1>2, SomeOf DEF p

LEMMA FromSome ==
  ASSUME NEW T, NEW s \in Seq(T), NEW o \in Nat
  PROVE  Range(From(s, o)) \subseteq Range(s) /\ (IsInjective(s) => IsInjective(From(s, o)))
<1> DEFINE p == From(s, o)
<1>1. /\ p \in Seq(T) /\ Len(s) \in Nat /\ Len(p) = (IF o < Len(s) THEN Len(s) - o ELSE 0)
      /\ \A i \in 1..Len(p) : p[i] = s[o + i]
  BY FromIs
<1> HIDE DEF p
<1>2. o + Len(p) <= Len(s) \/ Len(p) = 0
  BY <1>1
<1>3. QED  BY <1>1, <1>2, SomeOf DEF p

\* A page more after the first o elements.
LEMMA TakeThenMore ==
  ASSUME NEW T, NEW s \in Seq(T), NEW o \in Nat, NEW n \in Nat
  PROVE  Take(s, o) \o Take(From(s, o), n) = Take(s, o + n)
<1> DEFINE p == Take(s, o)
           f == From(s, o)
           q == Take(f, n)
           r == Take(s, o + n)
           u == p \o q
<1>1. /\ p \in Seq(T) /\ Len(s) \in Nat /\ Len(p) = (IF o < Len(s) THEN o ELSE Len(s))
      /\ \A i \in 1..Len(p) : p[i] = s[i]
  BY TakeIs
<1>2. /\ f \in Seq(T) /\ Len(f) = (IF o < Len(s) THEN Len(s) - o ELSE 0)
      /\ \A i \in 1..Len(f) : f[i] = s[o + i]
  BY FromIs
<1>3. /\ r \in Seq(T) /\ Len(r) = (IF o + n < Len(s) THEN o + n ELSE Len(s))
      /\ \A i \in 1..Len(r) : r[i] = s[i]
  <2>1. o + n \in Nat
    OBVIOUS
  <2>2. QED  BY <2>1, TakeIs
<1> HIDE DEF p, f, r
<1>4. /\ q \in Seq(T) /\ Len(q) = (IF n < Len(f) THEN n ELSE Len(f))
      /\ \A i \in 1..Len(q) : q[i] = f[i]
  BY <1>2, TakeIs
<1> HIDE DEF q
<1>5. /\ u \in Seq(T) /\ Len(u) = Len(p) + Len(q) /\ Len(p) \in Nat /\ Len(q) \in Nat
      /\ \A i \in 1..Len(p) : u[i] = p[i]
      /\ \A i \in 1..Len(q) : u[Len(p) + i] = q[i]
  <2>1. p \in Seq(T) /\ q \in Seq(T)
    BY <1>1, <1>4
  <2>2. QED  BY <2>1, ConcatIs
<1> HIDE DEF u
<1>6. Len(f) \in Nat /\ (Len(q) > 0 => Len(p) = o) /\ Len(q) <= Len(f)
  <2>1. Len(f) \in Nat
    BY <1>1, <1>2
  <2>2. Len(q) <= Len(f)
    BY <1>4, <2>1
  <2>3. CASE o < Len(s)
    BY <1>1, <2>1, <2>2, <2>3
  <2>4. CASE ~(o < Len(s))
    <3>1. Len(f) = 0
      BY <1>2, <2>4
    <3>2. ~(Len(q) > 0)
      BY <1>5, <2>2, <3>1
    <3>3. QED  BY <2>1, <2>2, <3>2
  <2>5. QED  BY <2>3, <2>4
<1>7. Len(u) = Len(r)
  <2>1. CASE o < Len(s)
    <3>1. Len(p) = o /\ Len(f) = Len(s) - o
      BY <1>1, <1>2, <2>1
    <3>2. PICK l \in Nat, a \in Nat : l = Len(s) /\ a = Len(q)
      BY <1>1, <1>5
    <3>3. a = (IF n < l - o THEN n ELSE l - o) /\ Len(u) = o + a /\ o < l
      BY <1>4, <1>5, <2>1, <3>1, <3>2
    <3>4. Len(r) = (IF o + n < l THEN o + n ELSE l)
      BY <1>3, <3>2
    <3>5. QED  BY <3>3, <3>4
  <2>2. CASE ~(o < Len(s))
    <3>1. Len(p) = Len(s) /\ Len(q) = 0 /\ ~(o + n < Len(s))
      BY <1>1, <1>2, <1>4, <2>2
    <3>2. QED  BY <1>1, <1>3, <1>5, <3>1
  <2>3. QED  BY <2>1, <2>2
<1>8. ASSUME NEW i \in 1..Len(u) PROVE u[i] = r[i]
  <2>1. r[i] = s[i]
    BY <1>3, <1>7
  <2>2. CASE i \in 1..Len(p)
    BY <1>1, <1>5, <2>1, <2>2
  <2>3. CASE i \notin 1..Len(p)
    <3>1. PICK k \in 1..Len(q) : i = Len(p) + k
      <4>1. i - Len(p) \in 1..Len(q) /\ i = Len(p) + (i - Len(p))
        BY <1>5, <2>3
      <4>2. QED  BY <4>1
    <3>2. k \in 1..Len(f) /\ i = o + k
      <4>1. k \in Nat /\ 1 <= k /\ k <= Len(q) /\ Len(q) > 0
        BY <1>5
      <4>2. Len(p) = o /\ i = o + k
        BY <1>6, <3>1, <4>1
      <4>3. k <= Len(f)
        BY <1>5, <1>6, <4>1
      <4>4. QED  BY <1>6, <4>1, <4>2, <4>3
    <3>3. QED  BY <1>2, <1>4, <1>5, <2>1, <3>1, <3>2
  <2>4. QED  BY <2>2, <2>3
<1>9. u = r
  BY <1>3, <1>5, <1>7, <1>8, SeqEqual
<1>10. QED  BY <1>9 DEF p, f, q, r, u

\* f has the markets of the first n ids of s, each once.
Seen(f, s, n) ==
  f = [i \in 0..n |-> IF i = 0 THEN <<>>
                      ELSE IF Canonical[s[i]] \in Range(f[i - 1]) THEN f[i - 1]
                      ELSE Append(f[i - 1], Canonical[s[i]])]

LEMMA SeenAt ==
  ASSUME NEW f, NEW s, NEW n \in Nat, Seen(f, s, n), NEW i \in 0..n
  PROVE  f[i] = IF i = 0 THEN <<>>
                ELSE IF Canonical[s[i]] \in Range(f[i - 1]) THEN f[i - 1]
                ELSE Append(f[i - 1], Canonical[s[i]])
BY DEF Seen

LEMMA SeenExists ==
  ASSUME NEW s, NEW n \in Nat
  PROVE  \E f : Seen(f, s, n)
<1> DEFINE H == {m \in Nat : \E f : Seen(f, s, m)}
<1>1. 0 \in H
  <2> DEFINE f == [i \in 0..0 |-> <<>>]
  <2>1. Seen(f, s, 0)
    BY DEF Seen
  <2> HIDE DEF f
  <2>2. QED  BY <2>1
<1>2. ASSUME NEW m \in Nat, m \in H PROVE m + 1 \in H
  <2>1. PICK f : Seen(f, s, m)
    BY <1>2
  <2> DEFINE Then(e, i) == IF Canonical[s[i]] \in Range(e) THEN e ELSE Append(e, Canonical[s[i]])
             next == Then(f[m], m + 1)
             g == [i \in 0..(m + 1) |-> IF i = m + 1 THEN next ELSE f[i]]
  <2>2. ASSUME NEW i \in 0..(m + 1) PROVE g[i] = IF i = 0 THEN <<>> ELSE Then(g[i - 1], i)
    <3>1. CASE i = m + 1
      <4>1. g[i] = next /\ g[i - 1] = f[m] /\ i # 0
        BY <3>1
      <4>2. QED  BY <3>1, <4>1
    <3>2. CASE i # m + 1
      <4>1. i \in 0..m /\ g[i] = f[i] /\ (i # 0 => g[i - 1] = f[i - 1])
        BY <3>2
      <4>2. f[i] = IF i = 0 THEN <<>> ELSE Then(f[i - 1], i)
        BY <2>1, <4>1, SeenAt
      <4>3. QED  BY <4>1, <4>2
    <3>3. QED  BY <3>1, <3>2
  <2>3. Seen(g, s, m + 1)
    <3> HIDE DEF next
    <3>1. g = [i \in 0..(m + 1) |-> g[i]]
      OBVIOUS
    <3> HIDE DEF g
    <3>2. QED  BY <2>2, <3>1 DEF Seen
  <2> HIDE DEF g
  <2>4. QED  BY <2>3
<1>3. Nat \subseteq H
  <2> HIDE DEF H
  <2>1. QED  BY <1>1, <1>2, Induction
<1>4. QED  BY <1>3

\* The markets of a list of ids, each once.
LEMMA DistinctIs ==
  ASSUME NEW s \in Seq(Id)
  PROVE  Distinct(s) \in Seq(Market) /\ IsInjective(Distinct(s))
<1> DEFINE F == CHOOSE f : Seen(f, s, Len(s))
           n == Len(s)
           Good(q) == q \in Seq(Market) /\ IsInjective(q)
<1>1. n \in Nat /\ \A i \in 1..n : s[i] \in Id
  BY LenProperties
<1>2. Seen(F, s, n)
  <2>1. \E f : Seen(f, s, n)
    BY <1>1, SeenExists
  <2>2. QED  BY <2>1
<1>3. Distinct(s) = F[n]
  BY DEF Distinct, Seen
<1> HIDE DEF F, n
<1> DEFINE H == {i \in Nat : i <= n => Good(F[i])}
<1>4. 0 \in H
  <2>1. F[0] = <<>>
    BY <1>1, <1>2, SeenAt
  <2>2. Good(<<>>)
    BY DEF IsInjective
  <2> HIDE DEF Good
  <2>3. QED  BY <2>1, <2>2
<1>5. ASSUME NEW i \in Nat, i \in H PROVE i + 1 \in H
  <2> SUFFICES ASSUME i + 1 <= n PROVE Good(F[i + 1])
    OBVIOUS
  <2> DEFINE k == i + 1
             x == Canonical[s[k]]
             e == F[i]
  <2>1. k \in 0..n /\ k # 0 /\ k - 1 = i /\ k \in 1..n /\ i <= n
    BY <1>1
  <2>2. F[k] = IF x \in Range(e) THEN e ELSE Append(e, x)
    <3> HIDE DEF k
    <3>1. F[k] = IF k = 0 THEN <<>>
                 ELSE IF Canonical[s[k]] \in Range(F[k - 1]) THEN F[k - 1]
                 ELSE Append(F[k - 1], Canonical[s[k]])
      BY <1>1, <1>2, <2>1, SeenAt
    <3>2. QED  BY <2>1, <3>1
  <2>3. x \in Market
    BY <1>1, <2>1, IdAssumption
  <2>4. Good(e)
    BY <1>5, <2>1
  <2> HIDE DEF k, x, e
  <2>5. Append(e, x) \in Seq(Market) /\ (IsInjective(Append(e, x)) <=> IsInjective(e) /\ x \notin Range(e))
    BY <2>3, <2>4, AppendOne
  <2>6. Good(F[k])
    BY <2>2, <2>4, <2>5
  <2>7. QED  BY <2>6 DEF k
<1>6. Nat \subseteq H
  <2> HIDE DEF H
  <2>1. QED  BY <1>4, <1>5, Induction
<1>7. Good(F[n])
  BY <1>1, <1>6
<1>8. QED  BY <1>3, <1>7

\* What may go into a page.
LEMMA AdmittedIs ==
  ASSUME NEW t \in Tables, NEW s \in Seq(Market)
  PROVE  Admitted(t, s) \in Seq(Market) /\ (IsInjective(s) => IsInjective(Admitted(t, s)))
BY FilterType, FilterKeeps DEF Admitted

LEMMA MatchingIs ==
  ASSUME NEW s \in Seq(Market)
  PROVE  Matching(s) \in Seq(Market) /\ (IsInjective(s) => IsInjective(Matching(s)))
         /\ Len(Matching(s)) <= Len(s)
BY FilterType, FilterKeeps DEF Matching

LEMMA ClampIs ==
  ASSUME NEW n \in Nat, NEW lo \in Nat, NEW hi \in Nat
  PROVE  Clamp(n, lo, hi) \in Nat /\ (lo <= hi => lo <= Clamp(n, lo, hi))
BY DEF Clamp

\* A page of no more than Limit markets.
LEMMA PageIs ==
  ASSUME NEW s \in Seq(Market), NEW n \in Nat
  PROVE  Take(s, n) \in Seq(Market) /\ Len(Take(s, n)) <= n /\ Len(Take(s, n)) \in Nat
<1>1. /\ Take(s, n) \in Seq(Market) /\ Len(s) \in Nat
      /\ Len(Take(s, n)) = IF n < Len(s) THEN n ELSE Len(s)
  BY TakeIs
<1>2. QED  BY <1>1

LEMMA FilteredIs ==
  ASSUME NEW t \in Tables, NEW o \in Nat
  PROVE  Filtered(t, o) \in Seq(Market) /\ Len(Filtered(t, o)) <= Limit
         /\ (IsInjective(t.created) => IsInjective(Filtered(t, o)))
<1> DEFINE s == Matching(t.created)
           f == From(s, o)
<1>1. t.created \in Seq(Market) /\ Limit \in Nat
  BY ListingBounds DEF Tables
<1>2. s \in Seq(Market) /\ (IsInjective(t.created) => IsInjective(s))
  BY <1>1, MatchingIs
<1> HIDE DEF s
<1>3. f \in Seq(Market) /\ (IsInjective(s) => IsInjective(f))
  BY <1>2, FromIs, FromSome
<1> HIDE DEF f
<1>4. Take(f, Limit) \in Seq(Market) /\ Len(Take(f, Limit)) <= Limit /\ (IsInjective(f) => IsInjective(Take(f, Limit)))
  BY <1>1, <1>3, PageIs, TakeSome
<1>5. QED  BY <1>2, <1>3, <1>4 DEF Filtered, s, f

\* Whatever order the database gives, it is one of ids.
LEMMA OrdersIs ==
  ASSUME NEW f \in [Id -> Nat], NEW order \in Orders(f)
  PROVE  order \in Seq(Id)
<1> DEFINE active == {i \in Id : f[i] > 0}
<1>1. active \in SUBSET Id /\ IsFiniteSet(Id)
  BY IdAssumption
<1>2. order \in [1..Cardinality(active) -> active]
  BY DEF Orders
<1> HIDE DEF active
<1>3. Cardinality(active) \in Nat
  BY <1>1, FS_Subset, FS_CardinalityType
<1>4. PICK n \in Nat : n = Cardinality(active)
  BY <1>3
<1>5. order \in [1..n -> Id]
  BY <1>1, <1>2, <1>4
<1>6. QED  BY <1>5

LEMMA RankedIs ==
  ASSUME NEW t \in Tables, NEW order \in Seq(Id), NEW o \in Nat
  PROVE  /\ Ranked(t, order, o) \in Seq(Market) /\ Len(Ranked(t, order, o)) <= Limit
         /\ IsInjective(Ranked(t, order, o))
<1> DEFINE target == Limit + o
           c == Clamp(3 * target, RankedMin, RankedMax)
           ids == Take(order, c)
           b == Admitted(t, Distinct(ids))
           h == Take(b, target)
           f == From(h, o)
<1>1. /\ Limit \in Nat /\ target \in Nat /\ 3 * target \in Nat
      /\ RankedMin \in Nat /\ RankedMax \in Nat
  BY ListingBounds
<1>2. c \in Nat
  <2> HIDE DEF target
  <2>1. QED  BY <1>1, ClampIs
<1> HIDE DEF target, c
<1>3. ids \in Seq(Id)
  BY <1>1, <1>2, TakeIs
<1> HIDE DEF ids
<1>4. b \in Seq(Market) /\ IsInjective(b)
  BY <1>3, DistinctIs, AdmittedIs
<1> HIDE DEF b
<1>5. h \in Seq(Market) /\ IsInjective(h)
  BY <1>1, <1>4, TakeIs, TakeSome
<1> HIDE DEF h
<1>6. f \in Seq(Market) /\ IsInjective(f)
  BY <1>5, FromIs, FromSome
<1> HIDE DEF f
<1>7. Take(f, Limit) \in Seq(Market) /\ Len(Take(f, Limit)) <= Limit /\ IsInjective(Take(f, Limit))
  BY <1>1, <1>6, PageIs, TakeSome
<1>8. Ranked(t, order, o) = Take(f, Limit)
  BY DEF Ranked, f, h, b, ids, c, target
<1>9. QED  BY <1>7, <1>8

\* The latest markets fill the page up, with markets that are not in it.
LEMMA RecentIs ==
  ASSUME NEW t \in Tables, NEW data \in Seq(Market), Len(data) <= Limit
  PROVE  /\ Recent(t, data) \in Seq(Market) /\ Len(data) + Len(Recent(t, data)) <= Limit
         /\ Range(data) \cap Range(Recent(t, data)) = {}
         /\ IsInjective(t.created) => IsInjective(Recent(t, data))
<1> DEFINE m == Matching(t.created)
           room == Room(data)
           c == Clamp(2 * room, RecentMin, RecentMax)
           ids == Take(m, c)
           f == Filter(ids, Market \ InPage(data))
           p == Take(f, room)
<1>1. /\ t.created \in Seq(Market) /\ room \in Nat /\ 2 * room \in Nat /\ room = Limit - Len(data)
      /\ RecentMin \in Nat /\ RecentMax \in Nat /\ Limit \in Nat /\ Len(data) \in Nat
  BY ListingBounds DEF Tables, Room
<1>2. c \in Nat
  <2> HIDE DEF room
  <2>1. QED  BY <1>1, ClampIs
<1> HIDE DEF c, room
<1>3. m \in Seq(Market) /\ (IsInjective(t.created) => IsInjective(m))
  BY <1>1, MatchingIs
<1> HIDE DEF m
<1>4. ids \in Seq(Market) /\ (IsInjective(m) => IsInjective(ids))
  BY <1>2, <1>3, TakeIs, TakeSome
<1> HIDE DEF ids
<1>5. f \in Seq(Market) /\ (IsInjective(ids) => IsInjective(f)) /\ Range(f) \cap Range(data) = {}
  BY <1>4, FilterType, FilterKeeps DEF InPage
<1> HIDE DEF f
<1>6. /\ p \in Seq(Market) /\ Len(p) <= room /\ Len(p) \in Nat
      /\ (IsInjective(f) => IsInjective(p)) /\ Range(p) \subseteq Range(f)
  BY <1>1, <1>5, PageIs, TakeSome
<1> HIDE DEF p
<1>7. Recent(t, data) = p
  BY DEF Recent, p, f, ids, c, room, m
<1>8. Len(data) + Len(p) <= Limit
  BY <1>1, <1>6
<1>9. QED  BY <1>3, <1>4, <1>5, <1>6, <1>7, <1>8

\* A row that is stored again moves to the front.
LEMMA ToFrontIs ==
  ASSUME NEW s \in Seq(Market), NEW x \in Market
  PROVE  ToFront(s, x) \in Seq(Market) /\ (IsInjective(s) => IsInjective(ToFront(s, x)))
<1> DEFINE f == Filter(s, Id \ {x})
<1>1. f \in Seq(Market) /\ (IsInjective(s) => IsInjective(f)) /\ Range(f) = Range(s) \cap (Id \ {x})
  BY FilterType, FilterKeeps
<1> HIDE DEF f
<1>2. <<x>> \in Seq(Market) /\ Range(<<x>>) = {x} /\ IsInjective(<<x>>)
  BY DEF Range, IsInjective
<1>3. /\ <<x>> \o f \in Seq(Market)
      /\ IsInjective(<<x>>) /\ IsInjective(f) /\ Range(<<x>>) \cap Range(f) = {} => IsInjective(<<x>> \o f)
  BY <1>1, <1>2, ConcatIs, ConcatInjective
<1>4. ToFront(s, x) = <<x>> \o f
  BY DEF ToFront, f
<1>5. QED  BY <1>1, <1>2, <1>3, <1>4

---------------------------------------------------------------------------
(* Types, and no market twice                                              *)

\* The parts of the invariant: pages and the rows of market_metadata have no
\* market twice, and a request has no page before its first query.
TablesOK ==
  /\ tables \in Seq(Tables) /\ tables # <<>>
  /\ \A v \in 1..Len(tables) : IsInjective(tables[v].created)

PageOK(p) == p \in Page /\ IsInjective(p.data)

CachedOK ==
  /\ DOMAIN cached = Offset
  /\ \A o \in Offset : cached[o] = <<>> \/ (Len(cached[o]) = 1 /\ PageOK(cached[o][1]))

RequestOK(r) ==
  /\ r.at \in {"idle", "filtered", "ranked", "recent", "store"}
  /\ r.offset \in Offset
  /\ PageOK(r.page) /\ Len(r.page.data) <= Limit
  /\ r.at \in {"filtered", "ranked"} => r.page = NoPage

PendingOK == DOMAIN pending = Client /\ \A c \in Client : RequestOK(pending[c])

WalkOK ==
  /\ walk \in Seq(Page) /\ over \in BOOLEAN
  /\ \A i \in 1..Len(walk) : IsInjective(walk[i].data)

BoundsKept ==
  /\ ranked \in BOOLEAN
  /\ changes \in 0..MaxChanges /\ visits \in 0..MaxVisits /\ failures \in 0..MaxListingFailures

ListingInv == TablesOK /\ CachedOK /\ PendingOK /\ WalkOK /\ BoundsKept

\* The newest tables, and the page before any query.
LEMMA NowIs ==
  ASSUME TablesOK
  PROVE  /\ Len(tables) \in Nat \ {0} /\ Now \in Tables /\ IsInjective(Now.created)
         /\ NoPage \in Page /\ PageOK(NoPage) /\ RequestOK(NoRequest)
<1>1. Len(tables) \in Nat \ {0} /\ \A v \in 1..Len(tables) : tables[v] \in Tables
  BY LenProperties DEF TablesOK
<1>2. Len(tables) \in 1..Len(tables)
  BY <1>1
<1>3. Now \in Tables /\ IsInjective(Now.created)
  BY <1>1, <1>2 DEF TablesOK, Now
<1>4. NoPage \in Page
  BY <1>1 DEF NoPage, Page
<1>5. IsInjective(NoPage.data) /\ Len(NoPage.data) = 0
  BY DEF NoPage, IsInjective
<1>6. RequestOK(NoRequest)
  BY <1>4, <1>5, ListingBounds DEF NoRequest, RequestOK, PageOK
<1>7. QED  BY <1>1, <1>3, <1>4, <1>5, <1>6 DEF PageOK

\* What a step leaves alone stays what it is.
LEMMA PartsStay ==
  ASSUME TablesOK, Len(tables') \in Nat, Len(tables) <= Len(tables')
  PROVE  /\ Page \subseteq Page'
         /\ cached' = cached /\ CachedOK => CachedOK'
         /\ pending' = pending /\ PendingOK => PendingOK'
         /\ walk' = walk /\ over' = over /\ WalkOK => WalkOK'
<1>1. Page \subseteq Page'
  BY NowIs DEF Page
<1>2. ASSUME cached' = cached, CachedOK PROVE CachedOK'
  BY <1>1, <1>2 DEF CachedOK, PageOK
<1>3. ASSUME pending' = pending, PendingOK PROVE PendingOK'
  BY <1>1, <1>3 DEF PendingOK, RequestOK, PageOK
<1>4. ASSUME walk' = walk, over' = over, WalkOK PROVE WalkOK'
  <2>1. walk \in Seq(Page')
    BY <1>1, <1>4 DEF WalkOK
  <2>2. QED  BY <1>4, <2>1 DEF WalkOK
<1>5. QED  BY <1>1, <1>2, <1>3, <1>4

\* One request changes.
LEMMA RequestMoves ==
  ASSUME TablesOK, PendingOK, NEW c \in Client, NEW r, RequestOK(r), tables' = tables,
         pending' = [pending EXCEPT ![c] = r]
  PROVE  PendingOK'
<1>1. Page' = Page
  BY DEF Page
<1>2. ASSUME NEW d \in Client PROVE RequestOK(pending'[d])
  BY DEF PendingOK
<1>3. DOMAIN pending' = Client
  BY DEF PendingOK
<1>4. QED  BY <1>1, <1>2, <1>3 DEF PendingOK, RequestOK, PageOK

\* A page is answered.
LEMMA AnswerKeeps ==
  ASSUME ListingInv, NEW c \in Client, NEW p, PageOK(p), tables' = tables, Answer(c, p)
  PROVE  PendingOK' /\ WalkOK'
<1>1. RequestOK(NoRequest)
  BY NowIs DEF ListingInv
<1>2. PendingOK'
  BY <1>1, RequestMoves DEF ListingInv, Answer
<1>3. Page' = Page
  BY DEF Page
<1>4. CASE c = "walker"
  <2>1. walk' = Append(walk, p) /\ over' \in BOOLEAN
    BY <1>4 DEF Answer
  <2>2. /\ walk' \in Seq(Page) /\ Len(walk') = Len(walk) + 1 /\ Len(walk) \in Nat /\ walk'[Len(walk) + 1] = p
        /\ \A i \in 1..Len(walk) : walk'[i] = walk[i]
    BY <2>1, AppendIs DEF ListingInv, WalkOK, PageOK
  <2>3. \A i \in 1..Len(walk') : i \in 1..Len(walk) \/ i = Len(walk) + 1
    BY <2>2
  <2>4. \A i \in 1..Len(walk') : IsInjective(walk'[i].data)
    BY <2>2, <2>3 DEF ListingInv, WalkOK, PageOK
  <2>5. QED  BY <1>2, <1>3, <2>1, <2>2, <2>4 DEF WalkOK
<1>5. CASE c # "walker"
  <2>1. walk' = walk /\ over' = over
    BY <1>5 DEF Answer
  <2>2. QED  BY <1>2, <2>1, NowIs, PartsStay DEF ListingInv
<1>6. QED  BY <1>4, <1>5

\* A call that fails is counted.
LEMMA FailuresCount ==
  ASSUME BoundsKept, MayFail \/ UNCHANGED failures
  PROVE  failures' \in 0..MaxListingFailures
<1>1. MaxListingFailures \in Nat
  BY ListingBounds
<1>2. CASE MayFail
  BY <1>1, <1>2 DEF BoundsKept, MayFail
<1>3. CASE UNCHANGED failures
  BY <1>3 DEF BoundsKept
<1>4. QED  BY <1>2, <1>3

\* A request comes in.
LEMMA GetMarketsKeeps ==
  ASSUME ListingInv, NEW c \in Client, NEW o \in Offset, GetMarkets(c, o)
  PROVE  TablesOK' /\ CachedOK' /\ PendingOK' /\ WalkOK' /\ failures' \in 0..MaxListingFailures
<1>1. /\ UNCHANGED <<ranked, tables, cached, changes>> /\ Len(tables) \in Nat
  BY NowIs DEF GetMarkets, ListingInv
<1>2. TablesOK' /\ CachedOK'
  <2>1. TablesOK'
    BY <1>1 DEF ListingInv, TablesOK
  <2>2. QED  BY <1>1, <2>1, PartsStay DEF ListingInv
<1>3. failures' \in 0..MaxListingFailures
  BY FailuresCount DEF GetMarkets, ListingInv
<1>4. CASE cached[o] # <<>> /\ Answer(c, cached[o][1])
  <2>1. PageOK(cached[o][1])
    BY <1>4 DEF ListingInv, CachedOK
  <2>2. QED  BY <1>1, <1>2, <1>3, <1>4, <2>1, AnswerKeeps
<1>5. CASE /\ pending' = [pending EXCEPT ![c] = [at |-> IF ranked THEN "ranked" ELSE "filtered",
                                                 offset |-> o, page |-> NoPage]]
           /\ UNCHANGED <<walk, over>>
  <2> DEFINE r == [at |-> IF ranked THEN "ranked" ELSE "filtered", offset |-> o, page |-> NoPage]
  <2>1. r.at \in {"filtered", "ranked"} /\ r.offset = o /\ r.page = NoPage
    OBVIOUS
  <2> HIDE DEF r
  <2>2. RequestOK(r)
    <3>1. PageOK(NoPage) /\ Len(NoPage.data) <= Limit
      BY NowIs, ListingBounds DEF ListingInv, NoPage
    <3>2. QED  BY <2>1, <3>1 DEF RequestOK
  <2>3. pending' = [pending EXCEPT ![c] = r]
    BY <1>5 DEF r
  <2>4. PendingOK'
    BY <1>1, <2>2, <2>3, RequestMoves DEF ListingInv
  <2>5. QED  BY <1>1, <1>2, <1>3, <1>5, <2>4, PartsStay DEF ListingInv
<1>6. QED  BY <1>4, <1>5 DEF GetMarkets

\* What a query may add to the page of a request.
Fits(c, answer) ==
  /\ Extended(c, answer) \in Seq(Market) /\ Len(Extended(c, answer)) <= Limit
  /\ IsInjective(Extended(c, answer))

LEMMA QueryKeeps ==
  ASSUME ListingInv, NEW c \in Client, NEW stage, NEW answer, NEW partial,
         Fits(c, answer), \A part \in partial : Fits(c, part), Query(c, stage, answer, partial)
  PROVE  ListingInv'
<1>1. UNCHANGED <<ranked, tables, cached, walk, over, changes, visits>> /\ Len(tables) \in Nat
  BY NowIs DEF Query, ListingInv
<1>2. TablesOK' /\ CachedOK' /\ WalkOK'
  <2>1. TablesOK'
    BY <1>1 DEF ListingInv, TablesOK
  <2>2. QED  BY <1>1, <2>1, PartsStay DEF ListingInv
<1>3. BoundsKept'
  <2>1. MayFail \/ UNCHANGED failures
    BY DEF Query
  <2>2. failures' \in 0..MaxListingFailures
    BY <2>1, FailuresCount DEF ListingInv
  <2>3. QED  BY <1>1, <2>2 DEF ListingInv, BoundsKept
<1>4. PICK e, n, next :
        /\ n \in 0..Len(tables) /\ next \in {"recent", "store"} /\ Fits(c, e)
        /\ pending' = [pending EXCEPT ![c] = [at |-> next, offset |-> pending[c].offset,
                                              page |-> [data |-> Extended(c, e), asOf |-> n]]]
  <2> DEFINE Then(data) == IF stage = "ranked" /\ Len(data) < Limit THEN "recent" ELSE "store"
             AsOf == IF stage # "recent" \/ pending[c].page.asOf = Len(tables) THEN Len(tables) ELSE 0
             Becomes(e, n, next) == pending' = [pending EXCEPT ![c] = [at |-> next, offset |-> pending[c].offset,
                                                               page |-> [data |-> Extended(c, e), asOf |-> n]]]
  <2>1. AsOf \in 0..Len(tables) /\ 0 \in 0..Len(tables) /\ \A data : Then(data) \in {"recent", "store"}
    BY <1>1
  <2>2. \/ Becomes(answer, AsOf, Then(Extended(c, answer)))
        \/ \E part \in partial : Becomes(part, 0, Then(Extended(c, part)))
    BY DEF Query
  <2> HIDE DEF Then, AsOf, Becomes
  <2>3. \E e, n, next : /\ n \in 0..Len(tables) /\ next \in {"recent", "store"} /\ Fits(c, e)
                        /\ Becomes(e, n, next)
    BY <2>1, <2>2
  <2>4. QED  BY <2>3 DEF Becomes
<1> DEFINE r == [at |-> next, offset |-> pending[c].offset, page |-> [data |-> Extended(c, e), asOf |-> n]]
<1>5. RequestOK(r)
  <2>1. pending[c].offset \in Offset
    BY DEF ListingInv, PendingOK, RequestOK
  <2>2. r.page \in Page
    BY <1>4 DEF Page, Fits
  <2>3. QED  BY <1>4, <2>1, <2>2 DEF RequestOK, PageOK, Fits
<1>6. PendingOK'
  <2>1. pending' = [pending EXCEPT ![c] = r]
    BY <1>4
  <2> HIDE DEF r
  <2>2. QED  BY <1>1, <1>5, <2>1, RequestMoves DEF ListingInv
<1>7. QED  BY <1>2, <1>3, <1>6 DEF ListingInv

\* The first query of a page: what it finds is the page.
LEMMA FirstFits ==
  ASSUME ListingInv, NEW c \in Client, pending[c].at \in {"filtered", "ranked"}, NEW answer \in Seq(Market)
  PROVE  /\ Extended(c, answer) = answer
         /\ Len(answer) <= Limit /\ IsInjective(answer) => Fits(c, answer)
<1>1. pending[c].page.data = <<>>
  BY DEF ListingInv, PendingOK, RequestOK, NoPage
<1>2. Extended(c, answer) = answer
  BY <1>1 DEF Extended
<1>3. QED  BY <1>2 DEF Fits

LEMMA NoneFits ==
  ASSUME ListingInv, NEW c \in Client
  PROVE  Fits(c, <<>>)
<1>1. /\ pending[c].page.data \in Seq(Market) /\ Len(pending[c].page.data) <= Limit
      /\ IsInjective(pending[c].page.data)
  BY DEF ListingInv, PendingOK, RequestOK, PageOK, Page
<1>2. Extended(c, <<>>) = pending[c].page.data
  BY <1>1, ConcatEmptySeq DEF Extended
<1>3. QED  BY <1>1, <1>2 DEF Fits

LEMMA FilteredKeeps ==
  ASSUME ListingInv, NEW c \in Client, QueryFiltered(c)
  PROVE  ListingInv'
<1>1. pending[c].at = "filtered"
  BY DEF QueryFiltered, Query
<1>2. pending[c].offset \in Nat
  BY ListingBounds DEF ListingInv, PendingOK, RequestOK
<1> DEFINE answer == Filtered(Now, pending[c].offset)
<1>3. answer \in Seq(Market) /\ Len(answer) <= Limit /\ IsInjective(answer)
  BY <1>2, NowIs, FilteredIs DEF ListingInv
<1>4. Query(c, "filtered", answer, {<<>>})
  BY DEF QueryFiltered
<1> HIDE DEF answer
<1>5. Fits(c, answer) /\ \A part \in {<<>>} : Fits(c, part)
  BY <1>1, <1>3, FirstFits, NoneFits
<1>6. QED  BY <1>4, <1>5, QueryKeeps

LEMMA RankedKeeps ==
  ASSUME ListingInv, NEW c \in Client, QueryRanked(c)
  PROVE  ListingInv'
<1> DEFINE without(lost) == [Now EXCEPT !.created = Filter(Now.created, Market \ lost)]
           o == pending[c].offset
<1>0. PICK order \in Orders(Now.lastSeen) :
        Query(c, "ranked", Ranked(Now, order, o), {Ranked(without(lost), order, o) : lost \in SUBSET Market})
  BY DEF QueryRanked
<1> DEFINE partial == {Ranked(without(lost), order, o) : lost \in SUBSET Market}
<1>1. Query(c, "ranked", Ranked(Now, order, o), partial) /\ pending[c].at = "ranked"
  BY <1>0 DEF Query
<1>2. o \in Nat
  BY ListingBounds DEF ListingInv, PendingOK, RequestOK
<1>4. Now \in Tables
  BY NowIs DEF ListingInv
<1>3. \A t \in Tables : /\ Ranked(t, order, o) \in Seq(Market) /\ Len(Ranked(t, order, o)) <= Limit
                        /\ IsInjective(Ranked(t, order, o))
  <2>1. Now.lastSeen \in [Id -> Nat]
    BY <1>4 DEF Tables
  <2>2. order \in Seq(Id)
    BY <2>1, OrdersIs
  <2>3. QED  BY <1>2, <2>2, RankedIs
<1>5. ASSUME NEW lost \in SUBSET Market PROVE without(lost) \in Tables
  <2>1. Filter(Now.created, Market \ lost) \in Seq(Market)
    BY <1>4, FilterType DEF Tables
  <2>2. QED  BY <1>4, <2>1 DEF Tables
<1>6. \A t \in Tables : Fits(c, Ranked(t, order, o))
  BY <1>1, <1>3, FirstFits
<1> HIDE DEF without, o
<1>7. \A part \in partial : Fits(c, part)
  BY <1>5, <1>6
<1> HIDE DEF partial
<1>8. QED  BY <1>1, <1>4, <1>6, <1>7, QueryKeeps

LEMMA RecentKeeps ==
  ASSUME ListingInv, NEW c \in Client, QueryRecent(c)
  PROVE  ListingInv'
<1> DEFINE data == pending[c].page.data
           answer == Recent(Now, data)
<1>1. Query(c, "recent", answer, {<<>>})
  BY DEF QueryRecent
<1>2. data \in Seq(Market) /\ Len(data) <= Limit /\ IsInjective(data)
  BY DEF ListingInv, PendingOK, RequestOK, PageOK, Page
<1>3. Extended(c, answer) = data \o answer
  BY DEF Extended
<1> HIDE DEF data
<1>4. /\ answer \in Seq(Market) /\ Len(data) + Len(answer) <= Limit
      /\ Range(data) \cap Range(answer) = {} /\ IsInjective(answer)
  BY <1>2, NowIs, RecentIs DEF ListingInv
<1> HIDE DEF answer
<1>5. data \o answer \in Seq(Market) /\ Len(data \o answer) <= Limit /\ IsInjective(data \o answer)
  BY <1>2, <1>4, ConcatIs, ConcatInjective
<1>6. Fits(c, answer) /\ \A part \in {<<>>} : Fits(c, part)
  BY <1>3, <1>5, NoneFits DEF Fits
<1>7. QED  BY <1>1, <1>6, QueryKeeps

LEMMA StoreKeeps ==
  ASSUME ListingInv, NEW c \in Client, Store(c)
  PROVE  ListingInv'
<1> DEFINE p == pending[c].page
           o == pending[c].offset
<1>1. UNCHANGED <<ranked, tables, changes, visits>> /\ Len(tables) \in Nat
  BY NowIs DEF Store, ListingInv
<1>2. PageOK(p) /\ o \in Offset
  BY DEF ListingInv, PendingOK, RequestOK
<1>3. Answer(c, p) /\ (cached' = [cached EXCEPT ![o] = <<p>>] \/ UNCHANGED cached)
  BY DEF Store
<1>4. BoundsKept'
  <2>1. MayFail \/ UNCHANGED failures
    BY DEF Store
  <2>2. failures' \in 0..MaxListingFailures
    BY <2>1, FailuresCount DEF ListingInv
  <2>3. QED  BY <1>1, <2>2 DEF ListingInv, BoundsKept
<1> HIDE DEF p, o
<1>5. TablesOK' /\ PendingOK' /\ WalkOK'
  <2>1. TablesOK'
    BY <1>1 DEF ListingInv, TablesOK
  <2>2. QED  BY <1>1, <1>2, <1>3, <2>1, AnswerKeeps
<1>6. CachedOK'
  <2>1. CASE UNCHANGED cached
    BY <1>1, <2>1, PartsStay DEF ListingInv
  <2>2. CASE cached' = [cached EXCEPT ![o] = <<p>>]
    <3>1. Page' = Page
      BY <1>1 DEF Page
    <3>2. DOMAIN cached' = Offset /\ cached'[o] = <<p>> /\ \A q \in Offset \ {o} : cached'[q] = cached[q]
      BY <1>2, <2>2 DEF ListingInv, CachedOK
    <3>3. Len(<<p>>) = 1 /\ <<p>>[1] = p
      OBVIOUS
    <3>4. \A q \in Offset : cached'[q] = <<>> \/ (Len(cached'[q]) = 1 /\ PageOK(cached'[q][1]))
      BY <1>2, <3>2, <3>3 DEF ListingInv, CachedOK
    <3>5. QED  BY <3>1, <3>2, <3>4 DEF CachedOK, PageOK
  <2>3. QED  BY <1>3, <2>1, <2>2
<1>7. QED  BY <1>4, <1>5, <1>6 DEF ListingInv

LEMMA ChangeKeeps ==
  ASSUME ListingInv, NEW t \in Tables, IsInjective(t.created), Change(t)
  PROVE  ListingInv'
<1>1. /\ tables' = Append(tables, t) /\ changes' = changes + 1 /\ changes < MaxChanges
      /\ UNCHANGED <<ranked, cached, pending, walk, over, visits, failures>>
  BY DEF Change
<1>2. /\ tables' \in Seq(Tables) /\ Len(tables') = Len(tables) + 1 /\ Len(tables) \in Nat
      /\ tables'[Len(tables) + 1] = t /\ \A v \in 1..Len(tables) : tables'[v] = tables[v]
  BY <1>1, AppendIs DEF ListingInv, TablesOK
<1>3. TablesOK'
  <2>1. \A v \in 1..Len(tables') : v \in 1..Len(tables) \/ v = Len(tables) + 1
    BY <1>2
  <2>2. \A v \in 1..Len(tables') : IsInjective(tables'[v].created)
    BY <1>2, <2>1 DEF ListingInv, TablesOK
  <2>3. tables' # <<>>
    BY <1>2
  <2>4. QED  BY <1>2, <2>2, <2>3 DEF TablesOK
<1>4. BoundsKept'
  <2>1. MaxChanges \in Nat
    BY ListingBounds
  <2>2. QED  BY <1>1, <2>1 DEF ListingInv, BoundsKept
<1>5. Len(tables') \in Nat /\ Len(tables) <= Len(tables')
  BY <1>2
<1>6. QED  BY <1>1, <1>3, <1>4, <1>5, PartsStay DEF ListingInv

LEMMA TablesKeep ==
  ASSUME ListingInv, TradeStored \/ WeekPasses \/ MarketStored
  PROVE  ListingInv'
<1>0. Now \in Tables /\ IsInjective(Now.created) /\ Now.lastSeen \in [Id -> Nat] /\ Now.created \in Seq(Market)
  BY NowIs DEF ListingInv, Tables
<1>1. ASSUME NEW f \in [Id -> Nat], Change([Now EXCEPT !.lastSeen = f]) PROVE ListingInv'
  <2> DEFINE t == [Now EXCEPT !.lastSeen = f]
  <2>1. t \in Tables /\ t.created = Now.created
    BY <1>0, <1>1 DEF Tables
  <2>2. Change(t)
    BY <1>1
  <2> HIDE DEF t
  <2>3. QED  BY <1>0, <2>1, <2>2, ChangeKeeps
<1>2. CASE TradeStored
  <2>1. PICK i \in Id, j \in Id, later \in {0, 1} : Change([Now EXCEPT !.lastSeen[i] = Now.lastSeen[j] + later])
    BY <1>2 DEF TradeStored
  <2>2. Now.lastSeen[j] + later \in Nat
    BY <1>0
  <2>3. [Now.lastSeen EXCEPT ![i] = Now.lastSeen[j] + later] \in [Id -> Nat]
    BY <1>0, <2>2
  <2>4. QED  BY <1>1, <2>1, <2>3
<1>3. CASE WeekPasses
  <2>1. PICK i \in Id : Change([Now EXCEPT !.lastSeen =
                               [j \in Id |-> IF Now.lastSeen[j] = Now.lastSeen[i] THEN 0 ELSE Now.lastSeen[j]]])
    BY <1>3 DEF WeekPasses
  <2>2. [j \in Id |-> IF Now.lastSeen[j] = Now.lastSeen[i] THEN 0 ELSE Now.lastSeen[j]] \in [Id -> Nat]
    BY <1>0
  <2>3. QED  BY <1>1, <2>1, <2>2
<1>4. CASE MarketStored
  <2>1. PICK m \in Market : Change([Now EXCEPT !.created = ToFront(Now.created, m)])
    BY <1>4 DEF MarketStored
  <2>2. ToFront(Now.created, m) \in Seq(Market) /\ IsInjective(ToFront(Now.created, m))
    BY <1>0, ToFrontIs
  <2> DEFINE t == [Now EXCEPT !.created = ToFront(Now.created, m)]
  <2>3. t \in Tables /\ t.created = ToFront(Now.created, m)
    BY <1>0, <2>2 DEF Tables
  <2> HIDE DEF t
  <2>4. QED  BY <2>1, <2>2, <2>3, ChangeKeeps DEF t
<1>5. QED  BY <1>2, <1>3, <1>4

LEMMA ExpiryKeeps ==
  ASSUME ListingInv, PageExpires
  PROVE  ListingInv'
<1>1. /\ UNCHANGED <<ranked, tables, pending, walk, over, changes, visits, failures>>
      /\ Len(tables) \in Nat
  BY NowIs DEF PageExpires, ListingInv
<1>2. PICK o \in Offset : cached' = [cached EXCEPT ![o] = <<>>]
  BY DEF PageExpires
<1>3. CachedOK'
  <2>1. Page' = Page
    BY <1>1 DEF Page
  <2>2. QED  BY <1>2, <2>1 DEF ListingInv, CachedOK, PageOK
<1>4. TablesOK' /\ BoundsKept'
  BY <1>1 DEF ListingInv, TablesOK, BoundsKept
<1>5. QED  BY <1>1, <1>3, <1>4, PartsStay DEF ListingInv

LEMMA ListingStarts == ListingInit => ListingInv
<1> SUFFICES ASSUME ListingInit PROVE ListingInv
  OBVIOUS
<1>1. PICK t \in Start : tables = <<t>>
  BY DEF ListingInit
<1>2. t \in Tables /\ IsInjective(t.created)
  BY StartAssumption
<1>3. TablesOK
  BY <1>1, <1>2 DEF TablesOK
<1>4. RequestOK(NoRequest)
  BY <1>3, NowIs
<1>5. PendingOK /\ CachedOK
  BY <1>4 DEF ListingInit, PendingOK, CachedOK
<1>6. WalkOK
  <2>1. walk = <<>> /\ over = FALSE
    BY DEF ListingInit
  <2>2. walk \in Seq(Page) /\ 1..Len(walk) = {}
    BY <2>1
  <2>3. QED  BY <2>1, <2>2 DEF WalkOK
<1>7. BoundsKept
  <2>1. 0 \in 0..MaxChanges /\ 0 \in 0..MaxVisits /\ 0 \in 0..MaxListingFailures
    BY ListingBounds
  <2>2. QED  BY <2>1 DEF ListingInit, BoundsKept
<1>8. QED  BY <1>3, <1>5, <1>6, <1>7 DEF ListingInv

LEMMA ListingSteps == ListingInv /\ [ListingNext]_listingVars => ListingInv'
<1> SUFFICES ASSUME ListingInv, [ListingNext]_listingVars PROVE ListingInv'
  OBVIOUS
<1>1. CASE Walk
  <2>1. Cursor \in Offset /\ GetMarkets("walker", Cursor) /\ visits' = visits /\ "walker" \in Client
    BY <1>1 DEF Walk, Client
  <2>2. UNCHANGED <<ranked, changes>>
    BY <2>1 DEF GetMarkets
  <2>3. TablesOK' /\ CachedOK' /\ PendingOK' /\ WalkOK' /\ failures' \in 0..MaxListingFailures
    BY <2>1, GetMarketsKeeps
  <2>4. QED  BY <2>1, <2>2, <2>3 DEF ListingInv, BoundsKept
<1>2. CASE Visit
  <2>1. PICK o \in Offset : GetMarkets("visitor", o)
    BY <1>2 DEF Visit
  <2>2. UNCHANGED <<ranked, changes>> /\ "visitor" \in Client
    BY <2>1 DEF GetMarkets, Client
  <2>3. TablesOK' /\ CachedOK' /\ PendingOK' /\ WalkOK' /\ failures' \in 0..MaxListingFailures
    BY <2>1, <2>2, GetMarketsKeeps
  <2>4. visits' \in 0..MaxVisits
    BY <1>2, ListingBounds DEF Visit, ListingInv, BoundsKept
  <2>5. QED  BY <2>2, <2>3, <2>4 DEF ListingInv, BoundsKept
<1>3. CASE \E c \in Client : QueryFiltered(c) \/ QueryRanked(c) \/ QueryRecent(c) \/ Store(c)
  BY <1>3, FilteredKeeps, RankedKeeps, RecentKeeps, StoreKeeps
<1>4. CASE TradeStored \/ WeekPasses \/ MarketStored \/ PageExpires
  BY <1>4, TablesKeep, ExpiryKeeps
<1>5. CASE UNCHANGED listingVars
  <2>1. /\ UNCHANGED <<ranked, tables, cached, pending, walk, over, changes, visits, failures>>
        /\ Len(tables) \in Nat
    BY <1>5, NowIs DEF listingVars, ListingInv
  <2>2. TablesOK' /\ BoundsKept'
    BY <2>1 DEF ListingInv, TablesOK, BoundsKept
  <2>3. QED  BY <2>1, <2>2, PartsStay DEF ListingInv
<1>6. QED  BY <1>1, <1>2, <1>3, <1>4, <1>5 DEF ListingNext

LEMMA ListingAlways == ListingSpec => []ListingInv
BY ListingStarts, ListingSteps, PTL DEF ListingSpec

\* Every variable of the market listing has its type, and no page is longer
\* than the limit (GetMarkets, rest.go:220-283).
THEOREM ListingTypeCorrect == ListingSpec => []ListingTypeOK
<1>1. ListingInv => ListingTypeOK
  <2> SUFFICES ASSUME ListingInv PROVE ListingTypeOK
    OBVIOUS
  <2>1. ranked \in BOOLEAN /\ tables \in Seq(Tables) /\ tables # <<>>
    BY DEF ListingInv, TablesOK, BoundsKept
  <2>2. \A o \in Offset : cached[o] = <<>> \/ (Len(cached[o]) = 1 /\ cached[o][1] \in Page)
    BY DEF ListingInv, CachedOK, PageOK
  <2>3. \A c \in Client :
          /\ pending[c].at \in {"idle", "filtered", "ranked", "recent", "store"}
          /\ pending[c].offset \in Offset
          /\ pending[c].page \in Page /\ Len(pending[c].page.data) <= Limit
    BY DEF ListingInv, PendingOK, RequestOK, PageOK
  <2>4. /\ walk \in Seq(Page) /\ over \in BOOLEAN
        /\ changes \in 0..MaxChanges /\ visits \in 0..MaxVisits /\ failures \in 0..MaxListingFailures
    BY DEF ListingInv, WalkOK, BoundsKept
  <2>5. QED  BY <2>1, <2>2, <2>3, <2>4 DEF ListingTypeOK
<1>2. QED  BY <1>1, ListingAlways, PTL

\* No page, computed or out of the cache, lists a market twice, whatever ids
\* its trades were stored under and however the tables change between its
\* queries (rest.go:267, 337, 379, 441).
THEOREM NoMarketTwice == ListingSpec => []PagesListMarketsOnce
<1>1. ListingInv => PagesListMarketsOnce
  <2> SUFFICES ASSUME ListingInv PROVE PagesListMarketsOnce
    OBVIOUS
  <2>1. \A i \in DOMAIN walk : IsInjective(walk[i].data)
    <3>1. DOMAIN walk = 1..Len(walk)
      BY DEF ListingInv, WalkOK
    <3>2. QED  BY <3>1 DEF ListingInv, WalkOK
  <2>2. \A o \in Offset : cached[o] # <<>> => IsInjective(cached[o][1].data)
    BY DEF ListingInv, CachedOK, PageOK
  <2>3. QED  BY <2>1, <2>2 DEF PagesListMarketsOnce
<1>2. QED  BY <1>1, ListingAlways, PTL

---------------------------------------------------------------------------
(* What a walk has given                                                   *)

\* A page with a category, tag or series is the one of the tables it was
\* computed from.
PageExact(p, o) == ~ranked /\ p.asOf # 0 => p.data = Filtered(tables[p.asOf], o)

CachedExact == \A o \in Offset : cached[o] # <<>> => PageExact(cached[o][1], o)

RequestExact(r) ==
  /\ r.at = "store" => PageExact(r.page, r.offset)
  /\ r.at = "filtered" => ~ranked
  /\ r.at \in {"ranked", "recent"} => ranked

PendingExact == \A c \in Client : RequestExact(pending[c])

\* The walker asks for the page after those it has.
WalkerAsks ==
  /\ pending["walker"].at # "idle" => pending["walker"].offset = Cursor
  /\ walk = <<>> => ~over

\* What a walk of pages that are exact for tables t has given.
Given(t) ==
  ~ranked => /\ Data = Take(Matching(t.created), Cursor)
             /\ over => Len(Matching(t.created)) <= Cursor

WalksExact == \A t \in Range(tables) : Undisturbed(t) => Given(t)

ExactInv == CachedExact /\ PendingExact /\ WalkerAsks /\ WalksExact

\* Enough room for all of a sequence.
LEMMA TakeAll ==
  ASSUME NEW T, NEW s \in Seq(T), NEW n \in Nat, Len(s) <= n
  PROVE  Take(s, n) = s
<1>1. Len(s) \in Nat /\ ~(n < Len(s))
  OBVIOUS
<1>2. Take(s, n) = SubSeq(s, 1, Len(s))
  BY <1>1 DEF Take
<1>3. QED  BY <1>2, WholeSeq

LEMMA PrefixIs ==
  ASSUME NEW T, NEW s \in Seq(T), NEW u \in Seq(T), Len(s) <= Len(u), \A i \in 1..Len(s) : s[i] = u[i]
  PROVE  IsPrefix(s, u)
<1> DEFINE p == Take(u, Len(s))
<1>1. Len(s) \in Nat /\ Len(u) \in Nat
  OBVIOUS
<1>2. p \in Seq(T) /\ Len(p) = (IF Len(s) < Len(u) THEN Len(s) ELSE Len(u)) /\ \A i \in 1..Len(p) : p[i] = u[i]
  BY <1>1, TakeIs
<1>3. p = SubSeq(u, 1, Len(s))
  <2>1. (IF Len(s) < Len(u) THEN Len(s) ELSE Len(u)) = Len(s)
    BY <1>1
  <2>2. QED  BY <2>1 DEF Take
<1> HIDE DEF p
<1>4. Len(p) = Len(s) /\ \A i \in 1..Len(s) : p[i] = s[i]
  BY <1>1, <1>2
<1>5. p = s
  BY <1>2, <1>4, SeqEqual
<1>6. SubSeq(s, 1, Len(s)) = s
  BY WholeSeq
<1>7. QED  BY <1>3, <1>5, <1>6 DEF IsPrefix

LEMMA TakePrefix ==
  ASSUME NEW T, NEW s \in Seq(T), NEW n \in Nat
  PROVE  IsPrefix(Take(s, n), s)
<1> DEFINE p == Take(s, n)
<1>1. /\ p \in Seq(T) /\ Len(s) \in Nat /\ Len(p) = (IF n < Len(s) THEN n ELSE Len(s))
      /\ \A i \in 1..Len(p) : p[i] = s[i]
  BY TakeIs
<1> HIDE DEF p
<1>2. Len(p) <= Len(s)
  BY <1>1
<1>3. IsPrefix(p, s)
  BY <1>1, <1>2, PrefixIs
<1>4. QED  BY <1>3 DEF p

\* The pages of the walk.
LEMMA PagesIs ==
  ASSUME WalkOK
  PROVE  /\ walk \in Seq(Page) /\ Len(walk) \in Nat /\ DOMAIN walk = 1..Len(walk) /\ Limit \in Nat
         /\ \A i \in 1..Len(walk) : walk[i].data \in Seq(Market)
<1>1. walk \in Seq(Page)
  BY DEF WalkOK
<1>2. Len(walk) \in Nat /\ DOMAIN walk = 1..Len(walk) /\ \A i \in 1..Len(walk) : walk[i] \in Page
  BY <1>1, LenProperties
<1>3. \A q \in Page : q.data \in Seq(Market)
  BY DEF Page
<1>4. QED  BY <1>1, <1>2, <1>3, ListingBounds

\* The walk as a list of markets.
LEMMA DataIs ==
  ASSUME WalkOK
  PROVE  Data \in Seq(Market) /\ Cursor \in Nat /\ (walk = <<>> => Data = <<>> /\ Cursor = 0)
<1> DEFINE d == [i \in DOMAIN walk |-> walk[i].data]
<1>1. /\ walk \in Seq(Page) /\ Len(walk) \in Nat /\ DOMAIN walk = 1..Len(walk) /\ Limit \in Nat
      /\ \A i \in 1..Len(walk) : walk[i].data \in Seq(Market)
  BY PagesIs
<1>2. d \in Seq(Seq(Market)) /\ Len(d) = Len(walk)
  BY <1>1
<1>3. Data = FlattenSeq(d)
  BY DEF Data
<1> HIDE DEF d
<1>4. FlattenSeq(d) \in Seq(Market)
  <2>1. 0 \in 0..Len(d) /\ Len(d) \in 0..Len(d) /\ 0 + 1 = 1
    BY <1>1, <1>2
  <2>2. FlattenSeq(SubSeq(d, 0 + 1, Len(d))) \in Seq(Market)
    BY <1>2, <2>1, FlattenParts
  <2>3. QED  BY <1>2, <2>1, <2>2, WholeSeq
<1>5. ASSUME walk = <<>> PROVE Data = <<>> /\ Cursor = 0
  <2>1. Len(walk) = 0
    BY <1>5
  <2>2. d = <<>>
    BY <1>2, <2>1
  <2>3. FlattenSeq(d) = <<>>
    BY <2>2, FlattenNone
  <2>4. Limit * 0 = 0
    BY <1>1
  <2>5. QED  BY <1>3, <2>1, <2>3, <2>4 DEF Cursor
<1>6. Cursor \in Nat
  BY <1>1 DEF Cursor
<1>7. QED  BY <1>3, <1>4, <1>5, <1>6

\* A page more.
LEMMA DataMore ==
  ASSUME WalkOK, NEW p \in Page, walk' = Append(walk, p)
  PROVE  Data' = Data \o p.data /\ Cursor' = Cursor + Limit
<1> DEFINE d == [i \in DOMAIN walk |-> walk[i].data]
           e == [i \in DOMAIN walk' |-> walk'[i].data]
<1>1. /\ walk \in Seq(Page) /\ Len(walk) \in Nat /\ DOMAIN walk = 1..Len(walk) /\ Limit \in Nat
      /\ \A i \in 1..Len(walk) : walk[i].data \in Seq(Market)
      /\ p.data \in Seq(Market) /\ \A q \in Page : q.data \in Seq(Market)
  BY PagesIs DEF Page
<1>2. /\ walk' \in Seq(Page) /\ Len(walk') = Len(walk) + 1 /\ walk'[Len(walk) + 1] = p
      /\ \A i \in 1..Len(walk) : walk'[i] = walk[i]
  BY <1>1, AppendIs
<1>3. d \in Seq(Seq(Market)) /\ Len(d) = Len(walk)
  BY <1>1
<1>4. e = Append(d, p.data)
  <2>1. DOMAIN walk' = 1..(Len(walk) + 1)
    BY <1>2
  <2>2. e \in Seq(Seq(Market)) /\ Len(e) = Len(walk) + 1
    <3>1. \A i \in 1..(Len(walk) + 1) : walk'[i].data \in Seq(Market)
      BY <1>1, <1>2, <2>1
    <3>2. QED  BY <1>1, <2>1, <3>1
  <2>3. /\ Append(d, p.data) \in Seq(Seq(Market)) /\ Len(Append(d, p.data)) = Len(d) + 1
        /\ Append(d, p.data)[Len(d) + 1] = p.data
        /\ \A i \in 1..Len(d) : Append(d, p.data)[i] = d[i]
    <3> HIDE DEF d
    <3>1. QED  BY <1>1, <1>3, AppendIs
  <2>4. \A i \in 1..(Len(walk) + 1) : e[i] = Append(d, p.data)[i]
    <3>1. \A i \in 1..Len(walk) : e[i] = walk[i].data /\ d[i] = walk[i].data
      BY <1>1, <1>2, <2>1
    <3>2. e[Len(walk) + 1] = p.data
      BY <1>1, <1>2, <2>1
    <3>3. \A i \in 1..(Len(walk) + 1) : i \in 1..Len(walk) \/ i = Len(walk) + 1
      BY <1>1
    <3> HIDE DEF d, e
    <3>4. QED  BY <1>3, <2>3, <3>1, <3>2, <3>3
  <2> HIDE DEF d, e
  <2>5. QED  BY <1>3, <2>2, <2>3, <2>4, SeqEqual
<1>5. Data = FlattenSeq(d) /\ Data' = FlattenSeq(e)
  BY DEF Data
<1> HIDE DEF d, e
<1>6. Data' = Data \o p.data
  BY <1>1, <1>3, <1>4, <1>5, FlattenMore
<1>7. Cursor' = Cursor + Limit
  <2>1. PICK n \in Nat, l \in Nat : n = Len(walk) /\ l = Limit
    BY <1>1
  <2>2. l * (n + 1) = l * n + l
    OBVIOUS
  <2>3. QED  BY <1>2, <2>1, <2>2 DEF Cursor
<1>8. QED  BY <1>6, <1>7

\* An exact page more.
LEMMA GivenMore ==
  ASSUME ListingInv, NEW t \in Tables, Given(t), NEW p \in Page,
         ~ranked => p.data = Filtered(t, Cursor), walk' = Append(walk, p), over' = (Len(p.data) < Limit),
         ranked' = ranked
  PROVE  Given(t)'
<1> DEFINE D == Data
           C == Cursor
           q == p.data
<1>1. /\ D \in Seq(Market) /\ C \in Nat /\ Data' = D \o q /\ Cursor' = C + Limit
      /\ q \in Seq(Market) /\ Len(q) \in Nat /\ Limit \in Nat /\ C + Limit \in Nat
  <2>1. WalkOK /\ q \in Seq(Market)
    BY DEF ListingInv, Page
  <2>2. Len(q) \in Nat /\ Limit \in Nat
    BY <2>1, ListingBounds
  <2> HIDE DEF q
  <2>3. D \in Seq(Market) /\ C \in Nat
    BY <2>1, DataIs
  <2>4. Data' = D \o q /\ Cursor' = C + Limit
    BY <2>1, DataMore DEF q
  <2> HIDE DEF C, D
  <2>5. C + Limit \in Nat
    BY <2>2, <2>3
  <2>6. QED  BY <2>1, <2>2, <2>3, <2>4, <2>5
<1>2. t.created \in Seq(Market)
  BY DEF Tables
<1>3. CASE ~ranked
  <2> DEFINE M == Matching(t.created)
  <2>1. M \in Seq(Market) /\ D = Take(M, C) /\ q = Take(From(M, C), Limit)
    BY <1>2, <1>3, MatchingIs DEF Given, Filtered
  <2> HIDE DEF M, D, C, q
  <2>2. Data' = Take(M, C + Limit)
    BY <1>1, <2>1, TakeThenMore
  <2>3. /\ From(M, C) \in Seq(Market) /\ Len(M) \in Nat
        /\ Len(From(M, C)) = IF C < Len(M) THEN Len(M) - C ELSE 0
    BY <1>1, <2>1, FromIs
  <2>4. Len(q) = IF Limit < Len(From(M, C)) THEN Limit ELSE Len(From(M, C))
    BY <1>1, <2>1, <2>3, TakeIs
  <2>5. over' => Len(M) <= C + Limit
    <3> SUFFICES ASSUME over' PROVE Len(M) <= C + Limit
      OBVIOUS
    <3>1. Len(q) < Limit
      BY DEF q
    <3>2. QED  BY <1>1, <2>3, <2>4, <3>1
  <2>6. Data' = Take(M, Cursor') /\ (over' => Len(M) <= Cursor')
    BY <1>1, <2>2, <2>5
  <2>7. ~ranked'
    BY <1>3
  <2>8. QED  BY <2>6, <2>7 DEF Given, M
<1>4. CASE ranked
  BY <1>4 DEF Given
<1>5. QED  BY <1>3, <1>4

\* Nothing has been given by a walk that has not begun.
LEMMA GivenNone ==
  ASSUME ListingInv, walk = <<>>, ~over, NEW t \in Tables
  PROVE  Given(t)
<1>1. Data = <<>> /\ Cursor = 0
  BY DataIs DEF ListingInv
<1>2. ASSUME NEW s \in Seq(Market) PROVE Take(s, 0) = <<>> /\ 0 <= Len(s)
  <2>1. Take(s, 0) \in Seq(Market) /\ Len(s) \in Nat /\ Len(Take(s, 0)) = IF 0 < Len(s) THEN 0 ELSE Len(s)
    BY TakeIs
  <2>2. Len(Take(s, 0)) = 0
    BY <2>1
  <2>3. QED  BY <2>1, <2>2
<1>3. Matching(t.created) \in Seq(Market)
  BY MatchingIs DEF Tables
<1>4. QED  BY <1>1, <1>2, <1>3 DEF Given

\* What is exact stays exact when tables are only added.
LEMMA ExactStays ==
  ASSUME ListingInv, ranked' = ranked, \A v \in 1..Len(tables) : tables'[v] = tables[v]
  PROVE  /\ \A p, o : PageOK(p) /\ PageExact(p, o) => PageExact(p, o)'
         /\ \A r : RequestOK(r) /\ RequestExact(r) => RequestExact(r)'
         /\ cached' = cached /\ CachedExact => CachedExact'
<1>1. ASSUME NEW p, NEW o, PageOK(p), PageExact(p, o) PROVE PageExact(p, o)'
  <2>1. p.asOf \in 0..Len(tables) /\ Len(tables) \in Nat
    BY <1>1, NowIs DEF ListingInv, PageOK, Page
  <2>2. p.asOf # 0 => tables'[p.asOf] = tables[p.asOf]
    BY <2>1
  <2>3. QED  BY <1>1, <2>2 DEF PageExact
<1>2. ASSUME NEW r, RequestOK(r), RequestExact(r) PROVE RequestExact(r)'
  BY <1>1, <1>2 DEF RequestOK, RequestExact
<1>3. ASSUME cached' = cached, CachedExact PROVE CachedExact'
  BY <1>1, <1>3 DEF CachedExact, ListingInv, CachedOK
<1>4. QED  BY <1>1, <1>2, <1>3

\* A walk that gets no page stays exact.
LEMMA WalkStays ==
  ASSUME WalksExact, UNCHANGED <<ranked, tables, walk, over>>
  PROVE  WalksExact' /\ Cursor' = Cursor
<1>1. Data' = Data /\ Cursor' = Cursor /\ \A t : Undisturbed(t)' = Undisturbed(t)
  BY DEF Data, Cursor, Undisturbed
<1>2. \A t : Given(t)' = Given(t)
  BY <1>1 DEF Given
<1>3. QED  BY <1>1, <1>2 DEF WalksExact

\* The walk gets an exact page.
LEMMA WalkGets ==
  ASSUME ListingInv, WalksExact, UNCHANGED <<ranked, tables>>,
         NEW p, PageOK(p), PageExact(p, Cursor), walk' = Append(walk, p),
         over' = (Len(p.data) < Limit)
  PROVE  WalksExact' /\ walk' # <<>>
<1>1. WalkOK /\ p \in Page
  BY DEF ListingInv, PageOK
<1>2. /\ Len(walk') = Len(walk) + 1 /\ Len(walk) \in Nat /\ walk'[Len(walk) + 1] = p
      /\ \A i \in 1..Len(walk) : walk'[i] = walk[i]
      /\ walk' \in Seq(Page) /\ DOMAIN walk = 1..Len(walk) /\ DOMAIN walk' = 1..(Len(walk) + 1)
  <2>1. walk \in Seq(Page) /\ DOMAIN walk = 1..Len(walk)
    BY <1>1, PagesIs
  <2>2. /\ Len(walk') = Len(walk) + 1 /\ Len(walk) \in Nat /\ walk'[Len(walk) + 1] = p
        /\ \A i \in 1..Len(walk) : walk'[i] = walk[i]
        /\ walk' \in Seq(Page)
    BY <1>1, <2>1, AppendIs
  <2>3. QED  BY <2>1, <2>2
<1>3. walk' # <<>>
  BY <1>2
<1>4. ASSUME NEW t \in Range(tables)', Undisturbed(t)' PROVE Given(t)'
  <2>1. PICK v \in DOMAIN tables : t = tables[v] /\ \A i \in DOMAIN walk' : walk'[i].asOf = v
    BY <1>4 DEF Undisturbed
  <2>2. v \in 1..Len(tables) /\ t \in Tables /\ t \in Range(tables) /\ v # 0
    <3>1. DOMAIN tables = 1..Len(tables) /\ Len(tables) \in Nat /\ \A w \in 1..Len(tables) : tables[w] \in Tables
      BY LenProperties DEF ListingInv, TablesOK
    <3>2. QED  BY <1>4, <2>1, <3>1
  <2>3. \A i \in DOMAIN walk : i \in DOMAIN walk' /\ walk'[i] = walk[i]
    BY <1>2
  <2>4. Given(t)
    BY <2>1, <2>2, <2>3 DEF Undisturbed, WalksExact
  <2>5. p.asOf = v
    BY <1>2, <2>1
  <2>6. ~ranked => p.data = Filtered(t, Cursor)
    BY <2>1, <2>2, <2>5 DEF PageExact
  <2>7. QED  BY <1>1, <2>2, <2>4, <2>6, GivenMore
<1>5. QED  BY <1>3, <1>4 DEF WalksExact

\* A request moves on.
LEMMA RequestExactMoves ==
  ASSUME ListingInv, ExactInv, UNCHANGED <<ranked, tables, walk, over>>,
         NEW c \in Client, NEW r, RequestOK(r), RequestExact(r),
         c = "walker" => r.offset = Cursor, pending' = [pending EXCEPT ![c] = r]
  PROVE  PendingExact' /\ WalkerAsks' /\ WalksExact'
<1>1. WalksExact' /\ Cursor' = Cursor
  BY WalkStays DEF ExactInv
<1>2. \A d \in Client : RequestOK(pending[d]) /\ RequestExact(pending[d])
  BY DEF ListingInv, PendingOK, ExactInv, PendingExact
<1>3. \A e : RequestOK(e) /\ RequestExact(e) => RequestExact(e)'
  BY ExactStays
<1>4. pending'[c] = r /\ \A d \in Client \ {c} : pending'[d] = pending[d]
  BY DEF ListingInv, PendingOK
<1>5. \A d \in Client : \E e : RequestOK(e) /\ RequestExact(e) /\ pending'[d] = e
  BY <1>2, <1>4
<1>6. PendingExact'
  <2> SUFFICES ASSUME NEW d \in Client PROVE RequestExact(pending[d])'
    BY DEF PendingExact
  <2>1. PICK e : RequestOK(e) /\ RequestExact(e) /\ pending'[d] = e
    BY <1>5
  <2>2. RequestExact(e)'
    BY <1>3, <2>1
  <2>3. QED  BY <2>1, <2>2 DEF RequestExact
<1>7. WalkerAsks'
  <2>1. "walker" \in Client
    BY DEF Client
  <2>2. pending'["walker"].at # "idle" => pending'["walker"].offset = Cursor
    BY <1>4, <2>1 DEF ExactInv, WalkerAsks
  <2>3. QED  BY <1>1, <2>2 DEF ExactInv, WalkerAsks
<1>8. QED  BY <1>1, <1>6, <1>7

\* A request is answered.
LEMMA AnswerExact ==
  ASSUME ListingInv, ExactInv, UNCHANGED <<ranked, tables>>,
         NEW c \in Client, NEW p, PageOK(p), Answer(c, p),
         c = "walker" => PageExact(p, Cursor)
  PROVE  PendingExact' /\ WalkerAsks' /\ WalksExact'
<1>1. pending' = [pending EXCEPT ![c] = NoRequest]
  BY DEF Answer
<1>2. pending'[c] = NoRequest /\ \A d \in Client \ {c} : pending'[d] = pending[d]
  BY <1>1 DEF ListingInv, PendingOK
<1>3. ASSUME NEW d \in Client PROVE RequestExact(pending[d])'
  <2>1. CASE d = c
    BY <1>2, <2>1 DEF RequestExact, NoRequest
  <2>2. CASE d # c
    <3>1. PICK e : pending[d] = e
      OBVIOUS
    <3>2. RequestOK(e) /\ RequestExact(e)
      BY <3>1 DEF ListingInv, PendingOK, ExactInv, PendingExact
    <3>3. RequestExact(e)'
      BY <3>2, ExactStays
    <3>4. pending'[d] = e
      BY <1>2, <2>2, <3>1
    <3>5. QED  BY <3>3, <3>4 DEF RequestExact
  <2>3. QED  BY <2>1, <2>2
<1>4. PendingExact'
  BY <1>3 DEF PendingExact
<1>5. CASE c = "walker"
  <2>1. walk' = Append(walk, p) /\ over' = (Len(p.data) < Limit)
    BY <1>5 DEF Answer
  <2>2. WalksExact' /\ walk' # <<>>
    BY <1>5, <2>1, WalkGets DEF ExactInv
  <2>3. pending'["walker"].at = "idle"
    BY <1>2, <1>5 DEF NoRequest
  <2>4. QED  BY <1>4, <2>2, <2>3 DEF WalkerAsks
<1>6. CASE c # "walker"
  <2>1. UNCHANGED <<walk, over>>
    BY <1>6 DEF Answer
  <2>2. WalksExact' /\ Cursor' = Cursor
    BY <2>1, WalkStays DEF ExactInv
  <2>3. pending'["walker"] = pending["walker"]
    BY <1>2, <1>6 DEF Client
  <2>4. QED  BY <1>4, <2>1, <2>2, <2>3 DEF WalkerAsks, ExactInv
<1>7. QED  BY <1>5, <1>6

LEMMA GetMarketsExact ==
  ASSUME ListingInv, ExactInv, NEW c \in Client, NEW o \in Offset, GetMarkets(c, o),
         c = "walker" => o = Cursor
  PROVE  ExactInv'
<1>1. UNCHANGED <<ranked, tables, cached>>
  BY DEF GetMarkets
<1>2. CachedExact'
  BY <1>1, ExactStays DEF ExactInv
<1>3. CASE cached[o] # <<>> /\ Answer(c, cached[o][1])
  <2>1. PageOK(cached[o][1]) /\ PageExact(cached[o][1], o)
    BY <1>3 DEF ListingInv, CachedOK, ExactInv, CachedExact
  <2>2. PendingExact' /\ WalkerAsks' /\ WalksExact'
    BY <1>1, <1>3, <2>1, AnswerExact
  <2>3. QED  BY <1>2, <2>2 DEF ExactInv
<1>4. CASE /\ pending' = [pending EXCEPT ![c] = [at |-> IF ranked THEN "ranked" ELSE "filtered",
                                                 offset |-> o, page |-> NoPage]]
           /\ UNCHANGED <<walk, over>>
  <2> DEFINE r == [at |-> IF ranked THEN "ranked" ELSE "filtered", offset |-> o, page |-> NoPage]
  <2>1. /\ (r.at = "filtered" /\ ~ranked) \/ (r.at = "ranked" /\ ranked)
        /\ r.offset = o /\ r.page = NoPage /\ pending' = [pending EXCEPT ![c] = r]
    BY <1>4
  <2> HIDE DEF r
  <2>2. RequestOK(r) /\ RequestExact(r)
    <3>1. PageOK(NoPage) /\ Len(NoPage.data) <= Limit
      BY NowIs, ListingBounds DEF ListingInv, NoPage
    <3>2. RequestOK(r)
      BY <2>1, <3>1 DEF RequestOK
    <3>3. RequestExact(r)
      BY <2>1 DEF RequestExact
    <3>4. QED  BY <3>2, <3>3
  <2>3. PendingExact' /\ WalkerAsks' /\ WalksExact'
    BY <1>1, <1>4, <2>1, <2>2, RequestExactMoves
  <2>4. QED  BY <1>2, <2>3 DEF ExactInv
<1>5. QED  BY <1>3, <1>4 DEF GetMarkets

\* What a query makes of a request, if it makes an exact one.
LEMMA QueryExact ==
  ASSUME ListingInv, ListingInv', ExactInv, NEW c \in Client, NEW stage, stage # "idle",
         NEW answer, NEW partial, Query(c, stage, answer, partial),
         NEW asOf, asOf = IF stage # "recent" \/ pending[c].page.asOf = Len(tables) THEN Len(tables) ELSE 0,
         NEW o, o = pending[c].offset, NEW e, e = Extended(c, answer),
         ~ranked /\ asOf # 0 => e = Filtered(tables[asOf], o),
         stage = "ranked" => ranked
  PROVE  ExactInv'
<1>1. UNCHANGED <<ranked, tables, cached, walk, over>> /\ pending[c].at = stage
  BY DEF Query
<1>2. CachedExact'
  BY <1>1, ExactStays DEF ExactInv
<1> DEFINE Then(data) == IF stage = "ranked" /\ Len(data) < Limit THEN "recent" ELSE "store"
           Req(data, n) == [at |-> Then(data), offset |-> o, page |-> [data |-> data, asOf |-> n]]
<1>3. \/ pending' = [pending EXCEPT ![c] = Req(e, asOf)]
      \/ \E part \in partial : pending' = [pending EXCEPT ![c] = Req(Extended(c, part), 0)]
  BY DEF Query
<1>4. RequestExact(Req(e, asOf))
  BY DEF RequestExact, PageExact
<1>5. \A data : RequestExact(Req(data, 0))
  BY DEF RequestExact, PageExact
<1>6. Req(e, asOf).offset = o /\ \A data : Req(data, 0).offset = o
  OBVIOUS
<1> HIDE DEF Req
<1>7. PICK r : pending' = [pending EXCEPT ![c] = r] /\ RequestExact(r) /\ r.offset = o
  BY <1>3, <1>4, <1>5, <1>6
<1>8. RequestOK(r)
  <2>1. pending'[c] = r /\ Page' = Page
    BY <1>1, <1>7 DEF ListingInv, PendingOK, Page
  <2>2. RequestOK(pending[c])'
    BY DEF ListingInv, PendingOK
  <2>3. QED  BY <1>1, <2>1, <2>2 DEF RequestOK, PageOK
<1>9. c = "walker" => r.offset = Cursor
  BY <1>1, <1>7 DEF ExactInv, WalkerAsks
<1>10. PendingExact' /\ WalkerAsks' /\ WalksExact'
  BY <1>1, <1>7, <1>8, <1>9, RequestExactMoves
<1>11. QED  BY <1>2, <1>10 DEF ExactInv

LEMMA TablesIn == TablesOK => \A t \in Range(tables) : t \in Tables
<1> SUFFICES ASSUME TablesOK PROVE \A t \in Range(tables) : t \in Tables
  OBVIOUS
<1>1. tables \in Seq(Tables)
  BY DEF TablesOK
<1>2. DOMAIN tables = 1..Len(tables) /\ \A v \in 1..Len(tables) : tables[v] \in Tables
  BY <1>1, LenProperties
<1>3. QED  BY <1>2 DEF Range

LEMMA QueriesExact ==
  ASSUME ListingInv, ListingInv', ExactInv, NEW c \in Client,
         QueryFiltered(c) \/ QueryRanked(c) \/ QueryRecent(c)
  PROVE  ExactInv'
<1> DEFINE o == pending[c].offset
           p == pending[c].page
           n == Len(tables)
           last == tables[Len(tables)]
<1>1. n # 0 /\ Now = last /\ RequestOK(pending[c]) /\ RequestExact(pending[c])
  BY NowIs DEF Now, ListingInv, PendingOK, ExactInv, PendingExact
<1>2. p.data \in Seq(Market)
  BY <1>1 DEF RequestOK, PageOK, Page
<1>3. ASSUME NEW answer \in Seq(Market), pending[c].at \in {"filtered", "ranked"} PROVE Extended(c, answer) = answer
  BY <1>3, FirstFits
<1>4. Now \in Tables /\ o \in Nat
  BY <1>1, NowIs, ListingBounds DEF ListingInv, RequestOK
<1>5. CASE QueryFiltered(c)
  <2>1. Query(c, "filtered", Filtered(Now, o), {<<>>}) /\ pending[c].at = "filtered"
    BY <1>5 DEF QueryFiltered, Query
  <2>2. Extended(c, Filtered(Now, o)) = Filtered(Now, o)
    BY <1>1, <1>3, <1>4, <2>1, FilteredIs
  <2>3. Extended(c, Filtered(Now, o)) = Filtered(tables[n], o)
    BY <1>1, <2>2
  <2>4. QED  BY <2>1, <2>3, QueryExact
<1>6. CASE QueryRanked(c)
  <2>1. PICK r, partial : Query(c, "ranked", r, partial)
    BY <1>6 DEF QueryRanked
  <2>2. ranked
    BY <1>1, <2>1 DEF RequestExact, Query
  <2>3. QED  BY <2>1, <2>2, QueryExact
<1>7. CASE QueryRecent(c)
  <2>1. PICK l : Query(c, "recent", l, {<<>>})
    BY <1>7 DEF QueryRecent
  <2>2. ranked
    BY <1>1, <2>1 DEF RequestExact, Query
  <2>3. QED  BY <2>1, <2>2, QueryExact
<1>8. QED  BY <1>5, <1>6, <1>7

LEMMA StoreExact ==
  ASSUME ListingInv, ExactInv, NEW c \in Client, Store(c)
  PROVE  ExactInv'
<1> DEFINE p == pending[c].page
           o == pending[c].offset
<1>1. /\ UNCHANGED <<ranked, tables>> /\ Answer(c, p) /\ pending[c].at = "store"
      /\ cached' = [cached EXCEPT ![o] = <<p>>] \/ UNCHANGED cached
  BY DEF Store
<1>2. PageOK(p) /\ o \in Offset /\ PageExact(p, o)
  BY <1>1 DEF ListingInv, PendingOK, RequestOK, ExactInv, PendingExact, RequestExact
<1>3. c = "walker" => o = Cursor
  BY <1>1 DEF ExactInv, WalkerAsks
<1> HIDE DEF p, o
<1>4. PendingExact' /\ WalkerAsks' /\ WalksExact'
  BY <1>1, <1>2, <1>3, AnswerExact
<1>5. \A q, w : PageOK(q) /\ PageExact(q, w) => PageExact(q, w)'
  BY <1>1, ExactStays
<1>6. CachedExact'
  <2>1. CASE UNCHANGED cached
    BY <1>1, <2>1, ExactStays DEF ExactInv
  <2>2. CASE cached' = [cached EXCEPT ![o] = <<p>>]
    <3>1. cached'[o] = <<p>> /\ \A w \in Offset \ {o} : cached'[w] = cached[w]
      BY <1>2, <2>2 DEF ListingInv, CachedOK
    <3>2. ASSUME NEW w \in Offset, cached'[w] # <<>>
          PROVE  \E q : PageOK(q) /\ PageExact(q, w) /\ cached'[w][1] = q
      <4>1. CASE w = o
        BY <1>2, <3>1, <4>1
      <4>2. CASE w # o
        BY <3>1, <3>2, <4>2 DEF ListingInv, CachedOK, ExactInv, CachedExact
      <4>3. QED  BY <4>1, <4>2
    <3>3. ASSUME NEW w \in Offset, cached'[w] # <<>> PROVE PageExact(cached[w][1], w)'
      <4>1. PICK q : PageOK(q) /\ PageExact(q, w) /\ cached'[w][1] = q
        BY <3>2, <3>3
      <4>2. PageExact(q, w)'
        BY <1>5, <4>1
      <4>3. QED  BY <4>1, <4>2 DEF PageExact
    <3>4. QED  BY <3>3 DEF CachedExact
  <2>3. QED  BY <1>1, <2>1, <2>2
<1>7. QED  BY <1>4, <1>6 DEF ExactInv

LEMMA ChangeExact ==
  ASSUME ListingInv, ListingInv', ExactInv, NEW t0, Change(t0)
  PROVE  ExactInv'
<1>1. /\ tables' = Append(tables, t0)
      /\ UNCHANGED <<ranked, cached, pending, walk, over>>
  BY DEF Change
<1>2. /\ tables \in Seq(Tables) /\ Len(tables) \in Nat /\ tables' \in Seq(Tables)
      /\ DOMAIN tables = 1..Len(tables) /\ DOMAIN tables' = 1..Len(tables') /\ Len(tables') = Len(tables) + 1
      /\ \A v \in 1..Len(tables) : tables'[v] = tables[v] /\ tables[v] \in Tables
      /\ \A v \in 1..Len(tables') : tables'[v] \in Tables
  <2>1. tables \in Seq(Tables) /\ tables' \in Seq(Tables)
    BY DEF ListingInv, TablesOK
  <2>2. /\ Len(tables) \in Nat /\ DOMAIN tables = 1..Len(tables) /\ DOMAIN tables' = 1..Len(tables')
        /\ \A v \in 1..Len(tables) : tables[v] \in Tables
        /\ \A v \in 1..Len(tables') : tables'[v] \in Tables
    BY <2>1, LenProperties
  <2>3. Len(tables') = Len(tables) + 1 /\ \A v \in 1..Len(tables) : tables'[v] = tables[v]
    BY <1>1, <2>1, AppendProperties
  <2>4. QED  BY <2>1, <2>2, <2>3
<1>3. CachedExact'
  BY <1>1, <1>2, ExactStays DEF ExactInv
<1>4. Data' = Data /\ Cursor' = Cursor /\ \A t : Given(t)' = Given(t)
  <2>1. Data' = Data /\ Cursor' = Cursor
    BY <1>1 DEF Data, Cursor
  <2>2. QED  BY <1>1, <2>1 DEF Given
<1>5. PendingExact'
  <2>1. \A e : RequestOK(e) /\ RequestExact(e) => RequestExact(e)'
    BY <1>1, <1>2, ExactStays
  <2> SUFFICES ASSUME NEW d \in Client PROVE RequestExact(pending[d])'
    BY DEF PendingExact
  <2>2. PICK e : pending[d] = e
    OBVIOUS
  <2>3. RequestOK(e) /\ RequestExact(e)
    BY <2>2 DEF ListingInv, PendingOK, ExactInv, PendingExact
  <2>4. RequestExact(e)' /\ pending'[d] = e
    BY <1>1, <2>1, <2>2, <2>3
  <2>5. QED  BY <2>4 DEF RequestExact
<1>6. WalkerAsks'
  BY <1>1, <1>4 DEF ExactInv, WalkerAsks
<1>7. ASSUME NEW t \in Range(tables)', Undisturbed(t)' PROVE Given(t)'
  <2>1. PICK v \in 1..Len(tables') : t = tables'[v] /\ \A i \in DOMAIN walk : walk[i].asOf = v
    BY <1>1, <1>2, <1>7 DEF Undisturbed
  <2>2. CASE v \in 1..Len(tables)
    <3>1. t \in Range(tables) /\ Undisturbed(t)
      BY <1>2, <2>1, <2>2 DEF Undisturbed, Range
    <3>2. QED  BY <1>4, <3>1 DEF ExactInv, WalksExact
  <2>3. CASE v \notin 1..Len(tables)
    <3>1. walk = <<>>
      <4>1. walk \in Seq(Page) /\ Len(walk) \in Nat /\ DOMAIN walk = 1..Len(walk)
        BY PagesIs DEF ListingInv
      <4>2. \A i \in DOMAIN walk : walk[i].asOf \in 0..Len(tables)
        <5>1. \A q \in Page : q.asOf \in 0..Len(tables)
          BY DEF Page
        <5>2. QED  BY <4>1, <5>1
      <4>3. \A i \in DOMAIN walk : FALSE
        BY <1>2, <2>1, <2>3, <4>2
      <4>4. Len(walk) = 0
        <5>1. Len(walk) # 0 => 1 \in 1..Len(walk)
          BY <4>1
        <5>2. QED  BY <4>1, <4>3, <5>1
      <4>5. QED  BY <4>1, <4>4
    <3>2. t \in Tables /\ ~over
      BY <1>2, <2>1, <3>1 DEF ExactInv, WalkerAsks
    <3>3. QED  BY <1>4, <3>1, <3>2, GivenNone
  <2>4. QED  BY <2>2, <2>3
<1>8. WalksExact'
  BY <1>7 DEF WalksExact
<1>9. QED  BY <1>3, <1>5, <1>6, <1>8 DEF ExactInv

LEMMA ExpiryExact ==
  ASSUME ListingInv, ExactInv, UNCHANGED <<ranked, tables, pending, walk, over>>,
         \A o \in Offset : cached'[o] = cached[o] \/ cached'[o] = <<>>
  PROVE  ExactInv'
<1>1. /\ \A p, o : PageOK(p) /\ PageExact(p, o) => PageExact(p, o)'
      /\ \A e : RequestOK(e) /\ RequestExact(e) => RequestExact(e)'
  BY ExactStays
<1>2. ASSUME NEW o \in Offset, cached'[o] # <<>> PROVE PageExact(cached[o][1], o)'
  <2>1. PICK q : cached[o][1] = q
    OBVIOUS
  <2>2. PageOK(q) /\ PageExact(q, o) /\ cached'[o][1] = q
    BY <1>2, <2>1 DEF ListingInv, CachedOK, ExactInv, CachedExact
  <2>3. PageExact(q, o)'
    BY <1>1, <2>2
  <2>4. QED  BY <2>2, <2>3 DEF PageExact
<1>3. ASSUME NEW d \in Client PROVE RequestExact(pending[d])'
  <2>1. PICK e : pending[d] = e
    OBVIOUS
  <2>2. RequestOK(e) /\ RequestExact(e)
    BY <2>1 DEF ListingInv, PendingOK, ExactInv, PendingExact
  <2>3. RequestExact(e)' /\ pending'[d] = e
    BY <1>1, <2>1, <2>2
  <2>4. QED  BY <2>3 DEF RequestExact
<1>4. WalksExact' /\ Cursor' = Cursor
  BY WalkStays DEF ExactInv
<1>5. CachedExact' /\ PendingExact'
  BY <1>2, <1>3 DEF CachedExact, PendingExact
<1>6. WalkerAsks'
  BY <1>4 DEF ExactInv, WalkerAsks
<1>7. QED  BY <1>4, <1>5, <1>6 DEF ExactInv

LEMMA ExactStarts == ListingInit => ExactInv
<1> SUFFICES ASSUME ListingInit PROVE ExactInv
  OBVIOUS
<1>1. ListingInv
  BY ListingStarts
<1>2. CachedExact
  BY DEF ListingInit, CachedExact
<1>3. PendingExact /\ WalkerAsks
  BY DEF ListingInit, PendingExact, RequestExact, NoRequest, WalkerAsks, Client
<1>4. \A t \in Range(tables) : t \in Tables
  BY <1>1, TablesIn DEF ListingInv
<1>5. walk = <<>> /\ ~over
  BY DEF ListingInit
<1>6. WalksExact
  BY <1>1, <1>4, <1>5, GivenNone DEF WalksExact
<1>7. QED  BY <1>2, <1>3, <1>6 DEF ExactInv

LEMMA ExactSteps == ListingInv /\ ListingInv' /\ ExactInv /\ [ListingNext]_listingVars => ExactInv'
<1> SUFFICES ASSUME ListingInv, ListingInv', ExactInv, [ListingNext]_listingVars PROVE ExactInv'
  OBVIOUS
<1>1. CASE Walk
  <2>1. Cursor \in Offset /\ GetMarkets("walker", Cursor) /\ "walker" \in Client
    BY <1>1 DEF Walk, Client
  <2>2. QED  BY <2>1, GetMarketsExact
<1>2. CASE Visit
  <2>1. PICK o \in Offset : GetMarkets("visitor", o)
    BY <1>2 DEF Visit
  <2>2. "visitor" \in Client /\ "visitor" # "walker"
    BY DEF Client
  <2>3. QED  BY <2>1, <2>2, GetMarketsExact
<1>3. CASE \E c \in Client : QueryFiltered(c) \/ QueryRanked(c) \/ QueryRecent(c) \/ Store(c)
  BY <1>3, QueriesExact, StoreExact
<1>4. CASE TradeStored \/ WeekPasses \/ MarketStored
  BY <1>4, ChangeExact DEF TradeStored, WeekPasses, MarketStored
<1>5. CASE PageExpires
  <2>1. PICK o \in Offset : cached' = [cached EXCEPT ![o] = <<>>]
    BY <1>5 DEF PageExpires
  <2>2. \A w \in Offset : cached'[w] = cached[w] \/ cached'[w] = <<>>
    BY <2>1 DEF ListingInv, CachedOK
  <2>3. UNCHANGED <<ranked, tables, pending, walk, over>>
    BY <1>5 DEF PageExpires
  <2>4. QED  BY <2>2, <2>3, ExpiryExact
<1>6. CASE UNCHANGED listingVars
  BY <1>6, ExpiryExact DEF listingVars
<1>7. QED  BY <1>1, <1>2, <1>3, <1>4, <1>5, <1>6 DEF ListingNext

LEMMA ExactAlways == ListingSpec => [](ListingInv /\ ExactInv)
BY ListingStarts, ListingSteps, ExactStarts, ExactSteps, PTL DEF ListingSpec

\* A walk with a category, tag or series whose pages all come from the same
\* tables gives the markets these admit in their order, none skipped at a seam
\* between pages and none repeated, and ends when all have been given
\* (rest.go:235-241, 274-278, 506).
THEOREM FilteredWalks == ListingSpec => []FilteredWalkIsExact
<1>1. ListingInv /\ ExactInv => FilteredWalkIsExact
  <2> SUFFICES ASSUME ListingInv, ExactInv, ~ranked, NEW t \in Range(tables), Undisturbed(t)
               PROVE  /\ IsPrefix(Data, Matching(t.created))
                      /\ over => Data = Matching(t.created)
    BY DEF FilteredWalkIsExact
  <2>1. Given(t) /\ t \in Tables /\ Cursor \in Nat
    BY DataIs, TablesIn DEF ExactInv, WalksExact, ListingInv
  <2> DEFINE M == Matching(t.created)
  <2>2. M \in Seq(Market)
    BY <2>1, MatchingIs DEF Tables
  <2>3. Data = Take(M, Cursor) /\ (over => Len(M) <= Cursor)
    BY <2>1 DEF Given
  <2> HIDE DEF M
  <2>4. IsPrefix(Data, M)
    BY <2>1, <2>2, <2>3, TakePrefix
  <2>5. over => Data = M
    BY <2>1, <2>2, <2>3, TakeAll
  <2>6. QED  BY <2>4, <2>5 DEF M
<1>2. QED  BY <1>1, ExactAlways, PTL

=============================================================================
