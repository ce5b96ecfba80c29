----------------------------- MODULE EventStore -----------------------------
(***************************************************************************)
(* The NostrDB store of one owner (services/idb/nostrdb/index.js and       *)
(* quotas.js): events, the ledger of deletion requests, the quota          *)
(* counters, and the maintenance that reads in one transaction and writes  *)
(* in another while applications add, remove and claim events.             *)
(*                                                                         *)
(* A transaction is one step: its body transforms a record of the stores.  *)
(* Signatures, tag indexes, private deletion envelopes and rival versions  *)
(* of personal copies are left out; an event counts one byte.              *)
(***************************************************************************)
EXTENDS Integers, Sequences, FiniteSets, FiniteSetsExt, Folds

CONSTANTS
  Worlds,        \* what may happen: [events, legacy, apps, days, jobs], the events
                 \* that may arrive, those of them in a store that an older version
                 \* wrote, the applications, and the bounds of the clock and of the
                 \* maintenance under way at once
  MergedIds,     \* ids of the requests that compaction signs
  Owner,
  NoCoord, NoApp, Never, Idle,
  MaxRequests, MaxRefs,        \* limits of pruning and compaction
  CacheLimit, PublicLimit,     \* quotas
  Grace,         \* the age at which unclaimed data, hearsay and requests may go
  TouchGap,      \* the least time between two accesses that are recorded
  AppBatch,      \* rows of one page or batch of an app's rows
  Interval,      \* the time between two sweeps for unclaimed data
  MaxQueued      \* bound: claims and accesses in memory

\* Events: [id, author, kind, coord, at, tags, expires].  Tags and coordinates
\* are <<"e", id>>, <<"a", author, name>> and <<"h", id>>, the identity by which
\* personal copies cite a hearsay copy.
Kinds == {"note", "app", "delete", "copy", "hearsay"}
Jobs == {"compact", "prune", "expire", "hearsay", "uninstall", "evict", "claims"}

ASSUME StoreConstants ==
  /\ IsFiniteSet(MergedIds) /\ MergedIds \subseteq Nat \ {0}
  /\ \A w \in Worlds :
       /\ w.days \in Nat /\ w.jobs \in Nat /\ IsFiniteSet(w.events) /\ w.legacy \subseteq w.events
       /\ \A e, f \in w.events : e.id = f.id => e = f
       /\ \A e \in w.events :
            /\ e.id \in Nat \ ({0} \cup MergedIds) /\ e.kind \in Kinds /\ e.at \in Nat
            /\ e.coord # NoCoord => e.coord[1] = "a" /\ e.coord[2] = e.author
            /\ e.kind = "delete" => e.coord = NoCoord
            /\ e.kind \in {"copy", "hearsay"} => e.author = Owner
       /\ \A e, f \in w.legacy : e.kind # "delete" /\ (e.coord = f.coord => e = f \/ e.coord = NoCoord)
  /\ MaxRequests \in Nat /\ MaxRefs \in Nat /\ CacheLimit \in Nat /\ PublicLimit \in Nat
  /\ Grace \in Nat /\ TouchGap \in Nat /\ AppBatch \in Nat \ {0} /\ Interval \in Nat
  /\ MaxQueued \in Nat /\ Never \notin Nat

VARIABLES
  world,    \* what happens outside: the events and applications there are
  rows,     \* events store: [ids -> [ev, apps, ra]]
  ledger,   \* deletions store: [targets -> set of <<id of a request, its created_at>>]
  cache,    \* cacheAccess store: [ids -> time of the last access]
  usage,    \* quota store: [public, private, cache, phase, after]
  sweep,    \* maintenance store: the unclaimed-data checkpoint [after, completed]
  signed,   \* ids that compaction has used
  blocked,  \* the published quota state: categories that may not grow
  now,      \* the clock
  claims,   \* app claims queued in memory
  touches,  \* accesses queued in memory
  jobs      \* what each maintenance routine holds between two transactions

stores == <<rows, ledger, cache, usage>>
memory == <<claims, touches, jobs>>
vars == <<world, stores, sweep, signed, blocked, now, memory>>

Catalog == world.events
Apps == world.apps
Ids == {e.id : e \in Catalog} \cup MergedIds

-----------------------------------------------------------------------------
\* Inside a transaction: tx is a record of the stores, and of the references
\* that it adds or removes.
Begin == [rows |-> rows, ledger |-> ledger, cache |-> cache, usage |-> usage, refs |-> {}]
Restricted(f, S) == [x \in DOMAIN f \cap S |-> f[x]]

Foreign(e) == e.author # Owner
Trackable(e) == e.kind = "app"
OwnerRefs(e) == IF Foreign(e) THEN {} ELSE e.tags
Category(e) == IF e.kind \in {"copy", "hearsay"} THEN "private" ELSE "public"
Refs(e) == {<<"e", e.id>>} \cup ({e.coord} \ {NoCoord})

\* Rows that have not been prepared yet have no references in the index.
Indexed(tx, i) == tx.usage.phase # "records" \/ i <= tx.usage.after

Referenced(tx, e) ==
  Foreign(e) /\ \E i \in DOMAIN tx.rows : Indexed(tx, i) /\ OwnerRefs(tx.rows[i].ev) \cap Refs(e) # {}

\* The foreign events that the owner refers to count as public, the others as cache.
Classify(tx, ids) ==
  LET foreign == {i \in ids \cap DOMAIN tx.rows : Foreign(tx.rows[i].ev)}
      toCache == {i \in foreign \ DOMAIN tx.cache : ~Referenced(tx, tx.rows[i].ev)}
      toPublic == {i \in foreign \cap DOMAIN tx.cache : Referenced(tx, tx.rows[i].ev)}
      moved == Cardinality(toCache) - Cardinality(toPublic)
  IN  [tx EXCEPT !.usage.public = @ - moved, !.usage.cache = @ + moved,
                 !.cache = [i \in (DOMAIN @ \cup toCache) \ toPublic |-> IF i \in DOMAIN @ THEN @[i] ELSE now]]

Count(tx, ids, category) == Cardinality({i \in ids \cap DOMAIN tx.rows : Category(tx.rows[i].ev) = category})

\* Mutant: a deleted request goes on blocking.
WithoutNone(entries, requests) == entries

Without(entries, requests) ==
  LET left == [t \in DOMAIN entries |-> {c \in entries[t] : c[1] \notin requests}]
  IN  Restricted(left, {t \in DOMAIN left : left[t] # {}})

Deleted(tx, ids) ==
  LET gone == ids \cap DOMAIN tx.rows
      requests == {i \in gone : tx.rows[i].ev.kind = "delete"}
      cached == gone \cap DOMAIN tx.cache
  IN  [tx EXCEPT !.rows = Restricted(@, DOMAIN @ \ gone),
                 !.cache = Restricted(@, DOMAIN @ \ gone),
                 !.usage.public = @ - Count(tx, gone \ cached, "public"),
                 !.usage.private = @ - Count(tx, gone \ cached, "private"),
                 !.usage.cache = @ - Cardinality(cached),
                 !.refs = @ \cup UNION {OwnerRefs(tx.rows[i].ev) : i \in gone},
                 !.ledger = Without(@, requests)]

Put(tx, row) ==
  LET e == row.ev
      put == [tx EXCEPT !.rows = [i \in DOMAIN @ \cup {e.id} |-> IF i = e.id THEN row ELSE @[i]],
                        !.usage[Category(e)] = @ + 1,
                        !.refs = @ \cup OwnerRefs(e)]
  IN  Classify(put, {e.id})

\* Mutant: references are only looked at when their target is written.
ReconciledNever(tx) == tx

\* Events whose references the transaction changed are classified again.
Reconciled(tx) == Classify(tx, {i \in DOMAIN tx.rows : Refs(tx.rows[i].ev) \cap tx.refs # {}})

Save(tx) ==
  /\ rows' = tx.rows /\ ledger' = tx.ledger /\ cache' = tx.cache /\ usage' = tx.usage

\* Mutations wait for the counters.
Mutate(tx) == usage.phase = "ready" /\ Save(Reconciled(tx))

\* A category that is full may not grow; what references move between the
\* categories is no growth.
Admitted(tx) == \A c \in blocked : tx.usage[c] <= usage[c]

Init ==
  /\ world \in Worlds
  /\ rows = [i \in {e.id : e \in world.legacy} |->
               [ev |-> CHOOSE e \in world.legacy : e.id = i, apps |-> {}, ra |-> 0]]
  /\ ledger = [t \in {} |-> {}] /\ cache = [i \in {} |-> 0]
  /\ usage = [public |-> 0, private |-> 0, cache |-> 0, phase |-> "records", after |-> 0]
  /\ sweep = [after |-> 0, completed |-> Never] /\ signed = {} /\ blocked = {} /\ now = 0
  /\ claims = {} /\ touches = {} /\ jobs = [j \in Jobs |-> Idle]

Busy == {j \in Jobs : jobs[j] # Idle}
Starts(j, data) == Cardinality(Busy) < world.jobs /\ jobs[j] = Idle /\ jobs' = [jobs EXCEPT ![j] = data]
Ends(j) == jobs' = [jobs EXCEPT ![j] = Idle]
Lowest(n, ids) == {i \in ids : Cardinality({j \in ids : j < i}) < n}

-----------------------------------------------------------------------------
\* initializeUsage: the references of an older store are indexed, then its
\* events are counted, one page after the other.
NextRow == {i \in DOMAIN rows : i > usage.after}
Counted(i) ==
  LET tx == Begin
  IN  Classify([tx EXCEPT !.usage[Category(rows[i].ev)] = @ + 1, !.usage.after = i], {i})

PreparePage ==
  /\ usage.phase # "ready"
  /\ IF NextRow = {}
       THEN Save([Begin EXCEPT !.usage.phase = IF @ = "records" THEN "classify" ELSE "ready", !.usage.after = 0])
       ELSE \E i \in Lowest(1, NextRow) :
              Save(IF usage.phase = "records" THEN [Begin EXCEPT !.usage.after = i] ELSE Counted(i))
  /\ UNCHANGED <<world, sweep, signed, blocked, now, memory>>

-----------------------------------------------------------------------------
\* add and addEvent.
Live(e) == e.expires # Never => e.expires > now

IsNewer(e, f) == e.at > f.at \/ (e.at = f.at /\ e.id < f.id)

\* Hearsay never displaces a copy of the owner's, whatever its time.
WinsAddress(e, f) ==
  IF e.kind # f.kind /\ {e.kind, f.kind} = {"copy", "hearsay"} THEN e.kind = "copy" ELSE IsNewer(e, f)

Cutoff(entries, t) == Max({c[2] : c \in entries[t]})

Blocked(entries, e) ==
  \/ <<"e", e.id, e.author>> \in DOMAIN entries
  \/ e.coord # NoCoord /\ e.coord \in DOMAIN entries /\ e.at <= Cutoff(entries, e.coord)

\* The targets of a deletion request: addresses of its author, and events; an
\* event that is stored under an address stands for the address.
EventTarget(tx, request, i) ==
  IF i \in DOMAIN tx.rows /\ tx.rows[i].ev.author = request.author /\ tx.rows[i].ev.coord # NoCoord
    THEN tx.rows[i].ev.coord
    ELSE <<"e", i, request.author>>

Targets(tx, request) ==
  {t \in request.tags : t[1] = "a" /\ t[2] = request.author}
  \cup {EventTarget(tx, request, t[2]) : t \in {u \in request.tags : u[1] = "e" /\ u[2] # request.id}}

\* Mutant: a version of the request's own second survives it.
MatchesEarlier(e, request, t) ==
  /\ e.author = request.author
  /\ \/ t = <<"e", e.id, e.author>>
     \/ e.coord # NoCoord /\ t = e.coord /\ e.at < request.at

Matches(e, request, t) ==
  /\ e.author = request.author
  /\ \/ t = <<"e", e.id, e.author>>
     \/ e.coord # NoCoord /\ t = e.coord /\ e.at <= request.at

Contributed(entries, request, targets) ==
  [t \in DOMAIN entries \cup targets |->
     (IF t \in DOMAIN entries THEN entries[t] ELSE {})
     \cup (IF t \in targets THEN {<<request.id, request.at>>} ELSE {})]

Applied(tx, request) ==
  LET targets == Targets(tx, request)
      victims == {i \in DOMAIN tx.rows : \E t \in targets : Matches(tx.rows[i].ev, request, t)}
      left == Deleted(tx, victims)
  IN  IF request.kind = "delete" THEN [left EXCEPT !.ledger = Contributed(@, request, targets)] ELSE tx

AppsOf(e, apps) == IF Trackable(e) THEN apps \ {NoApp} ELSE {}

Claimed(tx, ids, app) ==
  [tx EXCEPT !.rows = [i \in DOMAIN @ |->
     IF i \in ids THEN [@[i] EXCEPT !.apps = @ \cup AppsOf(tx.rows[i].ev, {app})] ELSE @[i]]]

Rivals(tx, e) == {i \in DOMAIN tx.rows : e.coord # NoCoord /\ tx.rows[i].ev.coord = e.coord}

\* force: the event merges what is stored at its address with what another
\* device had, and takes its place whatever its time.
Added(tx, e, app, force, consumed) ==
  LET rivals == Rivals(tx, e)
      loses == ~force /\ \E i \in rivals : ~WinsAddress(e, tx.rows[i].ev)
      apps == {app} \cup UNION {tx.rows[i].apps : i \in rivals}
      applied == Deleted(Applied(Deleted(tx, rivals), e), consumed)
  IN  IF e.id \in DOMAIN tx.rows THEN Claimed(tx, {e.id}, app)
      ELSE IF Blocked(tx.ledger, e) THEN tx
      ELSE IF loses THEN Claimed(tx, rivals, app)
      ELSE Put(applied, [ev |-> e, apps |-> AppsOf(e, apps), ra |-> now])

AddEvent(e, app, force, consumed) ==
  LET tx == Added(Begin, e, app, force, consumed)
  IN  Admitted(tx) /\ Mutate(tx)

Add(e, app, force) ==
  /\ Live(e) /\ (force => e.author = Owner /\ e.coord # NoCoord)
  /\ AddEvent(e, app, force, {})
  /\ UNCHANGED <<world, sweep, signed, blocked, now, memory>>

\* remove: all targets in one transaction.
RemoveTargets(targets) ==
  /\ Mutate(Deleted(Begin, {i \in DOMAIN rows : Refs(rows[i].ev) \cap targets # {}}))
  /\ UNCHANGED <<world, sweep, signed, blocked, now, memory>>

-----------------------------------------------------------------------------
\* compactPublicDeletionRequests: what is selected is read, then the owner
\* signs, and then the new request takes the place of those it consumes.
RequestsOfOwner == {i \in DOMAIN rows : rows[i].ev.kind = "delete" /\ rows[i].ev.author = Owner}
RowsOf(r) == {t \in DOMAIN ledger : \E c \in ledger[t] : c[1] = r}
AddressRows(r) == {t \in RowsOf(r) : t[1] = "a"}

Info(r) == [event |-> rows[r].ev, targets |-> RowsOf(r)]
HasAddress(info) == \E t \in info.targets : t[1] = "a"

AddInfo(picked, info) ==
  IF Cardinality(picked.targets \cup info.targets) > MaxRefs THEN picked
  ELSE [picked EXCEPT !.selected = @ \cup {info}, !.targets = @ \cup info.targets]

Older(e, f) == e.at < f.at \/ (e.at = f.at /\ e.id < f.id)
Latest(infos) == CHOOSE x \in infos : \A y \in infos \ {x} : Older(y.event, x.event)

\* The requests are looked at one after the other, the oldest first.
AddInfos(picked, infos) ==
  MapThenFoldSet(LAMBDA x, p : AddInfo(p, x), picked, LAMBDA x : x, Latest, infos)
Nothing(at) == [selected |-> {}, targets |-> {}, at |-> at]

Better(p, q) ==
  LET a == <<Cardinality(p.selected), Cardinality(p.targets)>>
      b == <<Cardinality(q.selected), Cardinality(q.targets)>>
  IN  \/ a[1] > b[1]
      \/ a[1] = b[1] /\ a[2] > b[2]
      \/ a = b /\ p.at <= q.at

\* Requests with addresses are only joined at the same time, which is their cutoff.
SelectDeletionCompaction(infos) ==
  LET addressed == {x \in infos : HasAddress(x)}
      times == {x.event.at : x \in addressed}
      groups == {AddInfos(Nothing(at), {x \in addressed : x.event.at = at}) : at \in times}
      worth == {p \in groups : Cardinality(p.selected) >= 2}
      best == IF worth = {} THEN {Nothing(Never)} ELSE {p \in worth : \A q \in worth : Better(p, q)}
  IN  {AddInfos(p, infos \ addressed) : p \in best}

Compactable == {r \in RequestsOfOwner : Live(rows[r].ev) /\ RowsOf(r) # {}}
LatestTime(p) == Max({now} \cup {x.event.at : x \in p.selected})
\* Mutant: the new request is always as late as the time of its signature.
SignableLatest(p) == [p EXCEPT !.at = LatestTime(p)]

Signable(p) == [p EXCEPT !.at = IF @ # Never THEN @ ELSE LatestTime(p)]

CompactSelect ==
  \E p \in SelectDeletionCompaction({Info(r) : r \in Compactable}) :
    /\ Cardinality(p.selected) >= 2 /\ signed # MergedIds
    /\ Starts("compact", Signable(p))
    /\ UNCHANGED <<world, stores, sweep, signed, blocked, now, claims, touches>>

\* The tags of the signed request are those of the rows.
TagOf(t) == IF t[1] = "e" THEN <<"e", t[2]>> ELSE t
Merged(i, p) ==
  [id |-> i, author |-> Owner, kind |-> "delete", coord |-> NoCoord, at |-> p.at,
   tags |-> {TagOf(t) : t \in p.targets}, expires |-> Never]
Consumed(p) == {x.event.id : x \in p.selected}

CompactSave ==
  LET p == jobs.compact
  IN  /\ p # Idle
      /\ \E i \in Lowest(1, MergedIds \ signed) :
           AddEvent(Merged(i, p), NoApp, FALSE, Consumed(p)) /\ signed' = signed \cup {i}
      /\ Ends("compact")
      /\ UNCHANGED <<world, sweep, blocked, now, claims, touches>>

\* A job that fails, or is refused, leaves the stores as they are.
Fail(j) ==
  /\ jobs[j] # Idle /\ Ends(j)
  /\ UNCHANGED <<world, stores, sweep, signed, blocked, now, claims, touches>>

-----------------------------------------------------------------------------
\* pruneDeletionRequests: beyond the limit, the old requests with the fewest
\* targets go first.
Score(r) == 4 * Cardinality(AddressRows(r)) + Cardinality(RowsOf(r) \ AddressRows(r))
PruneKey(r) == <<Score(r), rows[r].ev.at, rows[r].ra, r>>
Before(a, b) == \E n \in DOMAIN a : a[n] < b[n] /\ \A k \in 1..n - 1 : a[k] = b[k]
First(n, key) == {x \in DOMAIN key : Cardinality({y \in DOMAIN key : Before(key[y], key[x])}) < n}

PruneSelect ==
  LET excess == Cardinality(RequestsOfOwner) - MaxRequests
      old == {r \in RequestsOfOwner : rows[r].ra + Grace <= now}
  IN  /\ excess > 0 /\ old # {}
      /\ Starts("prune", First(excess, [r \in old |-> PruneKey(r)]))
      /\ UNCHANGED <<world, stores, sweep, signed, blocked, now, claims, touches>>

PruneDelete ==
  /\ jobs.prune # Idle
  /\ Mutate(Deleted(Begin, jobs.prune)) /\ Ends("prune")
  /\ UNCHANGED <<world, sweep, signed, blocked, now, claims, touches>>

\* purgeExpired.
ExpireSelect ==
  LET expired == {i \in DOMAIN rows : ~Live(rows[i].ev)}
  IN  /\ expired # {} /\ Starts("expire", expired)
      /\ UNCHANGED <<world, stores, sweep, signed, blocked, now, claims, touches>>

ExpireDelete ==
  /\ jobs.expire # Idle
  /\ Mutate(Deleted(Begin, {i \in jobs.expire \cap DOMAIN rows : ~Live(rows[i].ev)})) /\ Ends("expire")
  /\ UNCHANGED <<world, sweep, signed, blocked, now, claims, touches>>

\* pruneUnreferencedHearsays: a scan, and for each candidate a search for
\* references and a deletion of its own.
Cited(i) == \E j \in DOMAIN rows \ {i} : <<"h", i>> \in OwnerRefs(rows[j].ev)

HearsayScan ==
  LET old == {i \in DOMAIN rows : rows[i].ev.kind = "hearsay" /\ rows[i].ra + Grace <= now}
  IN  /\ old # {} /\ Starts("hearsay", [left |-> old, free |-> {}])
      /\ UNCHANGED <<world, stores, sweep, signed, blocked, now, claims, touches>>

HearsayCheck ==
  LET job == jobs.hearsay
  IN  /\ job # Idle /\ job.free = {}
      /\ IF job.left = {} THEN Ends("hearsay")
         ELSE \E i \in job.left :
                jobs' = [jobs EXCEPT !.hearsay = [left |-> @.left \ {i}, free |-> {i} \ {c \in {i} : Cited(c)}]]
      /\ UNCHANGED <<world, stores, sweep, signed, blocked, now, claims, touches>>

HearsayDelete ==
  LET job == jobs.hearsay
  IN  /\ job # Idle /\ job.free # {}
      /\ Mutate(Deleted(Begin, job.free)) /\ jobs' = [jobs EXCEPT !.hearsay.free = {}]
      /\ UNCHANGED <<world, sweep, signed, blocked, now, claims, touches>>

-----------------------------------------------------------------------------
\* purgeUnclaimedAppDataPage: one page and its checkpoint in one transaction.
Unclaimed(i) == Trackable(rows[i].ev) /\ rows[i].apps = {} /\ rows[i].ra + Grace <= now
SweepDue == sweep.after = 0 /\ sweep.completed # Never => sweep.completed + Interval <= now

PurgeUnclaimedPage ==
  LET behind == {i \in DOMAIN rows : i > sweep.after}
      page == Lowest(AppBatch, behind)
      more == Cardinality(page) = AppBatch
  IN  /\ SweepDue
      /\ Mutate(Deleted(Begin, {i \in page : Unclaimed(i) /\ ~Referenced(Begin, rows[i].ev)}))
      /\ sweep' = IF more THEN [sweep EXCEPT !.after = Max(page)] ELSE [after |-> 0, completed |-> now]
      /\ UNCHANGED <<world, signed, blocked, now, memory>>

\* deleteEventsByApp: batch after batch until the index holds none.
Uninstall(app) ==
  /\ Starts("uninstall", [app |-> app, ids |-> {}, collected |-> FALSE])
  /\ UNCHANGED <<world, stores, sweep, signed, blocked, now, claims, touches>>

CollectAppRows ==
  LET job == jobs.uninstall
      owned == {i \in DOMAIN rows : job.app \in rows[i].apps}
  IN  /\ job # Idle /\ ~job.collected
      /\ IF owned = {} THEN Ends("uninstall")
         ELSE jobs' = [jobs EXCEPT !.uninstall.ids = Lowest(AppBatch, owned), !.uninstall.collected = TRUE]
      /\ UNCHANGED <<world, stores, sweep, signed, blocked, now, claims, touches>>

\* Mutant: an uninstallation only looks at the applications.
UnownedAlone(i, app) == rows[i].apps \subseteq {app}

Unowned(i, app) == rows[i].apps \subseteq {app} /\ ~Referenced(Begin, rows[i].ev)

Disowned(tx, ids, app) ==
  [tx EXCEPT !.rows = [i \in DOMAIN @ |-> IF i \in ids THEN [@[i] EXCEPT !.apps = @ \ {app}] ELSE @[i]]]

DeleteAppRows ==
  LET job == jobs.uninstall
      ids == job.ids \cap DOMAIN rows
  IN  /\ job # Idle /\ job.collected
      /\ Mutate(Deleted(Disowned(Begin, ids, job.app), {i \in ids : Unowned(i, job.app)}))
      /\ jobs' = [jobs EXCEPT !.uninstall.ids = {}, !.uninstall.collected = FALSE]
      /\ UNCHANGED <<world, sweep, signed, blocked, now, claims, touches>>

\* An application that reads an event claims it; the claims are written later.
QueueAppClaim(i, app) ==
  /\ i \in DOMAIN rows /\ Trackable(rows[i].ev) /\ app \notin rows[i].apps
  /\ Cardinality(claims) + Cardinality(touches) < MaxQueued
  /\ claims' = claims \cup {<<i, app>>}
  /\ UNCHANGED <<world, stores, sweep, signed, blocked, now, touches, jobs>>

FlushAppClaims ==
  /\ claims # {} /\ Starts("claims", claims) /\ claims' = {}
  /\ UNCHANGED <<world, stores, sweep, signed, blocked, now, touches>>

WriteAppClaims ==
  /\ jobs.claims # Idle
  /\ rows' = [i \in DOMAIN rows |->
                [rows[i] EXCEPT !.apps = @ \cup {app \in Apps : <<i, app>> \in jobs.claims}]]
  /\ Ends("claims")
  /\ UNCHANGED <<world, ledger, cache, usage, sweep, signed, blocked, now, claims, touches>>

-----------------------------------------------------------------------------
\* quotas.js: the least recently used cache is evicted in batches.  A
\* candidate is what a read saw, and its deletion looks again.
Target == (9 * CacheLimit) \div 10
OverLimits == {c \in {"public", "cache"} :
                 LET limit == IF c = "public" THEN PublicLimit ELSE CacheLimit
                 IN  limit = 0 \/ usage[c] > limit}

Heads(after, again) ==
  {a \in {<<cache[i], i>> : i \in DOMAIN cache} : Before(after, a)} \cup again

\* Heads are taken in order until the rest would fit.
Selected(heads) == First(usage.cache - Target, [h \in heads |-> h])
Reached(after, batch) == CHOOSE a \in batch \cup {after} : \A b \in batch \cup {after} : ~Before(a, b)

Candidates(after, again) ==
  LET batch == Selected(Heads(after, again))
  IN  [batch |-> batch, after |-> Reached(after, batch), again |-> {}]

\* The totals are read and published under the quota lock.
Review ==
  /\ usage.phase = "ready" /\ Cardinality(Busy) < world.jobs /\ jobs.evict = Idle
  /\ IF usage.cache > CacheLimit
       THEN jobs' = [jobs EXCEPT !.evict = Candidates(<<-1, 0>>, {})] /\ UNCHANGED blocked
       ELSE blocked' = OverLimits /\ UNCHANGED jobs
  /\ UNCHANGED <<world, stores, sweep, signed, now, claims, touches>>

Evictable(a) == a[2] \in DOMAIN cache /\ cache[a[2]] = a[1] /\ ~Referenced(Begin, rows[a[2]].ev)
Refreshed(batch) ==
  {<<cache[i], i>> : i \in {j \in {a[2] : a \in batch} \cap DOMAIN cache :
                              ~Referenced(Begin, rows[j].ev) /\ <<cache[j], j>> \notin batch}}

EvictBatch ==
  LET job == jobs.evict
      tx == Deleted(Begin, {a[2] : a \in {b \in job.batch : Evictable(b)}})
  IN  /\ job # Idle /\ job.batch # {}
      /\ Mutate(tx)
      /\ jobs' = [jobs EXCEPT !.evict = [batch |-> {}, after |-> job.after, again |-> Refreshed(job.batch)]]
      /\ UNCHANGED <<world, sweep, signed, blocked, now, claims, touches>>

EvictMore ==
  LET job == jobs.evict
      next == Candidates(job.after, job.again)
  IN  /\ job # Idle /\ job.batch = {}
      /\ IF usage.cache > Target /\ next.batch # {}
           THEN jobs' = [jobs EXCEPT !.evict = next] /\ UNCHANGED blocked
           ELSE Ends("evict") /\ blocked' = OverLimits
      /\ UNCHANGED <<world, stores, sweep, signed, now, claims, touches>>

\* queueCacheAccess and flushCacheAccess: recent accesses are not recorded again.
Touch(i) ==
  /\ i \in DOMAIN rows /\ Foreign(rows[i].ev)
  /\ Cardinality(claims) + Cardinality(touches) < MaxQueued
  /\ touches' = {t \in touches : t[1] # i} \cup {<<i, now>>}
  /\ UNCHANGED <<world, stores, sweep, signed, blocked, now, claims, jobs>>

FlushTouches ==
  /\ touches # {} /\ touches' = {}
  /\ cache' = [i \in DOMAIN cache |->
                 IF \E t \in touches : t[1] = i /\ t[2] - cache[i] >= TouchGap
                   THEN (CHOOSE t \in touches : t[1] = i)[2] ELSE cache[i]]
  /\ UNCHANGED <<world, rows, ledger, usage, sweep, signed, blocked, now, claims, jobs>>

-----------------------------------------------------------------------------
Tick == now < world.days /\ now' = now + 1 /\ UNCHANGED <<world, stores, sweep, signed, blocked, memory>>

\* The page is closed and opened: memory is lost.
Reload ==
  /\ memory # <<{}, {}, [j \in Jobs |-> Idle]>>
  /\ claims' = {} /\ touches' = {} /\ jobs' = [j \in Jobs |-> Idle]
  /\ UNCHANGED <<world, stores, sweep, signed, blocked, now>>

Applications ==
  \/ \E e \in Catalog, app \in Apps \cup {NoApp}, force \in BOOLEAN : Add(e, app, force)
  \/ \E e \in Catalog : RemoveTargets({<<"e", e.id>>}) \/ RemoveTargets({e.coord})
  \/ \E i \in Ids, app \in Apps : QueueAppClaim(i, app)
  \/ \E i \in Ids : Touch(i)
  \/ \E app \in Apps : Uninstall(app)

Maintenance ==
  \/ PreparePage \/ CompactSelect \/ CompactSave \/ PruneSelect \/ PruneDelete
  \/ ExpireSelect \/ ExpireDelete \/ HearsayScan \/ HearsayCheck \/ HearsayDelete
  \/ PurgeUnclaimedPage \/ CollectAppRows \/ DeleteAppRows
  \/ FlushAppClaims \/ WriteAppClaims \/ Review \/ EvictBatch \/ EvictMore \/ FlushTouches
  \/ \E j \in Jobs : Fail(j)

Next == Applications \/ Maintenance \/ Tick \/ Reload
Spec == Init /\ [][Next]_vars

-----------------------------------------------------------------------------
\* The ledger is what the stored requests say: each of its contributions is of
\* a stored request that names the target, and each target of a stored request
\* has its contribution (addDeletionContribution, removeDeletionRequestContributions).
Names(request, t) ==
  \E tag \in request.tags :
    \/ t = tag
    \/ tag[1] = "e" /\ (t = <<"e", tag[2], request.author>> \/ \E e \in Catalog : e.id = tag[2] /\ t = e.coord)

LedgerAgrees ==
  /\ \A t \in DOMAIN ledger : \A c \in ledger[t] :
       c[1] \in DOMAIN rows /\ LET r == rows[c[1]].ev IN r.kind = "delete" /\ r.at = c[2] /\ Names(r, t)
  /\ \A i \in DOMAIN rows : rows[i].ev.kind = "delete" =>
       \A tag \in {u \in rows[i].ev.tags : u[1] = "e" /\ u[2] # i} :
         \E t \in RowsOf(i) : t[2] = tag[2] \/ \E e \in Catalog : e.id = tag[2] /\ t = e.coord

\* What a stored request deletes is not in the store, in whatever order events,
\* requests, compaction and maintenance came (isBlockedByDeletion, deleteMatchingTarget).
DeletedStaysOut == \A i \in DOMAIN rows : ~Blocked(ledger, rows[i].ev)

\* Once ready, the counters are those of a recount, and exactly the foreign
\* events that nothing of the owner refers to are cache (setCacheClassification).
UsageIsContent ==
  usage.phase = "ready" =>
    /\ DOMAIN cache = {i \in DOMAIN rows : Foreign(rows[i].ev) /\ ~Referenced(Begin, rows[i].ev)}
    /\ usage.cache = Cardinality(DOMAIN cache)
    /\ usage.private = Count(Begin, DOMAIN rows, "private")
    /\ usage.public = Count(Begin, DOMAIN rows \ DOMAIN cache, "public")

\* A compaction changes no verdict: what the ledger blocked stays blocked, and
\* nothing else becomes so, unless a request it consumes went while the owner
\* signed, or went and came again when its targets were others.
StillSays(info) ==
  LET i == info.event.id IN i \in DOMAIN rows /\ rows[i].ev = info.event /\ RowsOf(i) = info.targets
CompactionKeepsVerdicts ==
  [][CompactSave /\ (\A info \in jobs.compact.selected : StillSays(info)) =>
       \A e \in Catalog : Blocked(ledger', e) <=> Blocked(ledger, e)]_vars

\* Whatever they read before, quota eviction, the unclaimed sweep and an
\* uninstallation never delete an event that the owner refers to (docs/nostrdb.md).
ProtectedKept ==
  [][EvictBatch \/ PurgeUnclaimedPage \/ DeleteAppRows =>
       \A i \in DOMAIN rows : Referenced(Begin, rows[i].ev) => i \in DOMAIN rows']_vars
=============================================================================
