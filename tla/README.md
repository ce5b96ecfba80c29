# A verification development of 44billion

44billion is a browser launcher for Nostr apps. One trusted tab (the *launcher*) runs
untrusted apps in sandboxed frames and does their networking, storage, signing and
installation for them. This directory holds TLA+ models of the launcher's core logic, the
TLC configurations that check them, and TLAPS proofs of what matters most about them.
Paths below are relative to the repository root.

## 1. Inventory

Nearly everything hard lives in `src/services/` and `src/helpers/window-message/`. All of
it is JavaScript: a call runs to its end, and concurrency means that calls, promise
callbacks, timers and messages of several tabs, frames and workers interleave at `await`s
and between tasks. Only IndexedDB and `localStorage` survive a crash or a reload.

| Component | State | Operations and partners | What is hard | Correct when |
|---|---|---|---|---|
| NostrDB access scheduler (`services/idb/nostrdb/access-scheduler.js`) | queues per class and app, cursors, active set, foreground intents, one object per owner in a map | `scheduleNostrDbRead/Write`, `beginNostrDbForegroundIntent`, `cancelNostrDbAccesses`; called by NostrDB, quotas, account coverage and the app bridge | start order, preemption and retry, abort, reset while callbacks of older objects are outstanding | conflicting transactions never overlap, nothing runnable is left asleep, no class or lane starves |
| NostrDB proper (`services/idb/nostrdb/index.js`, `crdt.js`, `quotas.js`, `query-plan.js`, `scheduled.js`, `recovery-cursor.js`) | events, ledger of deletion requests, cache accesses, usage counters, app references | put, delete, reclassify, query, subscribe, expiry, eviction, compaction and pruning of requests | maintenance reads in one transaction and writes in another, counters kept beside the data | usage equals content, a deletion is never undone, what is protected is kept |
| Relay pool (`services/relay-pool/pool.js`, `registry.js`, `auth.js`, `classify.js`, `priority.js`, `virtual-socket.js`) | members, connection buckets, pending members, publication jobs, NEG sessions, token buckets | attach, REQ, CLOSE, EVENT, COUNT, AUTH, NEG-OPEN/MSG/CLOSE, server frames, timers | placement under limits, authentication isolates an app's socket, merged publications settle once, reconnect | frames reach the members that asked, limits hold, identities do not mix |
| Relay bridge (`services/relay-pool/bridge-endpoint.js`, `bridge-receive-queue.js`, `bridge-protocol.js`, `app-shim.js`, `launcher.js`) | per-endpoint queue, credit window, shared tab budget | receive, send, grant, attach, close; between the launcher and app frames or the vault over a MessagePort | credit conservation, eviction, priorities without starvation, close crossing data | the consumer is never sent more than it granted, budgets hold, order per class, nothing after close |
| Connection recovery (`services/relay-pool/connection-recovery.js`) | per-relay back-off state, one shared probe, offline flag | gate, attempt, opened, failed, closed, probe results | one probe shared by many relays, late results of older attempts | retries stop only when healthy, no thundering herd, offline is left again |
| Vault request queue (`services/vault-request-queue.js`) | waiting and running requests, port, deadlines | request, cancel, setPort, close, timers, results | late results of an older port, timeouts racing answers, lane limits | every request settles once, limits hold, chunk and archive work cannot fill the queue |
| Vault accepted-message queue (`helpers/window-message/browser/vault-accepted-message-queue.js`) | durable list in `localStorage`, retry time | enqueue, flush, remove | a flush awaits between read and write, several tabs, restart | an accepted message is delivered at least once or expires; none is lost |
| Vault and signer state (`services/vault-nostrdb.js`, `signer-state.js`, `signer-guard.js`, `signer-connection.js`) | lock state, sessions | unlock, lock, sign | lock during a request | no signature after lock |
| Account events (`services/account-events.js`, `account-event-coverage.js`, `account-event-pages.js`, `account-coverage-checkpoints.js`, `account-event-retry.js`) | coverage intervals, entries per relay and account | reconcile, snapshot, live, backfill, checkpoint, retry | a checkpoint must not run ahead of what was stored; gaps after a disconnect | what coverage claims was stored |
| Chunk cache (`services/idb/browser/queries/chunk-cache.js`, `file-chunk.js`, and the chunk paths of `nostrdb/index.js`) | payloads by hash, copies by owner and chunk, associations, roots, totals | stage, commit, replace, unlink, purge, reconcile | one chunk lives in two databases no transaction covers; bytes are shared by owners | counters agree, shared bytes stay, maintenance repairs what a crash left |
| File downloader (`services/file-downloader/`) | ranges, batches, a limiter per relay, chunks in flight | run, cancel, answers of relays | answers in any order, a total learnt late, a second phase that asks for any author | every chunk once, none given up too early, never stuck |
| App installer and updater (`services/app-updater/index.js`, `app-file-manager`, `app-file-downloader`, `site-manifest.js`) | versions, downloads, manifest | check, download, install, roll back | partial download, two tabs, crash | an app is always a complete version |
| App bridge and permissions (`helpers/window-message/app-bridge.js`, `browser/nostrdb.js`, `event-permissions`, `nip07-permission-context`) | pending requests, permission grants | messages of app frames | an answer for a frame that navigated away; a grant revoked while a request waits | an app gets only its own answers |
| Sticky sessions, widgets, personas, subdomain mapping and cleanup, instance metadata | lists in `localStorage`/IndexedDB | small CRUD with migrations | concurrent tabs | references stay valid |
| Connectivity retry (`services/connectivity-retry.js`) | attempts, timers | online/offline events | timers racing events | retries go on while needed |
| Storage audit (`services/storage-audit/`) | report, repair plan | scan, repair | data changing during the scan | repairs remove only garbage |
| Local development (`services/local-dev/`) | instances, reset flags | boot reset, full reset | crash in a reset | a reset completes on the next boot |
| Service workers (`service-workers/`) | cache, message ports | fetch, update | worker restarts | a page is answered or fails |
| Components and views (`components/`, `i18n`, assets), server and `bin/` | UI state, files | rendering, HTTP, build | - | pure presentation and I/O |

## 2. Plan

Most important first. A module stands beside the code it models; `MC...` modules hold the
instances, `...Proofs` modules the theorems, `DataLemmas` what they share.

1. **Storage access** - `StoreAccess` (the promise), `AccessScheduler` (implements it, proved in
   `AccessSchedulerProofs`), `SchedulerRegistry` (objects and resets). *Done.*
2. **Relay bridge** - `BridgeReceiveQueue` (credit, priorities, budgets, closes). *Done*; left:
   the attach handshake, its timers, and the credit of the opposite direction.
3. **Relay pool** - `ConnectionRecovery` (back-off, shared check, connection pump) and `RelayPool`
   (placement, publications, authentication). *Done*; left: COUNT, message budgets, seen-event caches.
4. **Vault** - `VaultRequestQueue` and `AcceptedMessages` (proved in `VaultRequestQueueProofs`)
   (durable, several tabs, crashes). *Done.*
5. **Account events** - `AccountCoverage` (intervals, generations, batched checkpoints). *Done*; left:
   live progress and its epochs.
6. **NostrDB store** - `EventStore` (events, deletions, quotas, maintenance). *Done*; left: queries,
   subscriptions, the CRDT merge, private deletion envelopes.
7. **Files** - `ChunkCache` (payloads, copies, purges, repairs) and `FileDownload`. *Done.*
8. **Next**: subdomain mapping and cleanup (use locks, tabs), connectivity retry, the app updater,
   permissions and sessions.

Theorems: the safety properties of the scheduler, the vault queue, the accepted messages, the bridge, the recovery, account
coverage, the event store, the chunk cache and the file download are proved (section 5); those of the pool are not
(section 6).

## 3. Modules, state and actions

Conventions. An action is one call, message handler, timer callback or microtask, with
everything it changes. A call that loops is unrolled: a control variable (`pumping`, `call`,
`draining`) is set by the call and nothing but the loop's own steps is enabled until it ends, so
the interleavings are those of JavaScript and no others. Variables named *history* are read by
properties only. Operators marked *Mutant* are faulty variants of the definition that follows
them: each property is known to fail on one of them, which shows that it says something about
the code.

### Storage access: `StoreAccess`, `AccessScheduler`, `SchedulerRegistry`

`StoreAccess` is the promise made to a caller: an access waits, runs and ends; two that share a
store never run together. `AccessScheduler` is one object of `access-scheduler.js`. `queues`,
`consumers`, `cursors`, `preferred`, `waiting`, `active` and `foregroundIntents` are the fields of
`createScheduler`; `status` is what a caller's promise knows; `listed` says whether the owner's
entry still names the object.

| Action | Code |
|---|---|
| `Run` | `scheduleNostrDbAccess`, and the next round of `scheduleNostrDbRead` |
| `PumpStep`, `PumpEnd` | `pump`, `take`, `takeFromClass`, `start` |
| `Complete` | the operation settles: `active.delete`, `pump` |
| `Abort`, `AbortRetry`, `SettleRejected` | the signal's handler and the `finally` handlers |
| `BeginIntent`, `ReleaseIntent` | `beginNostrDbForegroundIntent` and the release it returns |
| `Cancel`, `Recreate` | `cancelNostrDbAccesses`; the next `schedulerFor` |

`Promise == INSTANCE StoreAccess WITH ...` maps `status` to waiting, running or out, and
`KeepsPromise` is the specification of that instance. `SchedulerRegistry` looks at what the first
module leaves out, several objects of one owner: it keeps only who waits and who runs in which
object, and asks what happens when callbacks of an object that a reset dropped arrive while
another object is at work.

### Relay bridge: `BridgeReceiveQueue`

One launcher tab, its attachments, and the app-side shim at the other end of each port. `queue`,
`pending`, their byte counters, `sequence` and the two streaks are the receiver's; `consumer` and
`owed` are the shim's; `wire` and `back` are the two directions of the port, FIFO as ports are.
`Push` is the relay's frame and goes through `Evict`/`Enforced` (the endpoint's budget, then the
tab's) to `FlushStep`/`FlushEnd`; `FromConsumer` checks a grant against the ledger and flushes;
`Take`, `ReturnCredit` and `ConsumerClose` are the shim's; `RelayClose` is the pool's. Frames are
records of priority, stream, queued size and size when sent; the last two differ for a retry that
`rewriteRetryFrame` shortens.

### Relay pool: `ConnectionRecovery`, `RelayPool`

`connection-recovery.js` with the part of `pool.js` that drives it. `status`, `stage` and `queue`
are the pool's buckets and its connection queue, `url` the per-relay record (back-off delay, ticks
until the next attempt, failure, trial lease, generation), `probe` and `probing` the shared
connectivity check, `offline`, `monitor` and `nav` the browser's network state, `ages` the recent
attempts per host, `timer`, `scheduled` and `pumps` the three ways the pump is called. Time is
counted in ticks, and `Tick` waits until microtasks are done. `Opened`, `Closed`, `Failed` are the
socket's events, `ProbeEnds` and `Online` the check's and the listener's, `Attach`, `Join`,
`Leave` and `IdleTimeout` what members do to their bucket.

`RelayPool` is the rest of `pool.js` for one relay; a queued bucket opens or fails there as the other
module decides. The pool is one record `s`: `bk` the buckets with their members, listed
subscriptions, jobs, queues and authentications, and for each member `at`, `subs`, `neg`, `pend`,
`auto` and `frames`. A handler calls others in turn (an OK settles a job, which empties a bucket,
which is closed, which lets a waiting member in), so an action is a function from one `s` to the
next, and the calls that follow from it are tasks run in the order of the code before the step ends.
`owed`, `extra`, `asked` and `astray` are histories, `wire`, `remote` and `as` are the relay's side of a connection.

| Action | Code |
|---|---|
| `Join`, `Leave`, `Request`, `Unrequest`, `Publish`, `Authenticate`, `NegOpen`, `NegMessage`, `NegClose` | what a virtual socket calls: `attach` and the detach it returns, `#handleClientRequest`, `#handleClientClose`, `#admitEvent`, `#handleClientAuth`, `#handleClientNegOpen`, `#handleClientNeg` |
| `AutoAllowed`, `AutoSigned`, `AutoFails` | the steps of the automatic authentication after a rejection, each after an `await` |
| `Opens`, `Challenge`, `Fail`, `Idle`, `Dispatch` | a bucket's socket and its queue |
| `AuthAnswered`, `AuthTimeout`, `Accepted`, `Rejected`, `SubClosed`, `NegAnswered`, `NegFails` | the relay's frames and the timers that stand in for them |
| `Rested` | `consolidationThrottleMs` has passed and a full relay may be consolidated again |

### Vault: `VaultRequestQueue`, `AcceptedMessages`

`VaultRequestQueue` is `vault-request-queue.js`: `Ask`, the loop `Drain`/`DrainEnd`, and the five
things that can settle a request - an answer (perhaps of a connection that is gone), its timer, a
deadline found by the loop, a denial by the guard or a throwing send, and `Cancel` through
`SetPort`, `CancelPrevious` or `Close`.

`AcceptedMessages` is `vault-accepted-message-queue.js` in several tabs. `stored` is the one list
in local storage, everything else is lost with its tab (`Crash`). A flush is unrolled at its
`await`: `Visit` marks the attempt and sends, `Answer` removes the item on a verdict and keeps it
on an error. Ages and rests are ticks.

### Account events: `AccountCoverage`

The import of one account's history from one relay. `generation`, `coverage` and `stored` are the
database: the registry, the rows of intervals per kind, the events. A group is an `entry` of
`account-events.js` for some kinds, and `stage` and `step` say where its `run` is: `Begin` reads the
records and asks for the feed's snapshot, `NextJob` takes the next window of the catch-up or the
backfill, `Backfill` reads the records again. `page` and `pending` are the open page and the stack
of `accountEventPages`: `Persist` stores one event, `PageRead` hands the window to the queue or
divides it, and goes on to the next page or to the flush in the same step, as the code awaits
nothing between. The queue of `account-coverage-checkpoints.js` is shared by all groups: `queued`,
`running` (the promise chain), `timer`, `failure`, and for each flush the batches it still awaits
(`barrier`). `BatchCommits` and `BatchRejected` are one `markBatch` transaction; flushes it wakes
continue before any other task (`Ready`, `Quiet`).

The catch-up windows are computed in `Begin`: the code computes them later, from the same records.
The records of a failed read are read again, which changes nothing, so such reads are left out.
`Reset` erases the database under the running tab, `OtherTabReads` lets another tab create records
after it, and `Restart` ends the session at any point and begins another at a later time. The relay
is its set of events: a page is any answer NIP-01 allows, the newest events of the window with ties
in any order.

### NostrDB store: `EventStore`

One owner's database. `rows`, `ledger`, `cache`, `usage` and `sweep` are object stores, `claims`,
`touches` and `jobs` memory that `Reload` clears. A transaction is one step: its body is a chain of
functions on a record of the stores (`Begin`), as the code's helpers take the transaction as a
parameter. `Add`, `RemoveTargets`, `QueueAppClaim`, `Touch` and `Uninstall` are what applications do.
Maintenance that the code splits over transactions is split here: a `...Select` step keeps what it
read in `jobs`, a later one writes (`CompactSelect`/`CompactSave`, `PruneSelect`/`PruneDelete`,
`ExpireSelect`/`ExpireDelete`, `HearsayScan`/`HearsayCheck`/`HearsayDelete`, `CollectAppRows`/`DeleteAppRows`,
`FlushAppClaims`/`WriteAppClaims`, `Review`/`EvictBatch`/`EvictMore`), and `Fail` gives up any of them.
`PreparePage` migrates a store that an older version wrote, page by page, while all this goes on.

### Files: `ChunkCache`, `FileDownload`

A chunk is a row in its owner's database (`row`), and its bytes are a payload of a database all owners
share (`cache`: `payload`, `copy`, `assoc`, `root`, `totals`). `add` is `addEvent` of a chunk, which stages
the bytes, stores the event and commits the copy in three transactions; `purge` is `purgeChunkRoot`, batch
by batch of `PurgeBatch` rows; `keep` is the global maintenance that visits files, links and stages; `later` are hooks that run
after a transaction completed; `leaving` owners are cleared page by page. `Crash` ends the page between any
two of these.

`FileDownload` is `file-downloader/index.js`: `d` is the download with its ranges, batches, limiter
and counters. `Receive` and `Answered` are a relay's callbacks, `Load` the end of a range's first look
into the store, `Cancel` the caller. A callback that completes a range starts the next one in the same step.

## 4. Runs

| Run | Question | Instance and why it is enough |
|---|---|---|
| `scheduler` | Do conflicting accesses overlap, is a wake-up lost, do queues, counters and registry entry tell one story, does planning yield, is the promise kept? | Six recurring accesses: two lanes in the normal class, all four classes, a preemptible read, an access of both stores, one intent. Lanes empty and re-enter, cursors move on both sides, the limit of 3 is reached. |
| `registry_claim` (violation) | One logical scheduler per owner? | Three writes over two stores, one intent, four objects and two resets: one reset to lose an object, another to lose its successor. |
| `bridge` | Credit, window and budgets, order, and that queues drain and closes are announced. | A window of 2 frames and 3 bytes with a reserve of 1, queue of 3, an oversized frame, a retry that shrinks, four frames at two endpoints whose tab budget both together exceed, in frames or in bytes. Every branch of `flush` is reached, and the byte budgets of attachment, endpoint and tab. With three pushes to an attachment the frame budgets of its own queue and of its endpoint are not; `BudgetsAlwaysHold` proves them for every value, and the endpoint's is enforced by the function that enforces the tab's. |
| `recovery` | One trial per relay with its lease, nobody asleep, back-off kept by flapping, every queued bucket served while the browser believes it is online. | Two buckets of one relay, back-off of two steps, a host rate of one attempt per tick. |
| `vault_queue` | Limits, no idle slot, single settlement, nothing of an old connection, every request served. | Two slots, four recurring priority requests (two of them chunks) against one archive, two connections, one deadline. With two slots, two small requests and two chunks some eligible priority work always waits, so that normal work depends on the streak. |
| `accepted` | Nothing lost but for a reason, throttle across tabs, every lasting request judged. | Two tabs, room for one of two requests, a timeout shorter than the throttle as in the code; one request can grow too old, the other cannot. |
| `account_coverage` | Does coverage ever claim what is not stored, does a scan wait for its checkpoints, does a session without faults cover everything? | Two groups (two kinds and one), two sessions, pages of two events. One second holds a full page of one kind, so that its window is divided in time, then in kinds, then accepted; the second session has a gap to catch up. One fault (failed page, failed transaction, erased database) at any point; what it leaves behind is met by the rest of the session and by the next one. |
| `event_store` | Do ledger, counters and classes follow the content, does what was deleted stay out, do compaction, eviction, clean-up and uninstallation keep what they must? | Five worlds of three to five events, each about one part: rival versions with requests that delete one another; a request that is removed and added again while another that consumes it is signed; foreign events that the owner cites for a while; an application's data; personal copies. Each begins with rows of an older version to migrate, where the part has any. Limits of 1 to 3 so that every pruning, compaction and eviction happens; one or two routines under way at once. |
| `chunk_cache` | Do the counters agree with the copies, does a copy keep its bytes, does maintenance repair what crashes and races left? | Two owners, two files that share a content, a quota of one chunk; five plans: two versions of one chunk with a deletion and a crash, a cited file with both, an owner who leaves another sharing her bytes, files that do not fit together, a file of two chunks purged one row at a time (`PurgeBatch` 1). |
| `file_download` | Is a chunk counted once, given up only after every relay lacked it, is every chunk accounted for at the end, does the download never wait for nobody? | Two relays, six plans of three to five chunks: total known or not, two phases, two ranges at a time, batches of one and two, chunks in store, failure at the first missing chunk (whichever of its batch). |
| `relay_pool` | Is every event answered once, does nobody share a connection known by somebody else's identity, do the books agree after every handler? | Two members, one subscription per connection, two connections at a time and two or three made in all, two queued frames per member: every limit is reached by two members. Eight crowds, each two activities that meet. No state that is not `astray` breaks a property. |
| `pool_stranded` (violation) | Do pending publications move with their member? | One member that publishes two events. |

`CHECK_DEADLOCK FALSE` stands where the bounded environment really may stop: all frames pushed,
all resets used, a closed queue, the last session's import or the download done, nobody joins any more.

Fairness. Loops end and microtasks run. `BridgeReceiveQueue`: ports deliver and the shim's microtask
runs; weak fairness is enough as frames are finitely many and each is pushed, sent and repaid once.
`ConnectionRecovery`: time passes, timers fire, a handshake ends within its watchdog, a check within
its 6 seconds, and the library reports a network that is back. `VaultRequestQueue`: a request that was
sent is answered, if only with an error (the port's timeout and its close see to that).
`AcceptedMessages`: time and flushes go on; a page loses its vault some day and a vault connects again,
because nothing but a connection or an enqueue starts a flush; a message sent for ever is answered some
time. `AccountCoverage`: while a tab runs it goes on with something; as every loop of it is finite no
more is needed. `ChunkCache`: transactions complete and the maintenance timer fires again. Nobody is
obliged to ask, push, attach, abort or close. The other specifications state safety only and need none;
where progress matters there, it is stated as "what is not at rest waits for something that is under
way" (`NoStall` of the scheduler and of the download).

### What the violations show

- **`registry_claim`** (a bug): `cancelNostrDbAccesses` drops an object whose intent is still held;
  its release finds the old object idle and deletes the owner's entry, which by then names a newer
  object with an active access. The next access creates a third object and overlaps it, against
  `docs/nostrdb.md:280` ("runs one logical scheduler per owner/database").
- **`pool_stranded`** (a bug): `#isolateAutomaticAuth` moves a member without its pending publications
  and re-attaches only the one that was rejected. The others stay pending on no connection, never sent
  and never answered, against `docs/relay-pool.md:371` ("migration requeues them while preserving
  the original age"). `relay-pool.test.js:762` tests it for a member with one publication.

### Observations

Behaviour met while modelling that no run of its own records. Each was seen in the code and, where the
model reaches it, in a TLC trace; the properties above say exactly what holds in spite of it.

- *Scheduler.* `takeFromClass` leaves the cursor where it is when the lane it serves empties
  (`access-scheduler.js:115`): an app that re-enters at the end comes under the cursor again, and the
  other lane can be passed over for ever. A start of any lower class on another store resets the
  starvation counter (`:124`), so that a background access whose store is busy can wait for ever behind
  normal traffic. `docs/nostrdb.md:287` names round-robin lanes and bounded starvation.
- *Recovery.* `failed()` remembers only the last failed generation (`connection-recovery.js:119`). With
  three buckets an older sibling that fails after a newer trial advances the back-off again for its own
  generation; `docs/relay-pool.md:549` allows at most one step.
- *Account events.* The checkpoint queue keeps one failure for all groups and `flush()` clears the one
  it throws (`account-coverage-checkpoints.js:76`): of two scans that wait for the same rejected batch
  the second returns as if its windows were recorded. `CoverageHonest` holds all the same, and
  `SessionCovers` shows that a later undisturbed session makes up for it.
- *Deletion requests.* A compaction reads the targets of the requests it consumes, lets the owner sign the
  merged one and then consumes the requests by their ids (`nostrdb/index.js:1263`). A request that goes
  meanwhile, or goes and comes again when its `e` tags resolve to other targets, is not read again: what
  only it deleted is then deleted by the merged request, or no longer. `CompactionKeepsVerdicts` holds for
  every other compaction.
- *Chunks.* `purgeChunkRoot` reads whether a root is referenced before its batches, so a citation that
  comes meanwhile does not stop it (`docs/nostrdb.md:260`). A repair removes a link whatever it is by
  then (`nostrdb/index.js:2507`), so an event that arrives again between its two transactions is lost.
  `Repaired` shows that the two databases agree in the end.
- *Downloads.* With an unknown total and the fallback to any author, a total learnt late ends the range
  with chunks that are neither there nor reported (`file-downloader/index.js:456`); `EndIsAccounted`
  excepts this case.
- *Relay pool.* `#consolidateAnonymousBuckets` does not ask whether a connection is dedicated to an
  automatic authentication (`docs/relay-pool.md:106`), which is why `StrangersApart` leaves those
  out. `#handleClientAuth` may make one connection more than the limit, and moves may exceed
  `maxSubscriptionsPerBucket`; no property claims either limit. A NEG-CLOSE is queued on the former
  connection after a consolidation, so that `ChargesAgree` leaves out members that negotiate.
- *Relay pool, astray.* In three cases the three properties of `relay_pool` do not hold of the code. The
  history `astray` records that one of them happened, and the properties speak of the runs before that.
  First, `#detachPublicationWaiter` (`pool.js:409`) deletes the waiter before it removes the job, so the
  connection's list of publishers keeps the last who left. When the same event is published there again
  and refused for want of AUTH, `#routeAutomaticAuthRejection` (`pool.js:1938`) tells that one too, or
  authenticates for it, although "`OK` replies route only to currently pending publishers"
  (`docs/relay-pool.md:200`); one whose authentication is running already is told twice. Second, a member
  that overflows its queue while `#handleClientAuth` moves the others off (`pool.js:1335`) is closed within
  the move: consolidation may then bring others back before the AUTH is pending, or destroy the connection
  that the next ones are moved to. Third, of two AUTHs pending on one connection the one that is
  refused resets the identity (`pool.js:1929`) that the other confirmed. On the
  run's crowds only the third happens (in the one where a member authenticates as two identities); the first
  two were met with three members and with members that do more.

## 5. Proofs

Every theorem holds for all values of the constants that satisfy the named assumptions of its
component's module (`SchedulerConstants`, `QueueConstants`, `RecoveryConstants`, `BridgeConstants`,
`CoverageConstants`, `AcceptedConstants`, `StoreConstants`, `DownloadConstants`, `ChunkConstants`), which TLC evaluates for the instances of the runs. The
inductive invariants were given to TLC first. Each module states its definitions and lemmas before the
step lemmas, one per action, and ends with the theorems.

| Module | Theorems | Property of a run |
|---|---|---|
| `AccessSchedulerProofs` | `TypeCorrect`, `Serialization`, `LanesComplete`, `PromiseKept`, `OneStory`, `NothingAsleep`, `Yielding` | all of `scheduler` |
| `AccessSchedulerProofs` | `ChunkInvariant`, `CountersExact`, `SharedBytesStay` | both invariants of `chunk_cache` |
| `VaultRequestQueueProofs` | `TypeCorrect`, `Limits`, `SettledOnce`, `SlotsLive`, `Busy`, `SlotsUsedWell`, `ResultsOfThisConnection` | every safety property of `vault_queue` |
| `VaultRequestQueueProofs` | `MessagesLeaveForAReason`, `MessagesSentOnceAWhile` | both safety properties of `accepted` |
| `BridgeReceiveQueueProofs` | `QueueInOrder`, `CreditAlwaysConserved`, `BudgetsAlwaysHold`, `LanesAlwaysInOrder` | the invariants of `bridge` |
| `ConnectionRecoveryProofs` | `LeasesInOrder`, `OneTrialAtATime`, `FlappingNeverHelps`, `NobodySleeps` | every safety property of `recovery` |
| `EventStoreProofs` | `BooksInOrder`, `LedgerAlwaysAgrees`, `DeletedAlwaysStaysOut`, `ProtectedAlwaysKept`, `CompactionAlwaysKeepsVerdicts`, `UsageAlwaysContent` | all of `event_store` |
| `AccountCoverageProofs` | `MergeCovers`, `MissingIsTheRest`, `CoverageInOrder`, `CoverageAlwaysHonest`, `ScanAlwaysAwaits`, `BacklogIsExact` | the invariants of `account_coverage` |
| `FileDownloadProofs` | `DownloadInOrder`, `CountsAlwaysAgree`, `MissingAlwaysAsked`, `EndAlwaysAccounted`, `NeverStalls` | all of `file_download` |

`DataLemmas` holds what these proofs share. The library's induction theorems take an operator as a
parameter, which the provers cannot instantiate, so the module derives first-order forms of them:
a finite set that is closed downwards has a minimal element (`MinimalSet`), a set of numbers with 0 and
each successor has all (`Induct`), and from these that the folds and the recursive functions
the models are built from have the values their equations say (`FoldExists`, `RecursionExists`), that a
finite set can be sorted (`SortExists`), that maxima, minima and sums over finite sets and prefixes of
sequences behave (`MaxOf`, `SumUnion`, `SumToStep`, ...), and what removing from a queue leaves.

### The scheduler

`IInv == TypeOK /\ LanesListedOnce /\ StoresSerialized`; none of the three is inductive
alone. Serialization needs that the pump reads the head of a real lane: `HeadAt` of an empty lane
is no access, and only `LanesListedOnce` says that a listed lane holds one. `LanesListedOnce` in
turn needs the types of queues and cursors, because a cursor that left the order would name a lane
that does not exist. A start is safe because `Runnable` compares with every active access
at that moment (`Occupied`), and nothing but a start adds to `active`.

`PromiseKept` is the refinement `Spec => KeepsPromise`. Each step is a step of `StoreAccess`
or changes nothing a caller knows: `Run` submits, `PumpStep` starts, `Complete` finishes, `Abort` and
`Cancel` withdraw, the rest stutters. Serialization gives the guard of `Start`; what has to be added to
the invariant is that the lanes hold only what waits (`LanesFiled`): without it the pump might start an
access whose caller was told that it is gone, or start one twice.

`WInv` adds the converse (what waits is in its lane) and that the counter counts a finite
set. `NoStall` needs all of it at one step, the end of the pump: with nothing active and no intent every
access is runnable, so a pump that found nothing has seen no lane, an access that waited would have one,
and so the counter is zero. `OneStory` puts what this says of lanes, counter and registry together with
the cursors (`CursorsInOrder`), which the types of queues and cursors carry from step to step without the
rest (`StepKeepsCursors`). `UnlistedIsIdle` needs the counter too: only that tells a pump of an
unlisted object that there is nothing to start.

### The chunk cache

`ChunkInv == CacheOK(cache) /\ TasksTyped`. `CacheOK` says what the shared stores say of each other, for all
owners, roots and contents: a payload counts the copies of its content and an absent one has none
(`Backed`, from which `SharedBytesStay`); a link counts the copies of its content under its owner's
root; a root counts its chunks, an absent one has none, and it is marked as referenced when its count of
references is not zero (`RootFits`); the bytes and the unreferenced bytes are the sums over the payloads
(`Weighed`). `TasksTyped` is what a task keeps from one transaction to the next: an owner, a root, a chunk, a count. Nothing
else is needed of it: a transaction restores the agreement whatever the task read before, which is why
stale reads, crashes and purges that overlap cannot make a counter drift.

Each transaction is a function of the stores and has one lemma (`StageAgrees`, `AbortStageAgrees`,
`CommitAgrees`, `SetCountAgrees`, `RemoveCopyAgrees`, `RemoveRootAgrees`, `DropStagesAgrees`). They end in
`FlushAgrees`, which shows that the differences `flushPayloads` adds never bring a counter below zero: its
clamps are never needed, so none of them can hide an error, and the payloads it deletes have no copy. The counting is in `OneCopyMore`
and `FewerCopiesIs`, `UnlinkedIs` and `LinkedIs` for one copy, and in `RootEmptied` for all copies of a
root at once. The mark of a root and the protection of its payloads are not tied together, since the
checked properties do not read the one from the other.

### The vault queue

`IInv` has two halves. `Requests` is what settling, cancelling and starting keep: types,
queues that list exactly the waiting requests of their class, limits, one settlement each.
`Connection` ties slots to the port. It adds two facts to the checked properties, and neither can be
left out: only an open, connected queue drains (otherwise a start could take a slot for no port), and
a request that is new or waiting is not with the vault (otherwise a late answer could settle it). The
limits need that a chosen job is really a waiting one of the class of its queue, which is the part of
`TypeOK` on the queues. `Busy` is proved on top of `IInv`: a step either leaves the loop running, or
changes nothing that eligibility reads, or empties the queues, or is the end of the loop. There, a
queue with an eligible request has a first one (natural numbers are well ordered), so it has a
candidate, and the loop would not have ended.

### The accepted messages

Both theorems come from one invariant, `Messages`. The stored queue lists each key once and is no longer than
`MaxItems` (`Store`), and a request that must rest for some time was sent no longer ago than that
leaves (`Spaced`): the first ties a departure to its cause, the second relates what is in the
storage, which every tab reads, to when it was last sent by any of them. The work is in `Pruned` and `PushedOut`, on the
operator that selects the items at some positions: pruning keeps every item that is not too old as long as there are no more than
`MaxItems`, and of one more the oldest goes. `PositionsNumbered` says that the numbering of
positions behind it is a bijection.

### The bridge

`IInv` says of every attachment that its lanes, its ledger and its stream are in order, and of all of
them that totals do not exceed the budgets unless an eviction is under way (`TotalsOK`). `LedgerOK`
makes the charged bytes the sum of the outstanding entries, whose numbers are consecutive. `FlowOK` is the
reason why an honest consumer is never closed: cutting the outstanding entries at the right places gives,
in order, what the credits on their way back repay, what the consumer owes, what it holds and what is on the
wire, so the next credit that arrives names exactly a prefix. `QueueOK` says that in the queue numbers rise and that
nothing queued is older than what its lane has sent, which a step back in the numbering (a frame that is
queued again) would break. `BudgetsAlwaysHold` needs that an eviction
which finds no victim is within its budget (`NoVictims`) and `CreditAlwaysConserved` that the frame a flush
selects may be sent (`SelectedMayGo`).

### The recovery

`IInv == TypeOK /\ QueueOK /\ TrialIsConnecting /\ TrialHasLease /\ StableIsHealthy`: the connection queue lists the
queued buckets, each once; a socket opened as a trial connects and has the lease of its relay until it opens or ends; the stability
timer runs only beside a healthy socket. The generation an attempt is given must be new, and
`FreshGeneration` shows that there is a number nobody holds, however many old sockets linger. `FlappingNeverHelps` is an
action property: what could shrink a delay is a stable period or losing interest, and the generation tells
the events of older sockets apart. `NobodySleeps` needs `SInv`: attempts of a host are recorded oldest first
(`OldestFirst`), so that the oldest that leaves the window frees a place, and whenever the timer is armed
each queued bucket has somebody to wake it (`Awake`), and not only between tasks, because a tick moves timer
and retry times together.

### The event store

`Books` relates the stored events and the ledger: each contribution in the ledger comes from a stored
request that names the target and may delete it (`Sound`), each stored request has all its
contributions (`Complete`), and no stored event is blocked. `Store` says it of the record that a transaction
transforms, with the request that is applied and not yet written as a parameter, and every helper of a
transaction has a lemma that it keeps `Store`. `JobsOK` says what routines split over transactions still
know of what they read before. `CompactionAlwaysKeepsVerdicts` has a premise the property states: the consumed requests
still say what the compaction read. The owner may remove a request and add it with other
targets while the merged one is signed (world "Again"); the counterexample without the premise is
described among the observations.

`UsageAlwaysContent` has an invariant of its own, `UsageOK`: the counters equal the sizes of the classes of the
rows counted so far (`Tally`; all rows when the phase is "ready", a prefix while the paged count goes on), and each of those rows is in the
class its references give it (`Settled`). Inside a transaction the second half does not hold, since a
new or deleted reference of the owner changes the class of rows that are not written. So `Account` relaxes it by exactly what the
transaction remembers: a row may be in the wrong class only if one of its references is among `tx.refs`,
and the reconciliation at the end, which visits those and no others, restores it. The helpers of a transaction have a second
lemma each, that they keep `Account`, and the arithmetic is kept in `TallyMoved`, `TallyWithout` and `TallyWith`:
how moving, removing and adding rows shifts the sums.

### Account coverage

`MergeCovers` and `MissingIsTheRest` are about the pure algorithms: for every finite set of intervals the
recursive merge returns a sorted row with gaps between its intervals that covers the same seconds, and the
complement in an interval is exact. Both go by the sweep: after n intervals, what has been passed is covered
as far as the last end (`Swept`). The invariant `IInv == Types /\ Fences /\ Honest /\ Barriers` keeps rows normal; says that
no generation is given out twice, so that what an erased database left behind is told apart
(`Fences`); that pages and checkpoints of this database speak of what is stored (`Honest`,
from which `CoverageHonest`); and where each checkpoint is that a flush awaits (`Barriers`, from which
`ScanAwaitsQueue`). `BacklogIsExact` joins the two parts: a backfill plans exactly the seconds that the rows it
read do not cover.

### The file download

Here a task is a long chain of calls, and the invariant holds only when it ends. `Kept` is what every call
preserves, in the middle of a task too: each range is in order (`RangeOK`: what is
missing is what is not covered, and what is handed on in its interval is covered), what it has tried agrees with
its batches and the answers (`Flown`), ranges lie apart, a batch has one place in the limiter of its relay, and
every chunk asked for is handed on, reported, in a range or still to come (`Accounted`). `AtRest`, the inductive
invariant `IInv`, adds what is true only between tasks: a range that runs has a batch (`Busy`), and an end accounts for what was asked
(`Ended`); when the total was known from the start, nothing is left to be given up either (`NoneExhausted`). Every operator of the model has a lemma on it,
the step lemmas join them in the order of the calls, and `BeginKeeps` starts. Three facts carry the
rest. Whoever may be asked for something is given something: the order in which relays choose
is strict, so a finite set has a first (`SelectedOK`); hence a range that asked all relays and has no batch has no
chunk left that a relay could be asked for (`ScheduleKeeps`, `AllTried`). A relay whose queue is not empty has a batch under way (`Attentive`), so that `NeverStalls`
follows from `Busy`. And a chunk that every relay was asked for and that is not in flight has been answered by all of them (`ExhaustedAnswered`), for
the answers that lacked it and the batches are all there is of what was tried. With a total learnt late the counters
are kept for chunks beyond the end of the first range as well (`Countable`), as the end may move.

## 6. Only model-checked, and not modelled

Liveness under fairness is out of the prover's reach: `EveryRequestServed`,
`QueueDrains`, `ConsumerLearns`, `Served`, `EveryRequestJudged`, `SessionCovers` and `Repaired` are model-checked. So are the three
invariants of `relay_pool`, on the instances above; `RelayPool` runs its tasks with a recursive operator,
which the prover does not take.

Data is abstract throughout: events, frames, requests and chunks are members of small sets;
diagnostics, latency samples and wording are left out. Reading and writing `localStorage` is one step of
a tab, as two tabs that write at the same time cannot be told apart from the code's own point of view. An
IndexedDB transaction is one step: the browser isolates those that write a common store, and the
routines are split wherever the code opens another one. `EventStore` counts an event as one byte and
leaves out signatures, tag indexes, private deletion envelopes and rival versions of personal copies.
`ChunkCache` leaves out reads and their access times. `RelayPool` leaves out queued bytes, COUNT,
message budgets, retry advice and caches of seen events, and looks at one relay: connections of
different relays share nothing but the recovery's limits.

Not modelled, and why. The app updater and file manager: many small caches whose control is decided
by the network; they come next, after subdomain mapping and cleanup and the connectivity retry (two
listed hazards wait for these). The bridge's handshake, the app bridge's dispatch and permissions, live
account progress, the CRDT merge, queries and subscriptions of the store: not yet. Sticky sessions,
widgets and personas are lists with the last writer winning. The storage audit and local development
are tools beside the program. Views (a third of the source), server and build tools derive what they
show from the services and hold no protocol. `PROJECT.json` lists each with its reason.
