# Verification of static_flow

TLA+ models, model-checking runs and machine-checked proofs for the parts of
`static_flow` whose correctness is hard to see from the code: the path of a
provider request in the LLM access service, from the check of its key's quota
over its dispatch to an upstream account to the accounting of its usage, and the
path of its usage event, from the journal over the relay between nodes to the
segments of the analytics store and their catalog. The last section says what is
left out, and the plan.

## 1. The system

`static_flow` is a Rust workspace. Two products live in it:

* a **blog** (`backend`, `frontend`, `store`, `media-service`, `gateway`, `cli`,
  `shared`, `email-notifier`, `embedding`): handlers over LanceDB, a few
  background workers, a media service and a reverse proxy;
* the **LLM access service** (`llm-access*`, `llm-usage-journal`): an API process
  that authenticates keys, checks quotas, dispatches requests to upstream
  providers and records usage; a usage worker process that imports the recorded
  usage into DuckDB segments; edge nodes that relay their usage to a primary.

The second one carries the state that may go wrong under crashes and
concurrency, and all models are of it. A request takes this way through them:

```
KeyAdmission      look the key up in the cache, add the overlay, check the quota
CodexDispatch     choose accounts, fail over, stream, record the usage
CodexAccounts     refresh the accounts' tokens; tell which may be chosen
UsageAccounting   bill the usage to the key, exactly once; journal the event
UsageJournal      write the event to a file, import the file on a primary node
JournalRelay      ... or hand the file from an edge node to the primary
UsageSegments     keep the imported rows in segments; seal, publish, expire them
```

| component | state | operations | talks to | hard behaviour | what makes it correct |
|---|---|---|---|---|---|
| quota accounting (`llm-access/src/runtime.rs`) | event channel, flush buffer, overlay of pending usage, retry window | enqueue, receive, flush, replay, prune, shutdown, start | control database, backlog, journal | lost answers, retries, crash and restart, shutdown, dropped request futures | usage billed once; quota checks see all pending usage; nothing is held for ever |
| rollup backlog (`rollup_backlog.rs`, `llm-usage-journal/src/rollup.rs`) | files in `active/ sealed/ consuming/ bad/` | append, seal, claim, complete, restore, quarantine, recover | accounting | failing file operations, torn writes, recovery of claims | a batch is in one file; a rename never hits another file |
| control database rollups (`postgres/usage.rs`, `postgres/keys.rs`) | usage row of a key, applied-batch markers | apply batches, prune markers, patch a key | accounting of all nodes, administrators | idempotency, lost updates | a marker implies the delta is in the row |
| usage journal, producer (`usage_journal.rs`, `llm-usage-journal/src/{writer,writer_state,recovery,retention}.rs`) | journal files, sequence counter | append, seal, retention, recovery | usage worker, through the directory | crash at every step, two processes in one directory | sequences are unique; written blocks stay until imported or dropped by retention |
| usage worker (`usage_worker.rs`, its binary) | claim, consumed files | claim, import, record, delete, recover stale claims | journal directory, analytics store | crash between import and record; racing retention; errors | a file marked consumed is imported; every file is imported at last |
| edge relay (`usage_worker.rs`) | claim, ledger of consumed files | post a file, import a posted file | primary worker over HTTP | timeouts, duplicate delivery | an edge deletes only what is stored; the ledger vouches for rows; every file is relayed at last |
| tiered analytics store (`llm-access-store/src/duckdb/*`, `usage_catalog.rs`) | active, pending and archived segments, catalog | append, roll over, seal, retain, prune orphans | usage worker, maintenance thread, sealer threads | crash between rename and catalog, pruning against sealing, stale locators | acknowledged rows stay until they expire; the catalog names files; pending segments are published |
| auth and request cache (`request_cache.rs`, `postgres/cache.rs`) | cached keys with TTL and generation | look up, fill, invalidate | Valkey, control database | stale fill after an invalidation | no write forgets the cache; a barred key is refused in bounded time |
| dispatch, limiter, routing, sessions (`provider/codex_dispatch.rs`, `stream_guards.rs`, `limiter.rs`, `route_selection.rs`, `codex_session_*.rs`, `kiro_session_affinity.rs`) | permits, start times, failed accounts, tables with expiry | acquire, release, select, fail over, stream, record, expire | request handlers, upstreams | dropped requests, races on limits, many early returns | limits hold, permits never leak, an account is tried once, usage is recorded once |
| token refresh and status (`*_refresh.rs`, `*_status.rs`, `refresh_scheduler.rs`, `postgres/codex_routing.rs`) | locks of a process, account rows, their cached entries, status snapshot, due times | refresh, save, check, fall back, merge, schedule | provider's token endpoint, control database, Valkey, dispatch, administrators | a refresh token is good for one exchange; writers of several processes; stale entries; two places that hold an error | no token is put over its successor; routing follows what the token is worth |
| cluster (`cluster.rs`) | known primary | look up, become primary | control database | stale lease | one primary |
| blog workers (`backend/src/*_worker.rs`, `shared/src/task_status.rs`) | task states | enqueue, claim, finish, retry | LanceDB, subprocesses | crash of a worker in the middle of a task | a task ends once |
| media jobs, gateway switch | jobs, upstream choice | start, poll, switch | ffmpeg, Pingora | concurrent jobs | bounded jobs, atomic switch |
| protocol conversion, UI, CLI, admin handlers | none of their own | pure conversions, CRUD | | | not modelled, see section 8 |

`PROJECT.json` lists every component with its files and status, and the hazards
of the code at their lines.

## 2. Modules

```
RollupBatches        batches, the faults a run allows
  RollupStore        control database: row, markers, pruning, key patch
  RollupBacklog      disk backlog: files and their moves
    UsageAccounting  channel, flusher, overlay, retry window, process life
      RollupLedger             the abstract promise (refined by UsageAccounting)
      MCUsageAccounting        symmetry for TLC
      UsageAccounting_proofs           theorems: types, disk, billing, refinement
      UsageAccounting_overlay_proofs   theorems: quota checks, overlay, journaled usage
                                       (extends the former)

JournalFiles         directory, sequence counter, consumed record
  JournalProducer    API process: recovery, writer, sealing, retention
  JournalWorker      primary usage worker: claim, import, record, delete
    UsageJournal     both in one directory
      MCUsageJournal           symmetry, an upgraded root
      UsageJournal_proofs      theorems

JournalRelay         edges, the primary, and the key that names it in Valkey
  JournalRelay_proofs          theorems

UsageCatalog         published segments, generation, cached locators, lookups
  UsageSegments      appends, rollovers, sealers, retention, process life
    UsageSegments_proofs       theorems

KeyAdmission         cached keys, their fills and invalidations, the quota check
  KeyAdmission_proofs          theorems

CodexDispatch        limits, failover, sessions, streams, usage records
  CodexDispatch_proofs         theorems

CodexAccounts        tokens, the refresh lock, row and entry, checks, routing
  CodexAccounts_proofs         theorems
```

Some definitions have a twin above them, marked `Mutant:`. It is the definition
with one plausible mistake; `PROJECT.json` pairs each checked property with a
mutant that breaks it. Nothing else refers to a mutant.

### 2.1 Quota accounting

*State.* `queue` is the `mpsc` channel, `buffer` and `retryBuf` are the
flusher's buffers, `overlay` is `PendingUsageRollups` with one integer per event
(additions minus subtractions), `attempts` and `window` are
`UsageRollupRetryState`, `pc` is the place of the flusher task, `hand` and
`claim` are what it holds across an `await`. `charged[b]` is how often batch `b`
is contained in the key's row, `markers` is
`llm_key_usage_rollup_applied_batches`. `files` are the backlog's files with the
batches in their valid prefix. `fresh`, `accepted` and `journaled` are history.

*Steps.* A request handler is `Enqueue` (overlay, then the send) and one of
`SendCompletes`, `SendFails`, `SendCancelled`. The three branches of the
flusher's `select!` are `Receive`, `TimerTick` and `SeeShutdown`. One flush is
`ClaimBacklog` / `ReplayCommits` / `ReplayOk` (or `SkipBacklog`,
`QuarantineUnreadable`, `ReplayFails`, `ReplayMismatch`), then `TakeBuffer` /
`LiveCommits` / `LiveOk` (or `LiveFails`, `Park`), then `Forward`. A step ends at
each `await` and at each file operation with an error path of its own; commit and
answer of a transaction are two steps, so an answer can be lost after the commit.
`Crash` may strike between any two steps and in the middle of `Park`;
`Start`, `RecoverFile`, `FinishStart` are `UsageRollupBacklog::open`, one file at
a time, with crashes in between.

*Abstractions.* All events belong to one key (keys share only the batches). The
channel is a set: nothing depends on the order of its events. Byte limits are
event counts. One append holds one batch, as in the code. The marker retention of
90 days is the step `AgeMarkers`, possible at any time. A byte-limit drop of
analytics events is the fault `"analytics"`. The `None` branch of `rx.recv` cannot
be reached before shutdown, since the runtime keeps a sender, and is left out.

### 2.2 Usage journal

*State.* `files` are the journal files with their directory, extension (`open`,
`journal`, or `recovering` for the temporary output of recovery), blocks, footer,
and whether they are older than the consumer lease. `nextSeq` is
`writer-state.sqlite3` and `consumed` the worker's `consumed_files`. `segment`
and `archived` abstract the analytics store: an active DuckDB segment with a
primary key on `event_id`, and archived segments that later inserts do not look
at. `written`, `dropped` and `spoiled` are history: blocks the writer has written
completely, those retention deleted, and those a failing write put out of reach,
since neither recovery nor import reads past its torn record.

*Steps.* The producer is one thread, since a mutex guards the writer: recovery
(`CopyBlock`, `ScanFails`, `ScanEnds`, `FinishRecovered`, `RemoveSource`), writing
(`AppendEvents`, `AppendFails`, `Maintain`, `OpenNext`, `OpenFails`,
`WriteFooter`, `PublishSealed`, `SealFails`), retention (`ListForRetention`,
`DeleteOldest`, `RetentionEnds`). The worker's import loop is a thread of another
process: `RecoverConsuming`, `ListSealed`, `DeleteConsumed`, `ClaimOldest`,
`ImportBlock`, `ReadFails`, `ImportFails`, `FinishFile`, `RecordConsumed`,
`RemoveConsumed`, `BookkeepingFails`. Both list the directory in one step and act
on the list in later ones, as the code does. An error ends the import loop
(`wk = "stopped"`) while its process lives on; only an operator restarts it.

*Abstractions.* A block stands for the events of one append call. A crash is a
crash of the process, which leaves written pages; a record in the middle of a
write becomes `Torn`. `should_seal` (size or age) may answer either way, except
that `Maintain` always may seal: the age limit is reached at some time. Lease age
is a flag that a step sets. A disabled journal and `delete_bad_files = true` are
not modelled.

### 2.3 Segments and catalog

*State.* A segment file is a record with its sequence, its rows and, once it left
`active/`, its id. `active`, `pending` and `archive` are the three directories.
`tier` is `TieredDuckDbUsageState` (path of the active segment, next sequence,
whether it has rows), `gate` the `write_gate`, `app` the append in progress, and
`sealers` / `sealer` the threads that wait for the seal lock and the one that holds
it. `ret` is the maintenance thread. `catalog` stands for `llm_usage_segments` and
its event table, `cached` for the locators in Valkey whose stamp is the current
generation, `lookup` for one reader. `acked`, `abandoned`, `behind` and `raced` are
history.

*Steps.* An append (`BeginAppend`, `RolloverFirst`, `RolloverAfter`, `InitActive`,
`Insert` and their failures) holds the gate from its first to its last step; the
state's lock is free while rows are inserted. A sealer is `TakeSealerLock`,
`ArchiveSegment`, `CollectEvents`, `Publish`, `AnnounceSegment`, `RemovePending`,
each of which may fail (`AttemptFails`). A maintenance cycle is `CheckActive` (with
`ReplaceActive` for an expired active segment), `DeleteExpired`,
`AnnounceDeletion`, `RemoveExpiredFile`, and the pruning of orphans: `ReadPaths`,
`ListArchive`, `RemoveOrphan`. `Start` seeds an empty catalog from the archive,
spawns the sealers and picks the active segment; `SeedInterrupted` is a start that
dies in the middle of the seeding. A reader is `LocateHit` or `LocateMiss`,
`LoadLocator`, `WriteLocator`, `OpenLocated`.

*Abstractions.* Each event is appended once; what happens to events that are
imported twice is the subject of `UsageJournal`. The id of a segment (its time
and its sequence) is taken to be unique. Compaction, validation and the copy to
`*.uploading.duckdb` are part of `ArchiveSegment`: only its last rename matters. A
segment of any size may be large enough. `segment` and `archived` of
`JournalWorker` abstract this module.

### 2.4 Relay

*State.* `place` is the directory of each file of each edge, `aged` says which
claims are older than the lease, `edge` is the step of the edge's loop and the file
it holds, `known` its snapshot of the primary, `beacon` the primary's key in
Valkey. `request` holds per edge the request it waits for and one it has given up
and which may still be handled. `ledger` is `relay_consumed_files`, `stored` the
rows of the primary.

*Steps.* One round of `run_one_relay` is `RecoverAndClaim`, `Post` or `NoPrimary`,
then `Accepted`, `Rejected` or `PostFails`, then `RemoveRelayed`. The primary's
handler is `LookupLedger`, one `ImportBlock` per block, `Record`; it may fail, lose
its caller, or die. `Publish`, `BeaconExpires` and `Heartbeat` are `cluster.rs`.

*Abstractions.* The digest and the header checks of a posted file pass: both sides
read the same bytes. Rows are a set (a second insert of the same row is not seen;
see section 7 for what that leaves out). Bound: one request an edge has given up
is under way at a time.

### 2.5 Admission of a key

*State.* `row` is what the lookup of an authenticated key returns (status and used
units), `entry` its entry in Valkey, `view` the row each request holds, `overlay`
the pending usage of the node, `flusher` and `batch` the rollup batch being
applied, `admin` and `readUsed` the administrator's write. `behind` and
`overtaken` are history: a write that could not reach the entry, and a fill that
an invalidation overtook.

*Steps.* A request is `Lookup`, `Load`, `Store`, `Admit`, `Finish`. The flusher is
`Apply`, `ApplyInvalidates` or (after a lost answer) `ApplyAgain`, `Settle`. The
administrator is `PatchRead`, `PatchWrite`, `DeleteRow`, `AdminInvalidates`.
`Expire` is the TTL of the entry.

*Abstractions.* One key, one node's overlay, one administrator at a time, a usage
counter in units. A deleted row is the cached "no such key". A node without a
request cache reads the row each time and is not modelled. `UsageAccounting` has
the life of a batch in full; here it is what the cache can tell of it.

### 2.6 Dispatch

*State.* `pc` is the place of each request, `account` the account whose permit it
holds, `failed`, `attempts`, `preferred` and `routes` the locals of
`dispatch_codex_proxy`; `keyInFlight` and `inFlight` the scopes of the
`RequestLimiter`, `cooling` the cooldowns, `authError` the persisted errors,
`affinity` and `blocked` the two tables' entries of the session; `records` counts
the usage records, `spawned` the tasks that a dropped guard started.

*Steps.* `Arrive`, `Enter` and `Select` lead to an attempt, which ends in
`TransportFails`, `Unauthorized`, `UpstreamFails`, `ReadFails` or `Accepted`. A
response is `BodyComplete` and `Record`, a stream `PreflightPasses`, `Poll`,
`StreamEnds` and `Finish`, or `StreamBreaks`. `Disconnect` drops the handler's
future or the body at any await; permits and the record guard act in their `Drop`.

*Abstractions.* All requests belong to one session of one key, which is the case
where all tables interact. `request_min_start_interval_ms` is a reason for a scope
to be full, as is the count, and is left to the count. A request that finds its
accounts full polls without changing anything and is no step. The limit a request
sees is any of `KeyLimits`, since it comes with its routes and may have been
patched.

### 2.7 Accounts

*State.* A token is a generation: the provider exchanges the newest refresh token,
once, for the next (`issued`), and `access` says whether an access token is good,
rejected or past its `exp`. `row` is the account in `llm_codex_accounts` (token,
last error, `auth_refresh_enabled`), `cached` its entries in Valkey while they
differ from it, `fill` a row read for them that may still be stored. `locks` is
`REFRESH_LOCKS` of each process. Per task, `pc` and `node` are where it is, `have`
the token of the route it was given, `force` and `using` the locals of the call,
`work` and `rec` the update and the row of a save. `status` is the account's error
in the snapshot. Times are compared in one place only (was the row written after
the check?), so they are three stamps that move with the checks. `misled` and
`overtaken` are history: a reload answered by an older entry, and a write of
somebody else during a section.

*Steps.* `ensure_context_for_route` is `BeginRequest` or `BeginCheck`, `Lock` (the
wait, the reload and its four outcomes), `Refresh`, then the save in `ReadRow` and
`Write`, or `SaveFails`. A call is `CallSucceeds`, `Unauthorized` (once more with a
forced refresh; a request then saves the error, outside of the lock) or
`CallFails`. A check may go through `Fallback` and `DisabledAlready`, and ends in
`Publish` with `merge_background_refresh_result`. An administrator refreshes
without the lock or patches the row (`AdminCalls`). Any process may `Crash`, tokens
go bad, entries expire.

*Abstractions.* The entries `view` and `auth` are one; entries equal to the row are
none. A deletion that fails and a fill that comes late count as failures. Error
texts are classes: none, transient, terminal. The account exists and is active.
One check at a time, as the scheduler's own worker runs them. The last token
never goes bad (a bound: someone has to end the series). Not modelled: checks
that use the current token only, a manual check that writes the other accounts'
statuses back, import and deletion of accounts, and Kiro's refresh.

## 3. Runs

| run | question | bounds |
|---|---|---|
| `accounting_durable` | With crashes, restarts, shutdown, failing and unanswered transactions: billed at most once, idempotent replay, exact overlay, the journal shows nothing unaccounted, the retry window is respected, and each step is a step of `RollupLedger` | 3 events, 3 batches, channel 1, flush at 2 events |
| `accounting_all_faults` | What still holds when file operations fail, handlers are dropped, digests mismatch, other nodes prune and the journal refuses, all together: `QuotaCovers`, `OneCopyOnDisk` | 2 events, 2 batches |
| `accounting_live` | Accepted usage is billed, parked batches are replayed after every restart, the overlay empties | 2 events, 2 batches, fairness of section 4 |
| `journal_faults` | From a new root or one without a sequence counter, with crashes at every step of both processes, failing writes, opens, seals, imports and bookkeeping, operator restarts: unique sequences, consumed files are imported, written blocks are kept, imports are not repeated | 2 blocks, 5 sequences (4 in an old root), retention at 1 file |
| `journal_live` | Every written block is imported, dying workers included | 3 blocks, 4 sequences |
| `segments_life` | With crashes, failing rollovers, sealer attempts and retention cycles: acknowledged rows are kept, the catalog names files, pending segments are published and expired ones deleted | 2 events, 1 segment that leaves `active/`, 2 attempts, 3 sequences |
| `segments_lookups` | With all faults: an event that was published when its lookup began is found, whatever locator is cached meanwhile | the same with 1 attempt, one event looked up |
| `relay` | With crashes, timeouts, abandoned requests, a failing store, a primary missing in Valkey: deleted files are stored, the ledger vouches for rows, every sealed file is relayed | 1 edge, 2 files of 2 blocks, all 7 faults |
| `key_cache` | With fills racing with usage, patches and deletions, lost answers, no Valkey: cached usage is not short, no write path forgets the cache, a barred key is refused in the end | 2 requests, quota 2, 2 units of usage |
| `key_deleted` | violation, section 7: a deleted key stays cached | the same, no fault at all |
| `accounts` | A request, a check and an administrator at the tokens of one account, with a crash, a failed call or save, a lost deletion or a late fill: a locked save never goes back to an older token beyond the exceptions, routing follows the token in the end | 1 process, 2 tokens, 1 failure, 1 administrator's call |
| `dispatch` | Two requests of one session over three accounts: no account tried twice, exact permit counts, usage recorded once, every request ends | 2 requests, 3 accounts, key limit 1 or 2, account limit 1, 2 attempts |

*Why the bounds suffice.* Double billing needs one batch and its replay; two
batches add the order between a replay and a live batch, three events let a
second and third one wait in the channel and the buffer while the first is in
flight. `MaxAttempts = 2` gives both an uncounted-out and a suspending failure.
`MaxSequence` is large enough for each crash to allocate a new file until the
batches run out. `MaxCharges = 2` bounds the counter of the row after a violation
would have happened. In the journal, two blocks give two files, or two blocks in
one file with a crash between them; retention at one file makes it delete
whenever a second file is sealed. `SequencesSuffice` lets the API process die
only while the remaining sequences are enough to write the rest, so that the bound
never stops the system in the middle. In `journal_live`, `MaxRollovers = 1` is
enough for a row in the archive and again in the active segment.

A segment meets everything that may happen to it alone: sealing is serialised by a
lock, and a segment's path does not depend on another one's. One segment in
`pending/` or the archive beside an active one that still takes rows is what
append, rollover, sealing and retention have to keep apart. The relay's edges share
nothing but the primary, which keys all it keeps by edge, so one edge shows what
several do (the proofs hold for any number of edges); two files and two blocks give
an order to confuse and a delivery to cut in the middle. Two requests are one that
fills the cache and one that reads it, or two that compete for the last permit; a
quota of two lets one unit be admitted and the second exhaust it. Three accounts
with two attempts leave a failover candidate after each kind of failure, and none
in the end. Two tokens are one that is exchanged and its successor; the request, the
check and the administrator are the three kinds of writers. A second process adds
only writers outside the lock, of which the administrator and a request's 401 are
examples already (the theorem is for any number of processes).

`CHECK_DEADLOCK FALSE` is in all configurations but the accounting ones: blocks,
files, segments, units of usage and requests are finite there and the system
comes to rest when they are used up, and an import loop may really end.

## 4. Fairness

*Accounting.* Weak fairness of the flusher, of a waiting sender, of the clock that
ends the retry window, and of startup: the runtime polls its tasks, a timer fires,
and systemd restarts the process (`Restart=always`). Strong fairness of the four
steps in which a transaction commits or its answer arrives: the database is not
down for ever; without that nothing can be promised. No fairness for handlers that
have not begun, crashes, faults, or other nodes. The properties that hold only
while the process lives are stated under `[]Serving` or `<>[]Serving`.

*Journal.* Weak fairness of the producer while it lives, of its start, of
`Maintain` (the flush timer calls it), of the import loop, of starting the worker
process (systemd), of the lease, and of an operator where the run has one.

*Segments.* Weak fairness of an append that has begun, the sealer threads, the
maintenance thread and the start of the process; strong fairness of the steps of a
maintenance cycle, so that no step fails in every cycle. Sealers need no such
assumption: what their attempts give up is excused in `PendingIsPublished` until
the next start. Appends that have not begun, expiry of rows and lookups are free.

*Relay.* Weak fairness of the edge's loop, of a connection that is cut, of the lease,
of an abandoned request's end and of the operator; strong fairness of the stages
of a delivery, since network and store do not cut every one of them off at the same
point. Because every error ends the loop and only an operator restarts it,
`EverySealedIsRelayed` would not hold without the operator. It is stated under
`<>[](primary /\ known = Edges)`.

*Admission and dispatch.* Calls that were made return, TTLs end, a handler that can
go on does, and an upstream goes on or fails. The last one is not given by the code
alone: the provider client has no timeout of its own (section 7). Clients owe
neither requests nor disconnects, administrators no writes.

*Accounts.* Weak fairness of every task that has begun, of the next check (the
scheduler's loop) and of the expiry of entries; strong fairness of `Lock`, because
tokio's mutex serves its waiters in the order they came. No request, crash, failure
or administrator is owed.

## 5. Properties worth knowing

* `BilledAtMostOnce`, `ReplayIsIdempotent`: the idempotency argument spans the
  database, the backlog and the prune guard. A marker may be pruned only when no
  copy of its batch can be replayed, and the code decides that by looking at one
  directory.
* `QuotaCovers`, `OverlayIsOutstanding`: the overlay is changed at six places
  (enqueue, failed send, live success, replay success, digest quarantine, startup).
  The first says that a quota check never misses outstanding usage, the second that
  it never keeps settled usage.
* `JournaledIsAccounted`: events reach the journal only behind accounting.
* `ImplementsLedger`: the refinement. An accepted event is billed once or lost,
  lost usage is never billed later, and usage is never billed before its recording
  succeeded.
* `OneFilePerSequence`, `ConsumedIsImported`: the worker deletes a file unread if
  its sequence was consumed, so a reused sequence would destroy usage. The seed of
  the counter must see four directories and the consumed record.
* `WrittenIsKept`: across crash recovery, which writes into `sealed/`, where the
  worker and retention act at the same time. Only retention and a failing write
  are excuses.
* `AckedIsKept`: three threads move and delete the files of segments, and two locks
  keep them apart; dropping the gate in retention alone loses rows.
* `LookupFindsPublished`: a locator is read from the catalog and cached after the
  generation may have moved on; that the answer carries the stamp which was read
  first is what keeps it from hiding a newer segment.
* `RelayedIsStored`, `LedgerIsStored`: the edge deletes on one answer, and the
  primary answers "imported already" from its ledger, while two deliveries of a
  file overlap and either may be cut off between any two blocks.
* `CachedUsageCounts`: the flusher must invalidate the cached row before it settles
  the overlay, or the quota check of a hit misses usage until the TTL ends. The
  order of two calls in two files carries it.
* `SlotsAreHeld`, `EachAttemptAnotherAccount`, `RecordedOnce`: about a dozen ways to
  fail over or to return early, each of which has to mark the account, drop one
  permit or both, and record usage or not, also when the client goes away first.
* `RefreshKeepsNewerToken`: the token before the last one cannot be exchanged again, so
  a write that goes back kills the account. A lock, a reload through a cache, an exchange
  and a save that reads and writes the whole row have to fit together; without
  the reload, or with either exception left out, TLC finds a violation.
* `RoutingFollowsToken`: the row and the snapshot each hold an error, written by
  requests and checks that overlap, and routing weighs them by time. A good account
  must come back, and a dead one must drop out, whatever was merged in between.

## 6. Proofs

Each proof module holds for every value of the constants: any number of events,
batches, edges, files, requests and accounts, and any bounds.

| module | theorem | states | assumes |
|---|---|---|---|
| `UsageAccounting_proofs` | `TypeCorrect` | `[]TypeOK` | nothing about `Faults` |
| | `OneCopy` | `[]OneCopyOnDisk` | nothing about `Faults` |
| | `AtMostOnce` | `[]BilledAtMostOnce` | no stranding fault |
| | `Idempotent` | `[]ReplayIsIdempotent` | no stranding fault |
| | `WindowRespected` | `[]NoAttemptWhileSuspended` | nothing about `Faults` |
| | `LedgerImplemented` | `ImplementsLedger` | no stranding fault, no `"patch"` |
| `UsageAccounting_overlay_proofs` | `QuotaIsCovered` | `[]QuotaCovers` | no `"patch"` |
| | `OverlayIsExact` | `[]OverlayIsOutstanding` | no `"write"`, `"seal"`, `"claim"`, `"cancel"` |
| | `JournalIsAccounted` | `[]JournaledIsAccounted` | no `"write"`, `"seal"`, `"claim"`, `"patch"` |
| `UsageJournal_proofs` | `JournalTypes` | `[]TypeOK` | nothing about `Faults` |
| | `SequencesAreUnique` | `[]OneFilePerSequence` | nothing about `Faults` |
| | `ConsumedFilesAreImported` | `[]ConsumedIsImported` | nothing about `Faults` |
| | `WrittenBlocksAreKept` | `[]WrittenIsKept` | nothing about `Faults` |
| | `BlocksOncePerSegment` | copies are at most `rollovers + 1` | nothing about `Faults` |
| | `BlocksImportedOnce` | `[]ImportedAtMostOnce` | `MaxRollovers = 0` or no `"rollover"` |
| `UsageSegments_proofs` | `SegmentTypes` | `[]TypeOK` | nothing about `Faults` |
| | `AcknowledgedIsKept` | `[]AckedIsKept` | nothing about `Faults` |
| | `CatalogIsBacked` | `[]CatalogNamesFiles` | nothing about `Faults` |
| | `LookupsFind` | `[]LookupFindsPublished` | nothing about `Faults` |
| `JournalRelay_proofs` | `TypeCorrect` | `[]TypeOK` | nothing about `Faults` |
| | `DeletedOnlyWhenStored` | `[]RelayedIsStored` | nothing about `Faults` |
| | `LedgerVouches` | `[]LedgerIsStored` | nothing about `Faults` |
| `KeyAdmission_proofs` | `TypeCorrect` | `[]TypeOK` | nothing about `Faults` |
| | `CachedCounts` | `[]CachedUsageCounts` | nothing about `Faults` |
| | `EntriesCurrent` | `[]EntryIsCurrent` | nothing about `Faults` |
| `CodexDispatch_proofs` | `TypeCorrect` | `[]TypeOK` | |
| | `AttemptsDiffer` | `[]EachAttemptAnotherAccount` | |
| | `SlotsHeld` | `[]SlotsAreHeld` | |
| | `Recorded` | `[]RecordedOnce` | |
| `CodexAccounts_proofs` | `TypeCorrect` | `[]TypeOK` | |
| | `LockedWriteKeeps` | `RefreshKeepsNewerToken` | |

*Accounting.* `OneCopyOnDisk` is inductive with `ClaimOnDisk` (the flusher's claim
is a file on disk) and `DiskInv` (the batch in the flusher's hand is on no file,
and a batch on disk is one that was formed). `AtMostOnce` needs more:
`EventsApart` (an event is in one place: not yet sent, sending, queued, buffered,
or in one batch), `ChargeInv` (a charge is at most one, also in the row a patch
has read, and a batch that is charged and still held has its marker) and
`PlaceInv` (while the process serves, no active file holds a batch, and a file in
`consuming/` is the flusher's claim). The last part is the point: the prune guard
is sound exactly because no batch waits outside `sealed/` while the flusher is
between flushes. `StrandingFaults = {"seal", "claim", "peer"}` are the faults that
break it, and the assumption `Faults \cap StrandingFaults = {}` is necessary: with
`Faults = {"crash", "ackLost", "claim"}` or `{"ackLost", "peer"}` TLC finds
`BilledAtMostOnce` violated. Key patches are inside what is proved.

*Refinement.* `LedgerImplemented` shows that a step of `UsageAccounting` is a step of
`RollupLedger` or leaves its two variables alone. Every step is of one of three
kinds: a quiet one charges nothing and may only lose usage (`QuietIsLoss`), an
accepting one takes one event that is outstanding, an applying one bills the batches
it adds to the row, all of them outstanding. `BillsOf` is a sum over the batches that
contain an event; `EventsApart` makes it a sum of at most one term, so that
`BillsAreCharges` reads it off without an induction. Two facts join the invariant of
`AtMostOnce`: `AcceptedInv` (what is buffered or batched was accepted before) and
`ClaimWhole` (a claimed file was read to its end). The assumptions are those of
`AtMostOnce`, because a batch billed twice is no step of the ledger, and no
`"patch"`, because a patch that writes back older totals un-bills usage, which the
ledger does not know. Every other fault is inside: the losses of failed writes and of
dropped handlers are steps of the ledger.

*Overlay and journal.* `QuotaIsCovered` admits every failure of the disk, because
it needs no place for a batch: `CoverInv` says that an event in memory is in the
overlay, and an event of a batch that may still be applied is in the overlay or in
the row. What has to be shown is that no subtraction reaches an event that is still
awaited and not yet in the row. `CommitInv` gives it for the two settled batches (a
marker, a claim past its commit and a hand past its commit are in the row),
`EventsApart` for a failed send and a quarantined file, and `FreshUncounted` and
`EmptyWhenDown` say from where the overlay starts. A patch that writes back older
totals takes usage out of the row after it has left the overlay. It is excluded:
with `{"claim", "patch", "dbFail"}` TLC finds a claim that was applied, but could not
be removed, in neither (without `"claim"` it finds nothing on two events).
The exact forms need the disk: `ShapeInv` says what a crash may leave (a torn or
unsealed active file, an abandoned claim, one batch to a file) and that recovery
has cleared it before the process serves. With it `StoredKept` says what each step
does to the stored batches: a settled claim takes its own away, parking adds the
hand's, a crash in the middle of parking may add it, and nothing else changes
them. `OverlayIsExact` then follows step by step; for `JournalIsAccounted`,
`RetryInv` follows the events of the retry buffer from the hand to the row or the
disk. A file whose replay meets a digest mismatch is quarantined with one batch,
the marked one, which is in the row.

*Usage journal.* Three layers, each inductive on top of the one before.
`NumberedInv`: types, one file per sequence, and the counter above every sequence in
use, claimed or consumed. A start over a root of an older release, which has no
counter, is where this could fail: the counter becomes the highest sequence found
plus one, which exists because such a root has finitely many files (`MaxIsHighest`).
`ImportInv`: an active file is never recorded as consumed; the worker holds one file,
whose blocks before its position are stored (`ClaimInv`); and while recovery copies,
its output has no footer (`OutputInv`). The last one is the subtle part: the worker
may claim an output that is still being written, and imports what it finds, but it
cannot come to its end and so never records it. `KeptInv`: what recovery has copied is
safe without its source (`CopiedInv`), so that removing the source loses nothing,
whether the output is still in `sealed/`, claimed, imported or dropped by then. Each
step of the producer and of the worker is shown to respect these once
(`ProducerStepImports`, `WorkerStepImports` and their like). `BlocksOncePerSegment` is
what the primary key of the active segment gives; a rollover between two imports of a
file makes a second copy possible (section 7), and `BlocksImportedOnce` excludes just
that.

*Segments.* `AckedIsKept` is about five threads and needs the whole structure first
(`StructInv`): who holds the gate, and that nothing runs while the process is down
(`ControlInv`); that two active files differ in their sequence and the file of an
insert stays where it is (`FilesInv`); that two segments with one id, in `pending/`,
the archive, the catalog or the deletion, are the same segment and not empty
(`OneSegmentPerId`); that every sealer has its segment in `pending/` (`SealInv`). On
top of it stand `BackedInv` (the files retention deletes have expired as a whole, so
an unexpired segment of the catalog keeps its file), `PublishedInv` (a sealer that
may remove its pending segment has published it, or it has expired) and `KeptInv`
(the event of an append that will be acknowledged after a second rollover is kept
already). `CatalogKeeps` says that nobody but retention takes a segment out of the
catalog: a sealer that commits a segment again after a crash replaces it by itself.
For the lookups, `LookupInv` says that while the generation is up to date an answer in
the cache, or one on its way there with the current stamp, names the segment of a
published event. A start picks the highest active sequence, or the one after the
segment sealed last; that both exist needs the highest element of a bounded set of
naturals (`HighestNumber`).

*Relay.* `RelayedIsStored` and `LedgerIsStored` rest on two facts. `RequestInv`: the
rows of a handler's file up to its position are stored, all of them once it has
reached `record` or `ok`, whether its edge still waits or not. `EdgeInv`: an edge
that waits has its own file in the request, and one that may remove has all rows
of it stored. That a file has a first block left while its handler imports, and a
last one in the end, needs the least element of a set of naturals (`LeastNatural`,
from the well-foundedness of `<`).

*Admission.* No fact about a cached row is inductive alone. `UnitsAreRecorded`
balances the books: a batch is part of the overlay, and the units of the row, or
those a patch is about to write back, together with the overlay less the batch
never exceed the units recorded. `PatchIsOlder`: a patch never raises the totals.
`EntryCounts` and `FillsCount` say that an entry, and a row on its way into the
cache, lack at most the batch that is committed and not yet invalidated;
`EntryIsCurrent` and `FillsAreCurrent` say the same of the whole row.

*Dispatch.* `PlaceInv` ties `pc` to the account held, the outcome and the guard.
Every step of a request is of one of five kinds: it goes on, takes the key's
permit, takes an account, fails over, or ends (`StepKinds`). Each property is proved
once per kind, with the library's facts about finite cardinalities.

*Accounts.* `RefreshKeepsNewerToken` is about one step and needs the whole way to it:
`CarriesNewest` says that the token a task in a section is about to write (the one
it will exchange, the one in its update, the one in the row it has read) is not
older than the row's, unless the task was misled or overtaken. `Sections` says that
who holds a lock is on that way and never the administrator, `TypeOK` that a process
has one such task, and `Bounded` that no copy of a token is newer than what was
issued, so that an exchange moves forward. A write in another section or outside of
any makes the others `overtaken` by definition; what has to be shown is that there is
no third way for the row to change.

*Only model-checked.* All liveness: `AcceptedIsBilled`, `ParkedIsBilled`,
`OverlayClears`, `EveryBlockIsImported`, `PendingIsPublished`, `ExpiredIsDeleted`,
`EverySealedIsRelayed`, `BarredIsRefused`, `EveryRequestEnds`, `RoutingFollowsToken`
(TLAPS does not prove properties under fairness). Every invariant and every action
property of a passing run is a theorem. Where a theorem excludes a fault, section 7 and the arguments above
name the cases in which its property fails. Nothing is proved about what the
functions of the source compute on unbounded data.

Constants carry named assumptions (`FaultsAssumption`, `MaxSequenceAssumption`,
`SizesAssumption`, `JournalAssumption`, `RelayAssumption`, `KeyAssumption`,
`DispatchAssumption`, `AccountsAssumption`, ...), which TLC evaluates in every run.
Two of them are there for the proofs alone and say what any installation satisfies: the
root an upgrade finds holds finitely many files (`JournalAssumption`), and there is an
event at all (`SoughtAssumption`; an idle append and an idle lookup name one).

## 7. Observations about the code

One run shows that the code does not do what a document says:

* `key_deleted`: `delete_admin_key` (`postgres/keys.rs:1240`) deletes the row and then
  invalidates by a hash that is looked up in that row, so the cached entry of a
  deleted key answers until its TTL (six hours, give or take a fifth).
  `2026-05-16-llm-access-request-valkey-cache-design.md:500` requires that writes
  "correctly invalidate or update the relevant cache keys". `BarredIsRefused` shows
  that the key is refused in the end.

The others are seen in the models too. They are reproduced by the `Faults` given
here, or named by a variable of the model, and have no run of their own.

*Accounting and database.*

* The prune guard (`runtime.rs:1099`) counts `sealed/` only. A claim whose restore
  failed stays in `consuming/`; its marker may be pruned; the next start replays
  and bills it again (`BilledAtMostOnce` with `{"crash", "ackLost", "claim"}`), where
  `traits.rs:1044` promises "exactly once by `batch_id`". Markers are pruned by
  every node by its own backlog, with the same effect (`{"ackLost", "peer"}`).
* `patch_admin_key` (`postgres/keys.rs:1109`) reads the usage totals and writes them
  back with the patched key: a batch applied in between is erased, and its marker
  keeps it from being applied again. Its three upserts share no transaction, and a
  failure of the second or third returns before the invalidation (`keys.rs:1220`).
* A failing append to the backlog leaves usage in memory only while its events
  still reach the journal (`JournaledIsAccounted` with `{"dbFail", "write"}`).
  Usage accepted but not yet applied is lost by a crash, and usage sent after the
  shutdown drain is lost although the send succeeded (both are `Lose` steps of the
  ledger).
* When the acknowledgement of a batch is lost, its retry finds the marker, applies no
  delta and invalidates nothing (`postgres/usage.rs:608`), while the overlay is
  settled: a cached row lacks the batch until its TTL.
* A quota check reads the row, then the overlay (`runtime.rs:1964`): a batch that is
  applied and settled in between is missed by this one check. Requests already
  admitted overshoot the quota (`entry.rs:116`), by as many as are in flight.

*Journal and relay.*

* Rows are unique by `event_id` inside the active segment only. A worker that dies
  between import and record repeats the import; a rollover in between stores the
  rows twice (`ImportedAtMostOnce` with `{"rollover", "workerCrash"}`). The
  relay has the same effect with two overlapping deliveries, or one that is cut off
  (`usage_worker.rs:918`), where the design of 2026-05-17 (line 374) promises
  idempotent delivery; the model's `stored` is a set and does not count it.
* The worker lists `sealed/` and renames the oldest file; retention in the other
  process may have deleted it. The error ends the import thread
  (`bin/llm-access-usage-worker.rs:227`), as every error does, and the process
  serves on.
* A file that cannot be read is claimed again after each lease and each restart,
  before all later files. Recovery itself leaves such a file: an error inside its
  scan returns by `?` past the clean-up (`recovery.rs:262`). Blocks are imported
  before the footer is seen.
* An error of `send()` on the edge (`usage_worker.rs:502`) ends the relay loop with
  the claim in `consuming/`; an error answer, or no known primary, restores the
  claim and ends the loop as well. The design (line 354) has the edge restore and
  retry. A file the primary rejects, for its digest or for axum's default limit of
  2 MB, is posted again by every restarted loop, before all later files. The
  client waits fifteen seconds for the import of a whole file.
* An edge never records what it relayed: a crash after the deletion is harmless, one
  before it posts the file again, and the ledger answers.

*Segments.*

* Orphan pruning reads the catalog's paths and lists the archive later
  (`retention.rs:156`): a segment renamed and published in between is deleted,
  although the catalog names it. The model collects these in `raced`, the only
  excuse in `AckedIsKept` and `CatalogNamesFiles`.
* A sealer gives up after five attempts (`segment.rs:308`); nobody tries again until
  the next start (`abandoned`). Rows of a pending segment are found by no lookup
  until it is published; a listing may show a row of a segment that is moving
  twice.
* A rollover that fails after it created the new file leaves two active files
  (`"initTorn"`): the process goes on with the old path, the next start picks the
  highest sequence. A crash between the rename and the new file, with an empty
  catalog, makes the next start reuse the sequence, against
  `llm-access-tiered-usage-analytics.md:253`.
* A crash while the catalog is seeded from the archive (`segment.rs:642`) leaves it
  non-empty: the other archives are never seeded, and orphan pruning deletes them.
* An error of the bump of the generation is logged and ignored: locators, or the
  absence of one, stay valid until their TTL (`behind` excuses them).

*Dispatch.*

* A stream's guard exists only once its body was polled: a client that disconnects
  before leaves no record of what the upstream has answered. Nor does a client that
  goes away while a complete response is being recorded, or a body that breaks off
  while it is read (502).
* A request cancelled inside `finish_success` records anew from the guard's drop;
  the first call's share of the overlay leaks (the fault `"cancel"` of
  `UsageAccounting`).
* The provider client has no timeout (`client.rs:34`): a silent upstream holds its
  permits for as long as the client waits. Waiting for a permit is polling without
  a queue, so nobody is served in turn.
* The session's affinity is remembered at 2xx headers, before the preflight of the
  stream may still fail the account over.

*Accounts.*

* The lock of a refresh is a static of the process (`codex_refresh.rs:21`), and some
  writers of the row do not take it: an administrator's refresh (`admin.rs:2315`) and
  patch (`codex_account.rs:893`), and a request that saves a 401 after its forced
  refresh (`codex_refresh.rs:182`). All of them, and other nodes, read the row and
  write the whole of it back, so any of them may put an exchanged refresh token over
  its successor (`overtaken`).
* The reload under the lock is answered by Valkey (`routes.rs:599`). After a missed
  deletion or a late fill it is the old token, which is exchanged again, fails, and
  is saved with that error over the new one (`misled`).
* A refresh whose save fails, or whose process dies first, has lost the only refresh
  token that works (`codex_refresh.rs:104`). The account stops taking requests
  (`RoutingFollowsToken`) until an administrator imports it again.
* A forced refresh compares the reload with the route the task was given
  (`codex_refresh.rs:81`), not with the token that was rejected: if the first call
  used a token from a reload, the forced one gets the same token again, and the
  account is marked terminal without a refresh.
* The comment at `llm-access-core/src/store/routes.rs:106` has terminal account errors
  block routing "until credentials are refreshed". A check that fails for another
  reason hides the row's terminal error until the next one
  (`codex_routing.rs:163`); a transient error of a refresh overwrites it; a preserved
  good snapshot gets a newer time than the row (`codex_status.rs:880`).
* Every save of a token or of an error sets the account's status to active
  (`codex_refresh.rs:229`), which enables an account disabled meanwhile.

## 8. Not modelled, and the plan

The proofs still worth having, most important first:

1. That `segment` and `archived` of `JournalWorker` and the batches of the relay are
   what `UsageSegments` and `UsageJournal` provide: an abstract store between them, as
   `RollupLedger` is one for the accounting.
2. `AtMostOnce` with a bound instead of an assumption: with stranding faults, how
   often a batch may be billed (once per stranded claim or pruned marker).
3. The safety half of the liveness arguments, as invariants: that the flusher, the
   sealer and the relay are never in a state with work and no step to take (with the
   guards written out, since `ENABLED` cannot be reasoned about).

Parts that could be modelled next: the due times of the refresh scheduler
(`refresh_scheduler.rs`) and the refresh of Kiro's tokens, the spacing of request
starts by time, the dispatch loops of Kiro and Anthropic (variants of the one that
is modelled, with other tables), the task states of the blog's workers, the jobs
of the media service. The number of runs is kept small on purpose: a new component
takes one, and replaces one whose question another run has come to answer.

Not covered: the timer branch of the flusher's `select!` that steady traffic keeps
resetting (the model's timer may always fire); a machine crash that loses pages
not yet synced; the interrupted seeding above, which the model excuses.

Left out for good: protocol conversion between Codex, Anthropic, Kiro and OpenAI
formats (pure functions on JSON without a small instance), which with the frontend
and the handlers of both products is most of the source; admin and public
handlers that are one database transaction each; the LanceDB queries; the
command-line tools; mail and embedding wrappers; and the wire formats and
checksums of the journals, which enter the models as readable or torn blocks.
