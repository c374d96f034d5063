# A verification project for pansou

pansou searches netdisk links over Telegram channels and about a hundred site plugins,
collects results for a list of keywords into PostgreSQL, checks the collected links, keeps
the keyword list in step with external sources, and lets an admin change its sources while
it runs. This directory holds TLA+ models of the parts of it that are concurrent or survive
failures, the TLC configurations that check them on small instances, and proofs that TLAPS
checks for instances of any size.

Paths below are relative to the root of the repository. `PROJECT.json` lists the runs,
the source lines each definition stands for, the mutants that show that each property can
fail, the findings and the hazards.

## Inventory

| component | state | operations | what is hard | module |
| --- | --- | --- | --- | --- |
| link check queue, `collection/linkcheck.go` | `pending` per platform, `queued` set, platform states (in use, streak, circuit), results channel, life cycle | `Enqueue`, `dispatch`, `claimNext`, `releasePlatform`, `writeResults`, `Start`, `Stop` | workers, writer, scheduler and callers share one mutex and a wake channel of one place; shutdown with work under way | `LinkCheckQueue`, `CheckJobs` |
| collection runner and run store, `collection/runner.go`, `storage/runs.go` | `started`, `active`, `recovered`, wait group, `persistMu`; `collection_runs`, `collection_run_items` | schedule loop, manual and scheduled batches, resumed items, external batches, recovery, `Stop` | several batches against one store; transactions that commit and report an error; crashes | `CollectionRunner` |
| search admission, `service/scheduler/scheduler.go` | slots, background tokens, waiting count | `Acquire`, `Admission.Release` | lock-free channels and counters, contexts that end while waiting | `SearchAdmission`, `FairSlots` |
| search execution, same file | places per request and class, resizable limiter and circuit per source | `Execute`, `allow`, `record`, `ConfigureSource` | three nested semaphores, hanging sources, limits changed under way | `SearchExecution` |
| source configuration, `sourceconfig/`, `source_runtime.go`, `storage/source_configs.go` | stored version, current snapshot, reference counts, `retired`, `closed` | `Acquire`, `Release`, `Update`, `Publish`, `Close`, restart | atomics without a lock, a database commit between two steps | `SourceSnapshots` |
| keyword synchronisation, `keywordsync/`, `storage/keyword_api_sync_runs.go`, `keyword_api_sources.go` | runs with leases and revisions, iterations, status of a source | enqueue, claim, begin and complete an iteration, finalize, fail, interrupt, renew, recover | lease expiry against late writes, changed configuration, several processes | `KeywordSync`, `SyncJobs` |
| search flight and hybrid search, `service/search_flight.go`, `hybrid_search.go` | singleflight group, replays, budgets | `executeSearchFlight`, `searchContextUncoalesced` | followers, replay expiry, an inherited deadline with a grace period | `SearchFlight` |
| usage limiter, `usage/limiter.go` | two windows per user | `AllowWithConfig` | window edges, a configuration read before the call | `RateLimiter` |
| usage recorder, `usage/recorder.go` | bounded queue, batch, life cycle | `Start`, `Record`, `Close`, `run` | close against record and against cancellation | `UsageRecorder` |
| resource store, `storage/resources.go`, `resource_retention.go` | check status, candidate, times | `CompleteResourceChecks`, due query, retention | confirmation of negative results, a batch that rolls back | `ResourceChecks` |
| proxy pool, `proxypool/`, `storage/proxy_pool.go` | nodes in memory and in the database, cooldowns, leases, outcomes | `Acquire`, `completeLease`, `Refresh`, probes | a listing read before a lock, a bounded outcome queue | `ProxyPool` |
| disk cache, `util/cache/disk_cache.go` | files, metadata, accounted size | `Set`, `GetWithTTL`, `Delete`, `cleanExpired`, `evictLRU`, reload | the size is accounted in several places | `DiskCache` |
| plugin credentials, `credential/service.go`, `storage/plugin_credentials.go` | envelope, revision, status | `Refresh`, `Replace`, edits, health, delete | read-modify-write against other logins and admins | `Credentials` |
| main cache, `service/search_cache.go`, `util/cache/enhanced_two_level_cache.go`, `sharded_memory_cache.go` | an entry per key in memory and on disk | `mergeAndStoreCachedSearch`, `Get` with its promotion, `SetBothLevels`, eviction, flush, restart | merges take a lock that reads, evictions and the flush do not take; two levels written one after the other | `SearchCache` |
| asynchronous plugins, `plugin/plugin.go`, `service/search_service.go` | `MainCacheKey`, response cache, worker slots | `AsyncSearchWithResult`, workers, refreshes, merges | one instance shared by concurrent searches; results that arrive after the answer | `AsyncPlugin` |
| mihomo, admin overview cache, plugins, handlers, users, statistics, migrations, web | | | input and output over the above | not modelled |

How they interact. An HTTP search passes the rate limiter, joins a flight, takes an
admission, leases a source snapshot, and runs its sources through `Execute`; its plugins
answer from their caches or in the background and merge late results into the main cache;
its usage is recorded, and its result may be recorded as an external batch. The collection
runner does the same from its own loop, as a background search, and hands the new links to
the link check queue, which reads due links from and writes results to the resource store
(`ResourceChecks` models what one batched write means, `LinkCheckQueue` that it succeeds or
fails). The keyword synchronisation fills the list of keywords that the runner collects.
Admin requests replace the source snapshot, change the limits of the scheduler, edit
credentials and proxy nodes. Shutdown (`main.go`) cancels everything, stops the runner,
then the usage recorder, the keyword synchronisation and the caches, waits two seconds for
HTTP requests, closes the source snapshots and last the store.

What makes each component correct is stated as properties below; the list of hazards in
`PROJECT.json` ties each of them to the line where it bites.

## Modules

Every component has a module with its state, one action per operation (or per atomic
operation, where the code has no lock), its properties and, marked `Mutant`, the faulty
variants of actions used to test the properties. The `MC` modules add the model values
and symmetries of the runs.

**LinkCheckQueue** models `collection/linkcheck.go`. A critical section under `q.mu` is one
action; channel operations and probes are actions of their own. A job is a resource; its
platform is a function from resources to platforms (`PlatformOf`). The wake channel is a
Boolean, and a sleeping worker needs it or the end of a cooldown to look again, as in
`claimNext`. Cooldowns end nondeterministically. A probe succeeds, fails, or is cancelled by
Stop; a write succeeds or fails. Left out: metrics, backlog samples and wording.

**CheckJobs** is its abstract specification: candidates that wait in the line of their
platform, are being checked, have a result that is not settled, or are unknown. One step each
accepts, begins, ends and settles a candidate, and a restart forgets the lines once nothing is
under way. In the refinement mapping of `LinkCheckQueue` the lines are `pending`, the checks
the jobs of the workers between claim and release, and the unsettled results those that wait
to be sent, lie in the channel or lie in the writer's buffer; a platform is tripped while its
circuit is not closed. Wake-ups, contexts, counters and the life cycle are stutters.

**CollectionRunner** models `collection/runner.go` with the transactions of
`storage/runs.go` it calls. Every transaction is one action that commits, fails, or commits
while the caller sees an error for the callers in `FaultyCallers`; with `CanCrash` the
process may also die, which loses the runner's memory and keeps the database.
The recovery of running items is two actions, because its two statements run at READ
COMMITTED and a batch may mark an item in between; `reset` is what the first has locked, and
the history variable `torn` names the batches that this has left behind.
`MaxDisruptions` bounds failed calls, shutdowns and crashes together, `MaxRequests` the
manual and the external requests, `MaxBatches` the batches. Callers of `StartManual` and
`RecordExternal`, the schedule loop, the batch goroutine and `Stop` are separate actors.

**SearchAdmission** models `Acquire` and `Release`. Channels of tokens are counters with a
line of waiters: Go hands a freed place of a channel to the first sender that waits. The
waiting count is an atomic that is added to and, if it is too large, taken back.

**FairSlots** is its abstract specification: the holders of slots and one bounded line.
`SearchAdmission` instantiates it with the callers that have a slot (handed over or taken) and
the blocked senders of the channel. A caller that has passed `TryActive` and not yet reached
the select has no place in line yet, so the promise is about those that are blocked.

**SearchExecution** models `Execute` of several concurrent requests, each with its tasks; a
task passes the places of its request and of its class, the circuit (`allow`), the resizable
limiter, runs, and is judged by `record`. `ConfigureSource` changes limit and threshold at
any time; the history variable `raised` names the sources whose threshold went up while their
circuit was open. A source may end with success or failure, or, in `HangingSpec`, never.

**SourceSnapshots** models `sourceconfig/snapshot.go` and `Update` in `service.go`. The
reference counting uses atomics and no lock, so each atomic operation is an action. A
snapshot is its version. `early` is a history variable that remembers in which situation a
reader counted itself, and `lost` the versions whose commit was reported as an error; no
action reads them.

**KeywordSync** models the tracked path of `keywordsync/history.go` over the transactions of
`storage/keyword_api_sync_runs.go`. A transaction is one action, since each takes the row
locks of the run and its source; a call commits, fails, or commits and reports an error. A
lease is `none`, `live` or `expired`, and carries its holder: the random token of a claim is
what makes a later claim a different holder. A lease expires by itself when nobody works on
its run and, as a disruption, under a live worker whose heartbeats are late. Heartbeats that
succeed leave no trace. A source of a revision in `Unlimited` has `iteration_unlimited`: its
runs go on until iterations make no progress, and only the current iteration and what the
earlier ones amounted to (`past`) are kept of them. A process may stop (`Close`) or crash and start again. `MaxRev`
bounds the edits of a source, `MaxRequests` the requests for runs, `MaxDisruptions` the
failures, crashes and late heartbeats together.

**SyncJobs** is the abstract specification of that component: jobs of a source that are
queued, running, applied or dropped, one queued and one running at most, results applied
once and in the order the jobs were made. `KeywordSync` instantiates it with the refinement
mapping `Phase` of a run's status; workers, leases and iterations disappear.

**SearchFlight** models `executeSearchFlight` at its two levels. Callers are clients of a
hybrid flight; a hybrid execution that misses the database is itself a client of the live
flight, with its own budget inherited. `singleflight.Group` is external and modelled by what
it does. An answer is only whether it was cut by a deadline, an error or none: one that lacks
a source is stored and replayed like a complete one (`search_flight.go:93`). The replays of a
flight are numbered, so that `CompareAndDelete` can tell them apart; `aged` says whether the
last one has reached its age.

**RateLimiter** models `AllowWithConfig` with seconds and minutes as a counter and a minute
of `SecondsPerMinute`; a request carries the limits it was authenticated with, which an
administrator may change before the call. `passed` and `decided` are history variables.

**UsageRecorder** models `Recorder`: a critical section is one action, and the worker's
select may take any ready case. `recorded` counts what `Record` has been given.

**ResourceChecks** models `completeResourceCheckTx` in its batched transaction: results
carry the time of their probe and may be written late, in any order and grouped in any
batch, and a batch with a deleted resource is rolled back whole. Statuses are grouped by what
the code asks of them: `pending` and `valid` stand for those that need a confirmation before
they turn negative, `unsupported` for those that do not, `invalid` for the negative ones.
`evidence` is a history variable of the negative results written since the last other one,
and `excused` of the resources whose last other result was `unsupported`.

**ProxyPool** models leases, cooldowns and outcomes in memory and their copies in the
database, and `Refresh` in its two steps: the listing and the rebuild under the lock. A
failure chooses whether and how long a cooldown follows, which abstracts streaks and
back-off. Which available node `Acquire` prefers is left open.

**DiskCache** models one shard: `Set` with its subtraction and eviction, hits that move an
entry in the LRU order, expiry, clean-up, and the reload of metadata at start, which may
restore any order.

**Credentials** models one credential and its writers: a login that happens before
`Refresh` reads the revision, one retry after a conflict, edits, status records without a
revision, and deletion. `intended` is a history variable of what each replacement has read.

**AsyncPlugin** models the searches that share one plugin instance: the field
`MainCacheKey`, the response cache, workers with and without a slot, refreshes, and the key
under which each merges into the main cache. The findings of the scraper are a choice, and so
is what a search finds in the main cache of all that was merged there. The load-modify-store
of `recordCacheAccess` is two actions.

**SearchCache** models one key of the main cache: `mergeAndStoreCachedSearch` under its lock,
`Get` of the two levels in its three steps (memory, disk, promotion), `SetBothLevels` in its
two, evictions and the flush at shutdown with the write they owe, expiry of either level,
writes to disk that fail before, after or in the middle of the file, reads that meet a write
and get a part of it (`Torn`, which cannot be decoded and ends a merge with an error), and
restarts. An entry is its set of results; whether it fits into a memory shard depends on
`MemoryRoom`. A merge is counted when its store to disk has succeeded. `merged` and `losses`
are history variables that start anew whenever neither level has the key. The merges of the
Telegram aggregate (`search_service.go:1595`) go through the same functions; the entries of
single channels are replaced and never merged.

**SearchEntry** and **Stores** put components together that share no variables: four gates
of a request, and five components behind it. A behaviour chooses one component and takes its
steps, so the state space is the sum and not the product of theirs, and nothing is lost for
properties that each speak of one component. They are not compositions in which the parts
influence one another: in the code these components do not read each other's state either.
The components that do interact are modelled together: the runner with its store, hybrid and
live flights, plugin and its cache, merges and the two levels of the main cache, pool and node
table, source runtime and its row.

## Runs

Passing runs:

| run | instance | distinct states | shows |
| --- | --- | --- | --- |
| `link_check_queue` | three resources of one platform, two workers, a buffer of two, both producers, stop and restart | 1,150,098 | no resource is queued twice, counters are exact, one probe on an opened circuit, a stopped queue is drained; the queue implements `CheckJobs`: order within a platform, one check and one settlement per accepted candidate, limits, restarts |
| `link_check_liveness` | two workers, a platform limit of one, batches of two that may fail, fair | 74,027 | no wake-up is lost: every accepted job is finalized, and a patient Stop returns |
| `collection_runner` | two keywords, two batches, tick, admin and an external caller, two disruptions (failed calls, shutdowns, crashes), fair | 343,088 | batch and items agree unless an item was marked between the two statements of a recovery; a worker's item is its own until a failed recording has asked for recovery; Stop waits for everybody; what is finished stays so; every item is finished in the end, also after a crash |
| `search_execution` | two requests with three tasks on one source, limit and threshold changed under way, sources that may hang, fair | 187,512 | the limiter is exact, a half-open mark has a task that will clear it unless the threshold was raised over an open circuit, Execute returns all results or its context has ended, and it returns |
| `source_snapshots` | two readers, two updaters, three versions, one crash | 657,642 | a lease counted before the snapshot could reach zero is on an open snapshot, the runtime lacks of the database's versions only those whose commit was reported as an error, no rollback, a retired snapshot nobody works with is closed |
| `keyword_sync` | two processes, one source, two iterations, two revisions of which one is unlimited, two requests, one disruption, fair | 552,831 | the workers implement `SyncJobs`; the source's status agrees with its runs; a run's outcome is that of its iterations; a claim uses the current configuration; every run ends, unless an unlimited one makes progress for ever |
| `search_entry` | admission: three interactive and two background callers, two slots, two places in the queue; flights: two callers, two keys, replays that expire; limiter: three requests, two pairs of limits, one edit, three seconds a minute; recorder: a queue of one, batches of two, four events | 166,414 | the admission implements `FairSlots`, so that no slot idles while someone waits and nobody is overtaken, and a waiter is served; the background leaves a slot; nobody is cancelled by another's disconnection; a fresh replay is not taken away in place of an expired one; a caller returns although the live search hangs; no window passes more than its limits; no event is lost uncounted and none stays in memory |
| `stores` | checks: two resources, an hour of two units, four units of time; pool: one node, two borrowers, one refresher; disk: two keys, sizes 1 and 2, capacity 3, four sets; credentials: two writers, two logins, two edits; main cache: two merges, a reader, a save, two results, room for one | 858,698 | an invalid status rests on two negatives an hour apart, or on one after `unsupported`; leases are counted exactly across a stale refresh and cooldowns are served; the accounted size never exceeds the files; no replacement overwrites one it has not seen; what was merged stays unless one of four events puts an older version in place |

The instances are the smallest in which the hazards occur: two of everything that can
race, three where a pair may interfere with a third (searches against one limiter, candidates in a line,
versions for a rollback, a minute longer than two seconds), and every bound reached (queues
fill, limits are exhausted, circuits open, the last version is stored). Symmetry is used only
in runs without liveness. Each property has a mutant in `PROJECT.json` that violates it on
the run's own instance, so no instance is too small for its property to fail.

Runs that show a disagreement between the code and what the repository says of it:

| run | shows |
| --- | --- |
| `collection_recover_active` | recovery after a failed external record takes back an item that a batch is collecting |
| `source_lease_closed` | a search runs on a closed snapshot |
| `credential_refresh` | an older login overwrites a newer one: `Refresh` reads the revision after its login, and re-reads it after a conflict, so its compare-and-swap protects other edits (`NoUpdateLost` holds) but not the order of logins |
| `plugin_cache_key` | late results for one keyword are merged into the main cache entry of another, because the key travels through a field of the shared instance |

`CHECK_DEADLOCK FALSE` is given where the system may rest: a process that has been shut
down, a schedule with nothing to do, bounds used up.

## Observations without a run

Met while modelling; they concern single lines, or behaviour no text of the repository
contradicts.

- `runBatch`: when `CompleteItem` has committed but reports an error, the item is missing
  from the tally and `CompleteBatch` overwrites the status that the store had derived.
- `RecoverRunningItems` resets items in one statement and batches in a second one. An item
  that a manual batch or a recording marks in between stays running, and its batch, when it
  has a pending item left, becomes pending; it stays so until the next transaction on that
  batch. `BatchInSync` allows exactly these batches (`torn`).
- Half-open probe: when the threshold of a source is raised while its circuit is open, a
  second probe may give up at the limiter and leave `halfOpen` set, which bars the source,
  since only `record` clears it. `ProbeInFlight` leaves out the sources in `raised`.
- A swap of the source configuration that commits while its answer is lost makes `Update`
  discard the candidate (`sourceconfig/service.go:113`): the database is ahead of the runtime
  until the next update or restart. `RuntimeInSync` allows exactly the versions in `lost`.
- A run of a source with `iteration_unlimited` has no last iteration
  (`keywordsync/service.go:396`): it ends when the configured number of consecutive iterations
  made no progress. In the normal stop mode any non-empty answer is progress (line 373), in the
  other one an answer with a keyword that is not stored yet. An API that always gives such an
  answer keeps the run and its renewed lease going for ever, and since a process has one worker
  loop its other sources are not synchronised meanwhile. `EveryRunEnds` allows exactly this.
- A resource whose last result was `unsupported` is dead on one negative result
  (`storage/resources.go:1002`; `storage/link_check_policy_test.go:72` expects it).
- The main cache can lose merged results in four ways, each of which refutes `MergedStays`
  when it is not recorded in `losses`: a search reads the file, a merge stores both levels, and
  the search promotes the old version over the new one, from which the next merge goes on; the
  goroutine that saves an evicted version writes it after a later merge; an entry that has
  grown too large for a memory shard is refused there, and the older one stays in front of the
  new file until it expires; a merge whose read of the file fails, or comes after the file was
  dropped and a search had just promoted it, starts from nothing.
- A read that meets the write of a file may promote a part of it; the key then answers with a
  decoding error, and refuses merges, until that entry leaves memory.
- `DiskCache.Set` subtracts the size of the entry it replaces and `evictLRU`, which still
  finds that entry, may subtract it again: the files of a shard can exceed its budget, never
  the reverse (`DiskLosesNoSpace`).
- `finalUpdateTracker` marks an update before it is made and is never emptied: a failed
  update is not repeated, and results whose entry expired are not sent again while their
  number and their first and last identifiers are the same.
- `recordCacheAccess` stores back what it loaded, and `refreshCacheInBackground` stores the
  union with the response seen at its start: both may overwrite a newer completed response
  in the plugin's cache.
- The status of a credential is recorded without the revision that was checked, so the
  result of a check can land on a newer secret.
- A proxy node that is disabled while leased is marked healthy again by a successful
  outcome; `Acquire` does not pick it, because its `enabled` column stays false.
- A forced refresh of the admin overview joins a refresh that is already under way and
  returns its answer.

## Fairness

Weak fairness is assumed for steps of goroutines that have started and are not blocked:
the Go scheduler runs them. It is never assumed that somebody calls an operation, that
an admin acts, or that a crash happens. A probe or a transaction ends because the code
gives it a timeout; budgets and tickers are timers. In `search_execution` sources may
ignore their context, and in `search_entry` the live search behind a flight may hang: no
fairness is assumed for their ends. A released slot goes to the first waiter, which is how
Go channels treat blocked senders. `keyword_sync` assumes that a stopped or crashed process
is started again (`restart: unless-stopped` in `docker-compose.yml`) and that an unattended
lease expires; it does not assume that an API ever runs out of answers. `EveryRunEnds` counts on the bounds of requests and disruptions, after which
nothing disturbs the workers.

## Proofs

Every invariant, action property and refinement of the passing runs is also a theorem, for
every value of the constants. The theorems are in eight modules beside the ones they are
about; each rests on one inductive invariant, or a few, that TLC checked on the run's
instance before it was proved. The assumptions are the `ASSUME`s of the models (finite sets,
positive limits, identifiers that do not collide), which the runs evaluate.

**LinkCheckQueueProofs**
- `QueueTypes`, `QueueCounters`, `QueueSingleProbe`: types; a platform's in-flight counter is
  the number of workers that probe it; an opened circuit has at most one probe. The invariant
  (`PoolInv`) relates half-open mark, counter and circuit, and says that a candidate waits in
  the list of its own platform.
- `QueueNoDuplicates`: `NoDuplicateJob` alone is not inductive, because `Enqueue` asks only
  the set `queued`. `JobsInv` adds that everything in a list, with a worker, in the result
  channel or in the writer's buffer is in that set.
- `QueueDrained`: a writer that is gone has left nothing, and nobody can bring it anything.
- `QueueRefines`: the queue implements `CheckJobs`. `PoolInv` gives the limit and the single
  probe, `JobsInv` that a job moves from one place to exactly one other; for the buffer it has
  to say that `queued` is exactly what is in these places, not only that it contains them, as
  `Enqueue` counts `queued` and `CheckJobs` the places. A `Start` maps to a restart only because
  the last generation was drained.

**CollectionRunnerProofs**. Some thirty actions change the run store by six transactions
(`Transaction`), and `StoreInv` is proved from these.
- `BatchesInSync`: what `finalizeRunTx` computes agrees with the items (`AggregateAgrees`),
  no item belongs to a batch that was not created, and what the first statement of a recovery
  has reset nobody else touches before its commit.
- `FinishedStaysFinished`: an action property, from the same invariant.
- `StopWaits`: `Counted` says who may be where (the guard has exactly one holder, `persistMu`
  too, nothing runs in a process that is down) and that the wait group is the loop, the holder
  of the guard and the recordings, added up.
- `ItemsOwned`: beyond the guard it needs that a manual batch past its recovery has `recovered`
  set until a failed recording, so that a tick at `ensureRecovered` finds nothing to do, and
  that a recording's item is in a batch no internal worker is on (`Work`).

**KeywordSyncProofs**
- `SyncRefines`: the workers over the tables implement `SyncJobs`. Initial states map to
  initial states; each transaction of the tables (`Transaction`) maps to a step of a job or a
  stutter. It needs `RunsOrdered`: the queued run of a source is its newest, and nothing newer
  than a running run was applied.
- `SourcesStayInSync` and the action property `ClaimsAreCurrent` follow from `WorkersOK` (what
  a worker may assume of its variables) and `TablesOK`.
- `OutcomesHold`: a worker's counters are the iterations it has seen end, while the run is
  still its own.

**SourceSnapshotsProofs**
- `NeverRollsBack`: an action property; the version an update stores is newer than the one in
  force, because the manager's lock is held from the build to the swap.
- `RuntimeFollows`: an update between its commit and its swap holds the lock, and one whose
  answer is lost leaves its version in `lost`; a later update starts from the stored version
  and brings the runtime to its own.
- `SafeLeasesOpen`, `RetiredGetsClosed`: `LeaseInv` says that a count is the number of readers
  that have counted themselves and not left, that only a retired snapshot is closed, that nobody
  is on the way to close the snapshot of a safe lease, and that somebody will still look at a
  retired snapshot that is open.

**SearchExecutionProofs**
- `LimiterCounts`, `ResultsArrive`: for any requests, tasks, sources and changes of the limits.
- `HalfOpenHasProbe`: unless its threshold was raised meanwhile, a tripped circuit has a streak
  of at least the threshold, and past a cooldown no task is between the record of its outcome
  and its release.

**SearchAdmissionProofs**
- `SlotsNeverIdle` (`NoIdleSlot`, which the run has only through the refinement),
  `ForegroundKeepsSlots`: each counter of the scheduler is the cardinality of
  a set of callers, the line holds every waiting caller once, and a line that is not empty
  means that all slots are taken.
- `AdmissionRefines`: the admission implements `FairSlots`. The fast path takes a slot only when
  the line is empty, which is `SlotsNeverIdle`; a background caller holds a token from before it
  has a place until after it has none; and `LineInv` says that those let into the queue, blocked
  or on the way there, are at most `SearchQueue`, although the waiting count may exceed it while
  callers take their addition back.

**SearchEntryProofs**
- `FlightForeignCancel`, `FlightReplays`: a hybrid execution is a client of the live flight
  only while it searches live, nobody disconnects it, and it goes without an answer only past
  its deadline; the entry of a flight is never newer than its last replay, an older one that a
  client has seen expired has another number, and a fresh last replay is the entry.
- `LimiterKeepsLimits`: while all requests of a window were decided with the same limits, the
  limiter's state is that of these limits and counts what has passed.
- `RecorderAccounts`: a recorder accepts only while its worker still reads, and a worker that
  has drained the queue has left nothing.

**StoresProofs**
- `DeadIsConfirmed`: a candidate is as old as a negative result that still counts, and a
  resource that is shown as unsupported is excused.
- `CompareAndSwapHolds`: what a call has read is no newer than the row, and is the row where
  the revisions agree.
- `LeasesCounted`, `CooldownsServed`: no listing is from the future, the counts are the
  cardinalities of the leases, and who owes a cooldown has it in memory.
- `NothingUnmerged`: `MergedStays` speaks of the level that is read and is not inductive. While
  nothing is lost, both levels have all that was merged, the memory level also what the merge
  between its two stores adds, and the base of a merge has all of it, which the lock keeps so
  until the merge is over (`NothingLost`). What savers and readers hold may be older; it counts
  as a loss when they store it.
- `DiskKeepsSpace`: the counter alone is not inductive, because replacing and evicting subtract
  what the metadata says. `DiskInv` adds that a file has the size its metadata gives (an entry
  may have lost its file), and `Set` is followed through its two subtractions: subtracting an
  entry twice only lowers the counter. A sum over keys is the cardinality of a set of units of
  space (`Space`), so that what happens to it follows from unions of disjoint finite sets. It
  assumes a finite set of keys, a capacity in `Nat` and positive sizes.

Only model-checked: the liveness properties `QueuedIsFinalized`, `StopCompletes`,
`EveryItemFinishes`, `ExecuteReturns`, `EveryRunEnds`, `WaiterIsServed`, `CallerReturns` and
`UsageSettles`, because fairness and `ENABLED` are out of the prover's reach.

## Plan

What could follow:

- an abstract specification of the run store, which `CollectionRunner` could be shown to
  implement as `KeywordSync`, `SearchAdmission` and `LinkCheckQueue` do theirs;
- the violations that are documented as findings hold under a condition (no failed recording,
  no late lease, one login at a time, one keyword per instance); `OwnedUntilAsked` and
  `SafeLeaseIsOpen` state it for two of them, and `Credentials` and `AsyncPlugin` still lack
  such a property.

## Not modelled

The map covers a small share of the repository's lines, because most of them are not the
kind of code a model speaks of. The plugins under `plugin/` and the link checker in
`service/check_service.go` are about 60% of the implementation: each builds requests
to one web site and picks links out of HTML or JSON. They have no protocol among themselves;
what they share with the core is modelled (`AsyncPlugin`, the outcome of a probe), and their
content is a nondeterministic choice. A model of them would restate the parsing of foreign
pages. Of the rest:

- the delayed cache writes (`util/cache/delayed_batch_write_manager.go`,
  `global_buffer_manager.go`) are never constructed in production;
- request decoding, statistics, users, SQL migrations and page queries are input and output
  or single statements whose meaning is the database's;
- encryption is out of the reach of a model checker;
- mihomo is a configuration file and calls to an external controller, one at a time;
- ranking, filtering, link extraction and serialisation are pure conversions over data that
  the models abstract;
- the admin overview cache and the metrics are only read by the admin page.

`PROJECT.json` gives the status and the reason for each component.
