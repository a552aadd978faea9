# Verification of crm-bisync

crm-bisync keeps records of two CRMs in step. It polls both, takes webhooks from
both, decides per record which side changed, writes to the other side and
remembers what it wrote. This directory holds TLA+ modules of its core, the TLC
configurations that check them, and TLAPS proofs about nine of them. Paths below
are relative to the repository root; `PROJECT.json` maps every definition to the
lines it models and lists the hazards the properties are about.

## The system

| Part | State | Operations | What is hard | Correct when |
|---|---|---|---|---|
| Pipeline (`internal/engine/pipeline.go`) | none of its own; rows in the store | process, create, reconcile, write, commitPair, processDelete, dropLink | network calls in the middle of a decision; lost answers; a crash or a failing row between any two rows | one person is one record per side; linked records end up equal; a deletion is carried over and nothing else is deleted |
| Keyed mutex (`queue.go`) | table of mutexes with use counts | lock, the unlock it returns | entries dropped while others wait | one holder per key; every call returns |
| Work queue and pool (`queue.go`, `run.go`) | ready and delayed lists, depth, two token channels | Submit, Drain, worker, runTask, Stop, WaitIdle, Replay | sleeping workers, retries, shutdown at any moment | no task lost, run twice or forgotten asleep |
| Polling (`poll.go`), watermark (`internal/watermark`) | one time per peer and kind | Poll, PollAll, Submit, Commit, Cycle; Since, Advance | records change during the read; the peer's clock; a peer that cannot be read | the mark never passes work that is neither done nor kept; nothing is queued before both sides are known |
| Webhooks (`webhook.go`), delivery rows (`typed.go`) | one row per delivery and change | serveWebhook, ingest, SeenDelivery | redelivery while the first is served, between its row and its queueing; a row whose work was lost | after a 202 no change is passed over; every change is applied |
| Conflict (`internal/conflict`) | none | Resolve | four situations, five policies, overrides | edits are not lost where the policy says so; sides settle |
| Idempotency (`internal/idem`) | in-flight marks and results | Begin, Commit, Abandon | retry after an unknown outcome; expiry | a write happens once |
| Origin (`internal/origin`) | tags of our own writes | Record, Classify | echoes, late and reordered; expiry | no loop, no swallowed change |
| Identity (`internal/identity`) | key rows and owner rows, with links | Resolve, Index, Deindex | rows read, changed and written back by a poll and a worker at once; ambiguity | an indexed record is found; a link is the answer |
| Rate limiter (`internal/ratelimit`) | tokens, rate, block | Reserve, Wait, Allow, Reject, Success | callers that arrive together, that give up, that were queued before a rejection | the quota and the peer's Retry-After are kept; the rate recovers |
| File store (`internal/store/file.go`) | memory, log, snapshot | Put, Delete, Take, Sweep, Compact, Close, OpenFile | a crash between two file operations | a write that returned has landed |
| Overlay (`internal/store/overlay.go`) | written rows, tombstones | Get, Put, Delete, Close | a row of the base removed, written again, removed again | a dry run sees its own state and leaves none |
| Doctor, validation, config, drivers, CLI, reports, fake peer | | | | see "Not modelled" |

The engine's goroutines share the queue, the keyed mutex, the rate limiters and
the store. Polls and webhooks submit tasks; workers (and the caller of Cycle, in
Drain) run them through the pipeline, under the keyed lock; each pass reads and
writes the store and calls a peer. Cycle waits for the tasks of its polls and
then moves the mark; the daemon polls and never moves it.

## Modules

| Module | Models | Used by |
|---|---|---|
| `KeyLock` | what callers of the keyed mutex rely on: one lock per key | refined by `KeyedMutex`, and by the passes of `Pipeline` |
| `KeyedMutex` | `keyedMutex` with its table, counts and heap objects | `MCKeyedMutex`, `KeyedMutexProofs` |
| `Conflict` | `conflict.Resolve` as operators | `PairSync`, `Pipeline` |
| `PairSync` | one linked pair under every policy, a whole pass in one step | `MCPairSync`, `SyncProofs` |
| `Pipeline` | a pass cut at each network call, at the lock and between the rows of write, commitPair and dropLink, with identity, idempotency and origin; PollAll in front of it | `MCPipeline`, `SyncProofs` |
| `Watermark` | Poll, Submit, Commit and the tracker, for one peer and kind | `MCWatermark`, `WatermarkProofs` |
| `WorkQueue` | queue, pool, Cycle's waiting half, WaitIdle, Replay, Stop | `MCWorkQueue`, `WorkQueueProofs` |
| `Delivery` | webhook requests, delivery rows and the daemon's loop up to the queue | `MCDelivery`, `DeliveryProofs` |
| `RateLimit` | one bucket and the goroutines that call a peer through it | `MCRateLimit`, `RateLimitProofs` |
| `Overlay` | the store as the engine sees it, real or in a dry run | `IdentityIndex` |
| `IdentityIndex` | Index and Deindex row by row over `Overlay` | `MCIdentityIndex`, `IdentityIndexProofs` |
| `DurableMap` | what the engine relies on from its store | refined by `FileStore` |
| `FileStore` | `store.File`, file operation by file operation | `MCFileStore`, `FileStoreProofs` |

The modules meet at their edges. `Pipeline` uses the lock as `KeyLock` describes
it (`Free`; proved, see `PassesImplementKeyLock`), its rows as `DurableMap` describes them (a row written is there after
`Crash`), and an index update as one step, which `IdentityIndex` takes apart.
`WorkQueue` leaves open what a task comes to, `Pipeline` leaves open how often it
is retried. `Watermark` takes what happens to a polled version as one step,
`WorkQueue` shows when that step counts as taken. `Delivery` ends where a change
is in the queue or out of it; a call that `Pipeline` makes is made after a finite
wait, which is what `RateLimit` is about.

How state and actions correspond to the code:

- `Pipeline`. `rec` is what the peers hold, `link`, `snap`, `tags`, `inFlight`,
  `results`, `index`, `reviews` and `dlq` are the collections of the store,
  `job[w]` holds the local variables of worker `w`'s pass, `pass` those of PollAll.
  `ReadPeer`, `ReadPeerFails` and `SubmitAll` are PollAll and the Submit that
  follows it; `Sight` is a poll of a single record or a webhook. `Start` is
  `process` up to and including `hydrate`; `Enter` runs under the lock to the first
  read of the far side; `Recreate` and `Reconcile` are the two outcomes of that
  read; `BeginWrite`, `Upsert` (or `UpsertLost`, `UpsertDropped`, `UpsertRejected`),
  `Tag` and `Settle` are `write`; `CommitPair` is `commitPair` and `DropRow` is
  `dropLink`, one step per row; `Delete...` are `processDelete`. Where several rows
  of the store make one step (`Enter`, `BeginWrite`, `DeleteEnter`, a record's keys),
  a worker on the same person waits for the lock meanwhile; but a store error or a
  crash can come between them. `Stops` lists what may then be
  left: a tag taken, a review row written, a mark cleared or set, a tag set, a last
  row written and reported as failed, and, with the fault `index`, any part of a
  record's keys. `StoreFails` ends the pass there and retries the task, `Crash` ends
  everything. `Expire` is the end of a row's time to live. A
  digest is modelled by the record it digests: `SnapshotHash` covers exactly the
  mapped fields and keeps a missing field apart from an empty one.
- `KeyedMutex`. A section under `k.mu` is one step, `m.Lock()` and `m.Unlock()`
  are steps of their own. A mutex is a heap cell that may be allocated again when
  nothing refers to it.
- `WorkQueue`. Each method of the queue is one step together with the token it
  sends; receiving a token is another. Backoffs appear as the order in which
  retries come due (`Elapse`).
- `Watermark`. Time is a number, the peer's stamps may lag ours by `Skew` and lead
  it by `Ahead`.
- `Delivery`. `req[h]` is a request in `serveWebhook`, with the changes still to be
  ingested; reading a delivery row (`Look`), writing it (`Put`) and submitting the
  change (`Submit`) are three steps, between which another request of the same
  delivery may do anything. A delivery without an identifier (`Anonymous`) has no
  rows and goes straight to `Submit`. `hooked`, `taken` and `torn` are history:
  changes queued, rows written without an error, rows whose request ended before it
  queued the change.
- `RateLimit`. Times are ticks relative to now, tokens and rates whole units, so
  that the model needs no horizon. `Due` is the instant at which a wait is over and
  `WaitReturns` the goroutine running again, then or any number of ticks later.
  `level` is a history variable: how far the calls let go exceed the quota, over
  every stretch of time that ends now. It counts the instants the bucket gives out:
  when a goroutine runs is up to the scheduler, and two that run late may call
  together.
- `IdentityIndex`. `job[c]` is a call of Index or Deindex with the key row it read;
  `held` is what the index should know. The four variables of the store are those
  of `Overlay`.
- `FileStore`. `log` is the file as processes see it, `stable` what the last
  fsync made durable, `snaps` the snapshots a crash may leave; `Images` is what a
  crash may leave of the log. `owed` is a history variable: what a restart may
  find under each key.

Four modules have a variable that never changes after Init and that says under
which circumstances the system runs: `conf` (the mapping) and `env` (initial
records, ways in which changes arrive, faults, who edits and deletes) of
`Pipeline`, `dep` (pool, waiters, events) of `WorkQueue`, `setting` (callers and
bodies) of `IdentityIndex`. One run thereby asks the same question of several
circumstances, each small enough to be explored to the end.

## Runs

All twelve are in `PROJECT.json`. Sizes are distinct states.

| Run | Bounds | Shows |
|---|---|---|
| `keyed_mutex` | 3 workers, 2 keys, 3 cells (1.5 thousand) | `MutualExclusion`, `LockGranted`, the inductive `IInv`, refinement of `KeyLock`. Three cells let a key get another mutex than it had. |
| `pair_sync` | 2 fields, 2 values and null, 2 edits, 15 resolvers (30 thousand) | both sides' snapshots agree; `field_level` and `review` lose no edit; the pair settles |
| `pipeline_create` | 2 workers, 1 person, 2 tasks; one environment with every fault and no edits, two with edits on both sides, by poll or by webhook, two in which both peers hold the person before the first PollAll, one in which one does and a peer cannot always be read (875 thousand) | `NoDuplicates`, `LinksPaired` |
| `pipeline_both` | 1 worker, 3 things people do, fresh values, 3 mappings, tags and results that expire (185 thousand) | `Converges`, `SourceUntouched` |
| `pipeline_delete` | 1 worker, 3 things people do; edits and a deletion with rejected calls or lost deletes and expiring marks; edits with rejected and dropped calls and expiring marks; edits with crashes and store errors (1.3 million) | `QuietMeansInStep`, `LinksPaired`, `NoStrayDelete`, `LinkIsTheAnswer` |
| `watermark` | 2 records, 2 versions, clock to 7, lag and lead 1, 2 failures (120 thousand) | `NothingSkipped`, `CaughtUp`, the inductive `IInv` |
| `work_queue` | the cycle with 2 workers, a replayed dead letter and process exit; with 1 worker, Stop and cancel, and a webhook or a waiter; with both and no end; 2 attempts (88 thousand) | `OnePlace`, `DepthIsWork`, `MarkBehindWork`, the inductive `IInv`; every handle is released, Cycle and WaitIdle return, the workers leave |
| `file_store` | 2 keys, 4 calls, 2 faults, compaction after 2 ops (315 thousand) | `RecoversOwed`, `ReplayIsMemory`, the inductive `IInv`, refinement of `DurableMap` |
| `rate_limit` | 2 callers, burst 1, 2 rejections with a hint of 5 ticks or none (696 thousand) | `WithinQuota`, `RetryAfterKept`, `RateRecovers` |
| `delivery` | a delivery of 2 changes and one without an identifier that carries one of them, 2 requests at once, a store error, a crash (1.4 million) | `AckedMeansQueued`, `RedeliveryQueuesNothing`, `EveryChangeApplied` |
| `identity_index` | 2 records, 2 keys; one goroutine and records that take keys over, or a poll and a worker on a record each; cut short, and dry (3.0 million) | `Findable`, `IndexExact` |
| `pipeline_reread` | 1 worker, no fault, 2 edits, PollAll over two peers in use | violated: see below |

Why the bounds are enough to matter: the errors these properties are about need
two workers on one record, a retry, or a crash and what follows it. Two workers,
two attempts and two faults reach each of them, and for each property a mutant of
the code (in `PROJECT.json`) is caught inside the same bounds. `MaxUserSteps`,
`MaxTasks`, `MaxRecs`, `MaxCreates`, `MaxEdits`, `MaxTime`, `MaxVersions`,
`MaxFailures`, `MaxCalls`, `MaxFaults`, `MaxRejects`, `MaxErrors` and `MaxCrashes`
are the bounds; none is in the code. Deadlock checking is off where a system that
has nothing left to do may stop, or where a bound ends every behaviour. Worker
symmetry is used in `pipeline_create` only, where no property is temporal.

What the passing runs of `Pipeline` leave out on purpose, because the property
then fails, is under "Known deviations". `QuietMeansInStep` and `Converges` are
checked for one worker, for edits that never write a value again (`Fresh`), and for
events without a body, whose record is read when the pass starts: a body queued by a
poll is what `pipeline_reread` is about. `pipeline_create` has two workers, bodies
and values that come back. `NeverBackwards` is in no passing run: it fails with a
second worker as well as with a body that is read again. No run has a deletion
together with a crash or a failing store, and none but the deviation `HalfIndexed`
has the fault `index`.

Fairness:

- `KeyedMutex`: strong on `m.Lock()`, because a Go mutex hands itself to a waiter
  that has waited too long; weak on unlocking.
- `PairSync`, `Watermark`: weak on the pass and on the cycle. The daemon's timer
  keeps them coming.
- `Pipeline`: weak on every worker; strong on reporting an unseen change and on
  starting a record's task. The queue in the code is unbounded and served in
  order, the model's is a bounded set, and strong fairness makes up for that.
- `WorkQueue`: weak on goroutines, on backoffs and on the cycle; whoever ends the
  context also calls Stop, as `main.go` does by defer. Nothing makes the process
  exit or a webhook arrive.
- `Delivery`: weak on the daemon's poll and on the workers. The peer need not deliver
  anything, and a request need not come to its end.
- `RateLimit`: weak on time, on reserving, on a wait being over and on waking up; strong on a call being accepted,
  since the peer rejects finitely many (`MaxRejects`) and failures of other kinds
  do not go on for ever. Nothing makes a caller stay: it may give up at any time.

## Findings

One run shows a disagreement between the code and what it says of itself.

- `pipeline_reread`: `internal/watermark/watermark.go:13-14` calls a record that is
  read twice because of the overlap free, as its snapshot shows that nothing
  changed. The event carries the body the poll read. If the pass over it comes
  after a newer edit was synced, the body differs from the snapshot and counts as
  the near side's edit (pipeline.go:186): the older value is written over the
  newer one. One worker and no fault suffice.

### Known deviations

Properties of this directory are violated outside the bounds of the passing runs.
Each line names a configuration, the constants to change and the property that
then fails (to be put in place of the configuration's own). In every one the code
does what the trace says.

| Start from | Change | Fails | In the code |
|---|---|---|---|
| `MCPipelineReread` | `MaxUserSteps = 1` | `QuietMeansInStep` | after such a revert both writes come back as echoes and are dropped; the pair rests out of step |
| `MCPipelineReread` | `Environments <- Unread` | `NoDuplicates` | poll.go:165: when one peer cannot be read the other's events are queued all the same; the person is not in the index yet and is created again |
| `MCPipelineReread` | `Environments <- HookFirst` | `NoDuplicates` | main.go:250 serves webhooks before line 266 polls for the first time |
| `MCPipelineReread` | `Environments <- LostEnvironment` | `NoDuplicates` | the payload digest is part of the idempotency key (idem.go:59): the answer to a create is lost, the record is edited, and the retry has another key |
| `MCPipelineReread` | `Environments <- MarkRunsOut` | `NoDuplicates` | idem.go:89: the in-flight mark of a create whose answer was lost expires before the retry |
| `MCPipelineReread` | `Environments <- NoFaults`, `Fresh = FALSE`, `Values = {0, 1}`, `MaxUserSteps = 4` | `QuietMeansInStep` | a value that goes from A to B, to A and to B again derives the key of the first write (pipeline.go:520-521); the stored result stands for the call and nothing is sent |
| `MCPipelineReread` | `Environments <- NoFaults`, `Workers = {w1, w2}`, `MaxUserSteps = 3` | `NeverBackwards` | pipeline.go:107 reads the record before line 126 locks it; a worker with an old body writes it over a newer value |
| `MCPipelineReread` | `Environments <- NoFaults`, `Twins = TRUE`, `EditFields = {}`, `MaxCreates = 2`, `MaxRecs = 3`, `MaxUserSteps = 3` | `LinkIsTheAnswer`, `LinksPaired` | identity.go:6; a twin that is not linked matches the linked counterpart by key and takes its row over |
| `MCPipelineReread` | `Environments <- CrashOnDelete`, or `StoreOnDelete` | `QuietMeansInStep`, `LinksPaired`, `NoStrayDelete` | the process or a row fails between the two rows of a link (typed.go:66) and the record is deleted: the deletion finds no link in its direction and the counterpart stays, or it is linked anew and the row left over leads a late deletion to a record that is in use |
| `MCPipelineReread` | `Environments <- HalfIndexed` | `NoDuplicates` | the store fails after `releaseKeys` gave up a record's keys (identity.go:133): its counterpart's change finds no match and creates the person again |
| `MCPipelineBoth` | `Fresh = FALSE`, `Values = {0, 1}` | `Converges` | an edit that writes what the engine wrote there before is taken for its echo (origin.go:143-149) |
| `MCPairSync` | `Drops <- OneDropped`, `ResolverSet <- FieldLevelOnly`, `MaxEdits = 3` | `PartialReadIsNoDeletion` | `conflict.diff` (conflict.go:528) looks values up in a map, so a field the peer left out reads as nil; mapping.go:263-266 says a partial response must not look like a deletion |
| `MCWatermark`, with `Spec` | `PageSize = 1`, three records, `Exact = TRUE`, `Configured = 1`, `StartTime = 3`, `MaxTime = 5`, `Skew`, `Ahead`, `MaxFailures = 0` | `NothingSkipped` | offsets into a listing sorted afresh for each page (fake.go:293) |
| `MCWorkQueue` | `Deployments <- StopOnly` | `StopKeepsMark` | Stop releases the handles of abandoned tasks, Commit takes them for finished; run.go:145-147 calls it safe |
| `MCWorkQueue` | `Deployments <- StopOnly` | `IdleSeenThroughStop` | `close` sets the depth to 0, the task in flight takes it to -1 (queue.go:177, 124), and WaitIdle waits for 0 |
| `MCWorkQueue` | `StoreFails = TRUE` | `MarkBehindWork` | run.go:85-88 logs a dead letter it could not write and completes the task |
| `MCWorkQueue` | `LeftOver = {i1}` | `MarkBehindWork` | a dead letter of an item the mark has passed is replayed: its row is deleted while the task is in memory only (main.go:317-320) |
| `MCWorkQueue` | `Deployments <- DryRun` | `CycleReturns` | a dry run (plan.go:125) has no workers to take a retry |
| `MCWorkQueue` | `Deployments <- OneWorker`, `Waiters = {x, y}` | `IdleSeen` | one token for all callers of WaitIdle (run.go:206) |
| `MCWorkQueue` | `Polled = {}` | `ReplayKeeps` | `dlq --replay` (main.go:317-320) queues in memory, deletes the row and exits |
| `MCFileStore` | `Faults = {"append", "torn"}` | `RecoversOwed` | what a short write left is glued to the next line (file.go:228-232) |
| `MCFileStore` | `Faults = {"fsync"}` | `DeletedStaysGone` | a put whose fsync failed is in the file and not in memory, so Delete logs nothing (file.go:370) |
| `MCRateLimit` | | `DebtHasCallers` | a caller that gives up leaves its debt in the bucket, and Reject keeps a debt whose callers are gone (ratelimit.go:190) |
| `MCRateLimit` | | `BlockIsKept` | a caller already waiting when the peer asks us to stay away calls when its old wait is over (ratelimit.go:63-64) |
| `MCRateLimit` | | `AlwaysWithinQuota` | sleeps computed at one rate end in another: after a rejection earlier and later sleepers meet |
| `MCDelivery` | | `QueuedOnce` | two redeliveries both find no row (typed.go:231) |
| `MCDelivery` | | `AnswerFollowsQueue` | a redelivery finds the row written (typed.go:244) and is answered 202 before the first request has queued the change (webhook.go:111) |
| `MCDelivery` | | `MarkFollows` | the daemon (main.go:266) polls and never commits; its mark does not move |
| `MCIdentityIndex` | `Settings <- Alone` | `FindableThroughout` | Index removes a record's keys and adds them again; in between it is not found, while a poll (poll.go:81) holds no lock |
| `MCIdentityIndex` | | `NothingStale` | a call cut short between key row and owner row leaves a key the next call does not know of (identity.go:147) |
| `MCIdentityIndex` | `Settings <- Shared` | `Findable` | two goroutines read one key row, each writes back its own list (identity.go:186) |

Two further comments do not match and have no run: nothing outside the tests calls
`Compact`, which file.go:512-513 says happens on shutdown; and a kill followed by
a machine crash can undo a line that `OpenFile` has replayed, because it does not
fsync what it read.

## Proofs

`KeyedMutexProofs`, for every finite set of workers and any keys and cells:

- `KeyedMutexInvariant`: `Spec => []IInv`. Mutual exclusion is not inductive, as it
  says nothing of the table. `IInv` adds that every user of a key has the mutex in
  the table (`UsersShareEntry`), no mutex serves two keys (`EntriesDistinct`), a
  mutex is locked exactly by the worker between lock and unlock (`OwnerHolds`), and
  counts are the number of users (`TableMatchesUsers`), which is why an entry is
  dropped only when nobody waits. One lemma per action.
- `KeyedMutexExclusive`: `Spec => []MutualExclusion`, from it.
- `KeyedMutexRefinesKeyLock`: `Spec => ImplementsKeyLock`. Acquire maps to Take,
  Unlock to Drop, the rest to stuttering.

`WatermarkProofs`, for any records and times, under two assumptions stated in
the theorems: the listing is one page (`PageSize = 0`) and the overlap covers the
peer's lag and lead (`Skew + Ahead <= Overlap`):

- `WatermarkInvariant`: `Spec => []IInv`. `NothingSkipped` alone does not survive
  Commit. `IInv` adds that a cycle reads from where a poll started now would
  (`PollFresh`) and that whatever a working cycle did not find was changed after
  it read (`FoundOrLater`), so its stamp is within the overlap of the new mark.
- `WatermarkSkipsNothing`: `Spec => []NothingSkipped`.

The second assumption is a finding of the proof: the default overlap must exceed
the largest lag plus the largest lead of the peer's clock, where the code speaks
of rounding only.

`FileStoreProofs`, for any finite set of keys, any values, and any number of calls
and faults, under one assumption stated in the theorems: no append leaves part of
a line behind (`"torn" \notin Faults`). The code does not hold up without it
(see "Known deviations").

- `FileStoreInvariant`: `Spec => []IInv`. `RecoversOwed` speaks of all the images a
  crash may leave, and a step of a call changes which these are. `IInv` says where
  the call is: its op is the last line of the log before the fsync and the only
  thing owed after it (`LineLast`); memory shows what is owed but for that op
  (`MemoryOwed`); the log is cut only when every snapshot a crash may leave is the
  one just written (`SnapshotFirst`); only a last line is ever torn (`TornLast`).
  The lemmas below it say what one more line does to a replay (`ReplayedAppend`),
  what a cut does (`ReplayedCut`), that a torn last line does nothing
  (`ReplayedTorn`), and how a step of a call changes the images a crash may leave
  of the log (`ImagesChange`, `ImagesSynced`).
- `CrashRecovers`: `Spec => []RecoversOwed`; `FilesReplayToMemory`:
  `Spec => []ReplayIsMemory`, since the files as they are make up one of the images.
- `StoreIsDurableMap`: `Spec => ImplementsDurableMap`. Writing a line maps to Offer,
  its fsync to Land, the assignment to memory to Show, Close, kill and crash to
  GoDown, OpenFile to ComeUp, the calls and the file operations of a compaction to
  stuttering.

`WorkQueueProofs`, for any finite pool, items and deployments:

- `WorkQueueInvariant`: `Spec => []QueueInv`, without further assumptions. `QueueInv`
  joins the ready and the delayed list to one line without repetitions and says
  that the line and the runners' hands partition the unfinished tasks (`Places`);
  counting alone, as `OnePlace` does, would not tell which task Take removes.
- `TaskInOnePlace`: `Spec => []OnePlace`; `DepthCountsWork`: `Spec => []DepthIsWork`.
- `ReleasedMeansSettled`: `Spec => []IInv`, `MarkStaysBehind`:
  `Spec => []MarkBehindWork`, under two assumptions: dead letters can be written
  (`StoreFails = FALSE`), and what is polled is not a dead letter of an earlier
  process (`Polled \intersect LeftOver = {}`). Both are needed, see "Known
  deviations". `Settled`, the invariant behind it, is that a released handle of a
  polled item stands for an item handled or kept; Cycle has waited on every handle
  of its batch when it commits.

`DeliveryProofs`, for any deliveries, contents, requests at once, errors and crashes:

- `DeliveryInvariant`: `Spec => []IInv`. A row and the queueing of its change are two
  steps, and another request may act on the row in between, so `AckedMeansQueued`
  cannot say that a 202 comes after the queueing (`AnswerFollowsQueue` does, and is
  violated). It says that each change was queued, or is about to be by the request
  that wrote its row (`Submitting`), or lost that request to a crash or a failing
  write (`torn`): together `Kept`. `IInv` adds that a row stands for a change that is
  kept (`SeenKept`) and that what a request is done with is kept (`TodoOrKept`); for
  `RedeliveryQueuesNothing`, that a row lasts as long as its delivery may come again
  (`TakenSeen`) and as long as a request serves it (`BeforeSeen`).
- `AcknowledgedIsQueued`, `RedeliveryIsDropped`: the two invariants.

`RateLimitProofs`, for any finite set of callers, any burst, hints and rejections:

- `RateLimitInvariant`: `Spec => []IInv`. `WithinQuota` looks at the calls let go; what
  decides it is when the waits will be over. Until the first rejection every call let
  go or waiting was paid for (`Paid`), the calls due in the next n ticks keep to
  the quota for every n (`DuePaid`), whoever has to wait m ticks is part of the debt
  (`BehindDebt`), and sleepers are a token apart (`Spaced`). For `RetryAfterKept`:
  what the peer asked is in the block and in the wait of whoever came after
  (`HintHeld`).
- `QuotaKept`: `Spec => []WithinQuota`; `RetryAfterHonoured`: `Spec => []RetryAfterKept`.
- The assumption `Unit % Configured = 0` is about the grain of the model: the tick is
  chosen so that at the configured rate a token falls due on a tick. On a coarser
  grain (`Unit = 40`, `Configured = 32`) a sleeper wakes up to a tick late and
  `WithinQuota` fails by that rounding, which says nothing of the code.
- `IInv` quantifies over all n and is out of TLC's reach as it stands; it was
  checked with n bounded by the longest wait.

`SyncProofs`, first part, about `PairSync`, for any fields, values, resolvers and
edits:

- `PairSyncTypes`: `PairSpec => []PairTypeOK`, also when reads come back incomplete.
- `BothSidesRecorded`: `PairSpec => []SnapshotsAgree`. The lemmas say what `Resolve`
  returns, for each of the four situations and every policy: well-formed writes
  (`ResolveWrites`), which, unless it escalates, make both sides the same record
  (`ResolveSettles`).
- `EditsSurvive`: `PairSpec => NoEditOverwritten`, an action property, when peers
  return whole records (`FullReads`); from `ResolveLosesNothing`: what a lossless
  resolver writes to a side has no field in it that was edited there.

`SyncProofs`, second part, about `Pipeline`, for any fields, values, mappings,
environments (with every fault, unless said otherwise) and number of workers. The
module's assumptions say what the constants are: key fields are mapped and the
answer to ambiguity is one of three, as config validation has it
(`IdentityAssumption`); records people enter are records (`PeopleAssumption`);
people create no more records than there are identifiers (`BoundsAssumption`);
the markers are not records, keys or workers (`MarkersAssumption`). TLC evaluates
them in every run of the pipeline.

- `PipelineInvariant`: `Spec => []PipeInv`, and from it `PipelineTypes`:
  `Spec => []TypeOK`. Types alone are not inductive: that a link row gets a ref rests
  on the pass knowing its counterpart by then. `PipeInv` therefore says, cut by cut,
  what a pass has in hand: a counterpart on the other side from reconcile on, an
  empty identifier only while the create is out (`JobsSound`); at least one write
  before it calls, a create alone; rows left to drop while it drops. It adds that
  links and stored answers cross sides (`LinksCross`, `ResultsCross`), because a
  pass takes its counterpart from either. One lemma per action.
- The later theorems ask what a step does to a pass, and `NextMoves` answers it once:
  a worker's pass ends, goes on under the lock it has, takes its lock, or begins.
- `PassesHoldTheirKey`: `Spec => []LocksHeld`. A pass holds its key from the lock to
  its last row, across all network calls, and no two hold the same.
- `PassesImplementKeyLock`: seen through the keys that are held (`Turn`), the passes
  take and give back as `KeyLock` has it, and a crash empties the table;
  `PassesImplementKeyLockAlive`: without crashes that is `KeyLock`'s specification.
  `KeyedMutexRefinesKeyLock` shows the mutex to implement the same module, so what
  `Pipeline` assumes of the lock (`Free`) is what the code provides.
- `OneWayLeavesItsSource`: `Spec => AwayUntouched`, an action property. A pass gets
  past the direction gate only if its far side is written into, and all it calls
  lies there or, when a reconcile writes back, on a side written into as well.
- `NothingIsDeletedUnasked`: `Spec => []NoDeletes`. Where nobody deletes, every
  identifier handed out belongs to a record that is there, so no event, re-read or
  link leads a pass into `processDelete`.
- `SourceIsLeftAlone`: `Spec => SourceUntouched`. Its hypothesis is a finding of the
  proof: for a side that is read-only because no field may be written there, while
  the sync itself goes both ways, nobody may delete on the other side, since
  `processDelete` (from pipeline.go:575) asks for the link and for no field, and
  deletes. With the direction leading away from the side nothing is assumed. The
  mappings and the environment of `pipeline_both` satisfy the hypothesis.
- `CreatesAreMarked`: `Spec => []CreatesHeldOnce`, `CreatesAreNotRepeated`:
  `Spec => CreatedOnce`, while in-flight marks and answers do not expire
  (`MarksKept`). A create that is out has its mark and no answer, and is out once;
  when its call is over, answered, lost or cut off by a crash, no pass calls it
  again under its key. That is what queue.go:189-197 and idem.go:102-107 are for.
  It is less than `NoDuplicates`: the key contains the payload, and an edit between
  two attempts gives the create another key ("Known deviations").
- `PipeInv`, `LocksHeld`, `NoDeletes`, `CreatesHeldOnce`, `CreatedOnce`,
  `AwayUntouched` and the refinement were checked by TLC on the instances of
  `pipeline_create`, `pipeline_both` and `pipeline_delete` before they were proved.
  `StopsKeepKeys` carries `CreatesHeldOnce` and `CreatedOnce` over steps that end half
  way: what is cleared there is the stale mark of an update or of a delete, never that of a create. An
  in-flight mark that stops no create (`NoRecheck`) breaks `CreatedOnce`; a lock
  nobody waits for (`AlwaysFree`) breaks `LocksHeld` and the refinement.

`IdentityIndexProofs`, for any records, keys and goroutines, under one assumption
on the settings, `Unshared`: one goroutine indexes at a time or no two records may
have a key in common, and nobody indexes an older body than another goroutine is
indexing for the same record. Without it an update of a key row is lost ("Known
deviations").

- `IndexInvariant`: `Spec => []IInv`. Both properties look at records at rest. `IInv`
  adds what a call under way is good for: what it read of a key row still stands,
  its own record aside (`EntryStands`); a key of its body is in place or some call on
  the record still adds it (`Promised`), so that the last one to return leaves all of
  them; a key of an earlier body is in the owner row and among those the call has
  yet to release (`Releasing`). Several goroutines may be on one record.
- `IndexedIsFound`: `Spec => []Findable`; `IndexFindsNothingElse`: `Spec => []IndexExact`.
  A dry run adds that the base stays as settled as it was (`BaseSettled`), and one
  lemma on the overlay (`RowWritten`): Put and Delete change one row of what is seen.
- `IInv` was checked by TLC on the instance of the run (3.0 million states), and with
  two goroutines on one record with three bodies.

Only model-checked: all liveness (fairness is out of the prover's reach), and of
`Pipeline` the invariants `NoDuplicates`, `LinksPaired` and `QuietMeansInStep` and the
action properties `NoStrayDelete` and `LinkIsTheAnswer`. These five hold in the
environments listed with the runs and fail in others ("Known deviations"): a theorem for every environment would be false, and one that assumes
those environments would say little more than the runs.

## Not modelled

- Doctor, validation and construction of the engine: read-only, or before any
  goroutine runs. Configuration and drivers: parsing and wiring. Reports and
  flags: printing.
- Mapping paths and transforms: conversions of single values, without state. What
  matters to the engine, which fields a read leaves out and a write may carry, is
  in `Conflict` and `Pipeline`.
- Encoding of rows, envelopes of the review and dead-letter queues, Discard, and
  the commands that list.
- The near-miss marker of `origin`, `Stats` and all counters; `watermark.Reset` and
  `idem.Lookup`, which nothing outside the tests calls.
- List, Sweep and expiry in the overlay; the recorder of planned changes.
- Expiry within the memory store: readers of expired rows see none, which is how
  `Pipeline` and `Delivery` model the end of a row's life.
- Several connectors with a bucket each (`ratelimit.Set`): buckets do not touch one
  another. Two processes on one state directory (a command next to a daemon): the
  directory is not locked, and `FileStore` has one process.
- Two things `Pipeline` contains and no property isolates: an edit of the far record
  between reconcile's read and its upsert is overwritten (pipeline.go:286), which an
  interface without conditional writes cannot prevent; and a deletion locks the ref
  where an update locks the fingerprint (pipeline.go:572), so that the two run at
  once, with the same effect as the unlocked read of line 107.
- `newest_wins` in `Pipeline`, which keeps no modification times; `PairSync` covers
  it.

## Plan

Done, in this order: keyed mutex with its proof, conflict and pair, pipeline,
watermark with its proof, work queue, file store; then rows of dropLink and
PutLink, store errors and expiry in the pipeline, PollAll, rate limiter, webhook
deliveries with the daemon, overlay and identity index, deployments of the queue.

Then the proofs: file store, work queue, deliveries, rate limiter, pair, identity
index, and the pipeline: its invariant, its lock, what is written where, its
creates.

What could follow is the single-worker, single-person case of `LinksPaired` and
`NoDuplicates` for any number of faults, which needs an invariant on who holds which
identity key at every cut.
