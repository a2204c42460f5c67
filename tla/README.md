# A TLA+ verification of fast-admin

fast-admin is an administration back end: a NestJS monorepo with one application
(`apps/admin`) and two libraries (`libs/aspen-core`, `libs/aspen-fram`), over MySQL
(TypeORM), Redis, BullMQ and MinIO. Most of it is forms over tables. The parts with
behaviour of their own are the Quartz module (scheduled tasks), the event buffers
between the HTTP layer and the database, the discovery of APIs and dictionaries at
start-up, uploads, the department tree, the cache decorators, and the forms that look
before they write. This directory holds TLA+ models of those parts, the TLC configurations
that check them, and proofs for TLAPS.

In this file a path such as `quartz-bull-service.ts` is under
`src/apps/admin/biz/src/module/quartz/service/`, `sys-…` under `…/module/sys/`,
`upm-…` under `…/module/upm/`.

## 1. Inventory

| Component | State | Operations | Interacts with |
|---|---|---|---|
| **Quartz execution** (`quartz-bull-service.ts`, `redis-tool.ts`, `quartz-handler-share.ts`) | `quartz_task` row, `quartz_task_log` rows, Redis lock per task, BullMQ jobs | `processJob`, `triggerTaskNow`, `runWithTimeout`, `tryLock`/`unlock` | BullMQ (jobs, retries, stalled jobs), MySQL, Redis, registered handlers |
| **Quartz administration** (`quartz-task-service.ts`, `quartz-bull-service.ts`) | the row; job scheduler or delay job in Redis | `save`, `edit`, `delByIds`, `changeEnable`, `runNow`, `syncTask`, start-up `syncEnabledTasks` | calls the execution part; shares row and BullMQ with its runs |
| **Quartz categories** | `quartz_task_category` | `save`, `edit`, `delByIds` | referenced by tasks |
| **System log buffer** (`sys-log-event.ts`, `sys-log-service.ts`) | pending queue, flush in flight, timer; `sys_log` | event handler, flush, drain at shutdown | fed by the log decorator through the event emitter |
| **API discovery** (`sys-api-event.ts`, `sys-api-service.ts`) | pending queue, debounce timer, flush; `sys_api`, `sys_api_tag_rel` | event handler, flush, batch synchronisation | fed by `TagService` when an instance starts |
| **Dictionary discovery, dictionaries** (`sys-dict-event.ts`, `sys-dict-service.ts`) | the same for `sys_dict`, `sys_dict_item` | the same, and CRUD | fed by the dictionary decorator |
| **File configuration and categories** (`sys-file-config-service.ts`, `sys-file-category-service.ts`) | their tables | save, edit, delete | clients of the file storage |
| **File storage** (`base-file-service.ts`, local and MinIO implementations) | cached clients, chunk directories, `sys_file` | `getFileService`, `uploadSimple`, `uploadChunk`, `mergeChunks`, `delByIds` | object store or disk, configurations |
| **Cache decorators, Redis tool** | Redis keys | `cache.able`, `cache.put`, `cache.evict`, `tryLock`, `unlock` | services, Quartz execution |
| **Departments** (`upm-dept-service.ts`, `upm-dept-share.ts`) | department tree, users | save, update, delete, user count, migration | users |
| **Menus, roles, users** | tables | CRUD (the user part is a stub) | – |
| **Tree tools, random, Tempo, Prometheus, logger, router and other decorators** | – / SDK objects | pure functions, start/stop, metadata | – |

What is hard, and what makes each part correct:

* **Execution.** Several processes, each with concurrent `processJob` calls that
  interleave at every `await`; calls that fail, time out or die; BullMQ retrying
  or recovering them. Correct means: one handler at a time for a task that forbids
  concurrency; logs that agree with what BullMQ records; no lock that stays; a
  bounded number of runs; a DELAY task that ends disabled.
* **Administration.** Each operation writes the row and then, in several steps,
  BullMQ. Calls overlap, fail or die between the steps; runs write the same row.
  Correct means: BullMQ holds exactly the triggers the row asks for.
* **Log buffer.** Threshold, timer, end of a failed flush and shutdown start
  flushes of one buffer. Correct means: nothing lost, doubled, reordered or left
  behind, and a shutdown that ends after everything is written.
* **Discovery.** Every instance that starts compares and rewrites the same rows, in
  several transactions, without a lock or a unique key; a flush that fails is not
  repeated before the next start. Correct means: one row per API, with the tags the
  running version declares.
* **Uploads.** Chunks arrive in any order and more than once; merging races them, and
  fails or dies half-way; clients are cached while their configuration is edited.
  Correct means: what is stored is the whole file, where the configuration says, with a
  row that says so.
* **Departments.** Cycles, and deletion racing the arrival of children and users.
  Correct means: no user or child without a department, counts and trees that are exact.
* **Forms.** Names, codes and references are checked in one statement and written in a
  later one. Correct means: names and codes differ, references lead somewhere.
* **Cache.** A call to the database and calls to Redis are not one step. Correct means:
  what is in Redis is what is in the database.

The full list of hazards, each at its line and with the properties that cover it, is
`hazards` in `PROJECT.json`.

## 2. Modules

| Module | Models | Checked by | Proved in |
|---|---|---|---|
| `QuartzExec` | `processJob` and everything that drives it, for one task | 6 runs `exec_*` | `QuartzExecProofs` |
| `QuartzSync` | the administrative operations step by step, and start-up, for one task | `sync_calls`, `sync_restart` | `QuartzSyncProofs` |
| `SysLogBuffer` | the log buffer | `log_buffer` | `SysLogBufferProofs` |
| `LogPipe` | abstract: an ordered at-least-once pipe from events to the table | refined by `SysLogBuffer` | `SysLogBufferProofs` |
| `ApiDiscovery` | the discovery of the tags of one API by several instances | `api_discovery` | `ApiDiscoveryProofs` |
| `FileStore` | simple uploads, chunk uploads, merges, the clients and their configurations | `file_store`, `file_upload` | `FileStoreProofs` |
| `UpmDept` | departments and the users in them | `admin` | `DeptProofs` |
| `TreeTool` | the tree functions, as operators | `admin`, on the tables of `UpmDept` | `DeptProofs` |
| `DictSync` | the discovery of dictionaries beside administrators | `admin` | `DictSyncProofs` |
| `AdminForms` | the forms of roles, menus, files and tasks: check, then write | `admin` | `AdminProofs` |
| `CacheDecorator` | `cache.able`, `cache.put`, `cache.evict` | `admin` | `AdminProofs` |
| `MC…` | constants of the instances TLC checks; `MCAdmin` joins four modules | | `AdminProofs` (`MCAdmin`) |

`QuartzExec` and `QuartzSync` describe the same service at two grains. In
`QuartzExec` a run is step by step and an administrative operation is atomic; in
`QuartzSync` a run is its beginning and its end, and an operation is step by step.
`SyncedUnlessDisturbed` says when the atomic view is right: an operation that has the task
to itself leaves row and BullMQ as the atomic one would.

### 2.1 `QuartzExec`

Everything in the code is keyed by the task id (row, lock key, job data, logs), so
one task is modelled. `row` keeps the columns that decide something
(`live` for not soft-deleted, `enable`, `allowConcurrent`); `scheduleType`,
`retryCount` and `timeoutMs` are constants. The columns the module only displays
(`lastStatus`, `nextTriggerAt`, the timestamps) are left out, their writes are not:
a step such as `MarkRunning` is there because it may fail outside the `try` block.

| TLA+ | code |
|---|---|
| `exec[s].pc` | where the `processJob` call in worker slot `s` waits |
| `exec[s].task`, `.log`, `.lockKey` | the locals `task`, `log`, `lockKey` |
| `lock` | the Redis key; its value "1" replaced by (ghost) the log id of the owner |
| `logs` | `quartz_task_log` |
| `handlers` | handler promises that have not settled, awaited or not |
| `jobs` | BullMQ's record: state, attempts made, stalls |
| `LoadTask … Unlock`, `Finish` | `processJob` from `await` to `await`, then BullMQ's verdict |
| `HandlerTimesOut`, `OrphanEnds` | `runWithTimeout`: the timer wins, the handler goes on |
| `LockExpires` | `EX` of the lock; `LockSeconds` is the code's formula |
| `Crash`, `Stalled` | death of a process; BullMQ takes its active jobs back |

A failing MySQL or Redis call has no effect, except that a failing `tryLock` may
have set the key. BullMQ is external: `Finish`, `Stalled`, `SchedulerFires` and
`Pick` follow the options the code gives it (`attempts = retryCount + 1`, default
`maxStalledCount = 1`; stalls do not count as attempts). The code's custom job ids
contain `:`; a BullMQ version that rejects them would make `DELAY` tasks and manual
runs fail at once, and the models take the ids as accepted, as the code means them.

Ghost variables, read by no guard: the owner stored in `lock`; `breach`, the ways in
which the lock protocol has been broken so far (`"unlock"` a call deleted a lock it
does not own, `"timeout"` a call left a running handler, `"expired"` the lock expired
under a running handler); `effects`, successful handler runs per job.

### 2.2 `QuartzSync`

One task; `Instance` processes serving `Requests` requests each (slot 0 is the
start-up of the process), and `Worker` runs at a time. A call is a record with its place and the entity it works
on. `Conf` are schedule configurations, `DelayConf` those of type DELAY; `sched` is
the configuration the job scheduler carries and `delayJob` the state of the job with
the fixed id `…:<taskId>`. Of the other jobs, those of the scheduler and the manual ones
of `runNow` and `runOnCreate`, there may be any number, and each may wait or be retried
for as long as it likes: `queued` has the kinds that were ever added, and a worker may take
a job of such a kind at any time, after the scheduler is gone too.

| TLA+ | code |
|---|---|
| `Save`, `Edit`, `ChangeEnable`, `SyncTask`, `DelByIds` | the request arrives and passes its checks |
| `Write` | `repo.save` / `repo.update` |
| `Read` | the re-read by `checkThrowExist`, or the `find` of `syncEnabledTasks` |
| `RemoveScheduler`, `RemoveDelayJob` | the halves of `removeTaskScheduler` |
| `Schedule` | `queue.add` (ignored if the id exists) or `upsertJobScheduler` |
| `Finish`, `SoftDelete` | last update, with `runOnCreate` a manual job, or soft deletion; the call returns |
| `Restart` | the process dies; `onModuleInit` synchronises the enabled tasks |
| `SchedulerFires`, `RunNow` | the scheduler adds a job; `runNow` adds a manual one |
| `RunBegins`, `JobRefused` | `processJob` loads the row and goes on, or refuses (a disabled task, but to a manual job) |
| `RunEnds`, `RunBreaks` | it writes `enable` back (`WriteBack`), `FALSE` for a DELAY task that is not retried, and BullMQ drops, keeps or retries the job; it breaks off before or after that |

`getJob` and `remove()` are one step: a job that appears or disappears between the
two gives the result of one order or the other. BullMQ refuses to remove a job that
is being processed, keeps failed jobs (`removeOnFail: 100`) and ignores an `add` with
an existing id.

Ghost variables: `clash` (what was in progress beside a call, another `"call"` or a
`"run"`), `overlapped` (two calls ever were in progress together), `last` (the call whose
return left things as they are, what it asked for, and what runs have done to the row
since: `"crossed"` a run overlapped the call, `"broken"` a run broke off, `"stray"` a DELAY
task was run by another job than its delay job).

### 2.3 `SysLogBuffer`

One action per turn of the event loop. `batch` is `currentBatch` of the flush in
flight, and `flushInFlight` is set exactly while it is not empty. `BatchSaved`,
`BatchFails` and `BatchAckLost` are the outcomes of `batchSaveLogs`, each followed in
the same turn by the `finally` block (`AfterFlush`), which may start the next flush.
`DrainPendingLogsOnShutdown` is one round of the drain loop. `sent` is a history.
`LogPipe` is what a reader of `sys_log` may assume: records in the order of the events,
none skipped, and repeated only if an acknowledgement was lost. The refinement maps
`stored` to `saved` and `done` to `acked`.

### 2.4 `ApiDiscovery`

Every step keys its data by application, method and path, so one API is modelled.
`rows` are its rows in `sys_api` with their relations in `sys_api_tag_rel`; an id is a
position, and the hash of a row is the set of tags it was computed from, of which
`generateHash` is a digest. `Declared` are the announcements each version of the
application makes for the API, possibly none.

| TLA+ | code |
|---|---|
| `inst[i].queue`, `.batch` | `pendingTagQueue`, `currentBatch` of the flush in progress |
| `Start` | `getTagList` announces everything in one turn and the debounce timer is armed |
| `FlushPendingTags` | the timer fires; the queue becomes the batch |
| `FindExactHash`, `FindExistedSameApi` | the two reads; after the second the rows to write are chosen, or none |
| `DeleteTags` | the relations of the row are deleted, in a transaction of their own |
| `LoadTags`, `SaveRow` | `sysApiRepo.save`: TypeORM loads the relations, then writes in one transaction |
| `CallFails`, `Fails` | a failing call; the batch goes back to the queue, no timer is armed |
| `Stop` | the process ends |

How `save` treats the relations is TypeORM's (external): relations found in the
database that the entity does not list lose their `api_id`, which the column forbids,
so the save fails; relations inserted since then meet the unique key. Two flushes of
one instance cannot overlap, as all announcements of a start are made in one turn.

Ghost variables: `overlapped` (two flushes were once in progress together),
`interrupted` (a flush once ended between its deletion and its write), `last` (the
flush that ended last while none has begun since, and the tags its version declares).

### 2.5 `FileStore`

One process, one identifier of a chunked upload, `Slot` concurrent calls. The content
of a file is the sequence of its chunks, so a merge that mixes, misses or repeats chunks
differs from `Whole`. `fields` says what a caller passes for `chunkNumber` and `totalChunks`:
numbers, as `UploadChunkDto` declares them, or strings, as the controller passes them on from
the form, where nothing transforms them. `Equals` is the code's `===` of a number and such a
field; two fields are compared as they are (`:209`).

| TLA+ | code |
|---|---|
| `config`, `clients` | `sys_file_config`; `fileServiceMap` with each client's `config` and what its last successful `doInit` made of it (`at`) |
| `dir` | the chunk directory: names and what is in them; a file is there, empty, from the opening of its stream to its finish |
| `UploadSimple`, `UploadChunk` | a request arrives; which chunk it brings is up to the client |
| `Find`, `UseClient` | the query of `getFileService`, and the code after it, which creates or refreshes the client |
| `StoreFile`, `Reread`, `Record` | `uploadSingle`, and the second query and the row of `uploadSimple` |
| `OpenChunk`, `FinishChunk`, `CountChunks` | `uploadChunk`, up to `readdir` |
| `ListChunks … RemoveDir` | `mergeChunks`, one action per `await`; the creation of the merged file races the first read |
| `Restart`, `CallFails` | the process ends and its disk stays; a call fails, a request to the store perhaps after its effect |

The steps of a merge work off a set of names, read least first, which is what the sort of
`mergeChunks` is for. The file's name may be that of a chunk (`FileName`); the properties
exclude it.
`createWriteStream` and the loss of a name under an open stream (`Orphaned`) are the file
system's (external). Ghost variables: `run` (the chunks `1..run` were acknowledged one
after the other), `merged`, `placed`, `unrecorded`, `refused`, `overlapped`, `cut`.

### 2.6 `UpmDept` and `TreeTool`

Departments with their parents, users with their departments, and the calls of
`UpmDeptService` from `await` to `await`. `addAndRemove` of TypeORM (external) awaits
`remove` first and `add` second, two statements and so two actions: `RemoveUsers` deletes the
rows of the users that were found, and `AddUsers` inserts theirs of the target, all or, if
the key refuses one, none. `moves` is a ghost that notes who may be without a department:
`cutOff` the users of a migration that ended between the two, `refused` those whose
insertion the key refused, and `mixed`, whether a user was in several departments to begin
with or two migrations were ever in progress together. `Walk` is the loop of `getDeptCountTotal`, cut off after as many rounds as a walk
that ends can have; what is left in its queue says that it does not. `hung` is then set,
as the loop contains no `await`. `TreeTool` has the forest as roots and children per node;
its loops and recursions are rounds (`Repeats`), as many as there are nodes, which says
something of every table, one with cycles too. They are compared with the departments
above one: `Above` is the least set that has its parent and the parents of its members,
and knows nothing of walks or their order.

### 2.7 `DictSync`

As `ApiDiscovery`, with what differs: a dictionary's code is unique, a dictionary and its
items are saved in two transactions, items have no key, and administrators (`RequestDict`
to `EditItem`) write the same rows. The hash of an item is what it is computed from.
`mergeDiscoveredDicts` is a loop of `Map.set`; `MergeDicts` says what the maps hold after
it: for every dictionary announced, each item as announced last.
`delByIds` of dictionaries and items has no effect: TypeORM refuses a soft deletion of an
entity without a deletion date.

### 2.8 `AdminForms`

Six tables in one sequence of rows, and calls that work off a list of steps:
`WritingSteps` and `DeletingSteps` say which checks each service makes and in which
order, the actions say what each check and write does. A behaviour follows one table, or
tasks with their categories, as no other two share rows. The unique indexes of the
database (`UniqueColumns`) include deleted rows, the counts before a write do not.

### 2.9 `CacheDecorator`

One datum, read and written by decorated methods with lists of options. The module says
what the decorators do with options the code accepts: a key that is a text. All services
give functions, which `isEmpty` of `es-toolkit/compat` takes for empty
(`cache-decorator.ts:76`), so their options are skipped and nothing of theirs is cached;
the instance has both kinds. For the same reason a numeric `expiresIn` and `allEntries`
have no effect. With the option `async` a read returns before its entry is stored; its call
lasts, in the module, until that background set has landed. A method may also fail after it has written: its `after` options then
never run, and the entry keeps the old datum; `FreshUnlessDisturbed` names this cause.

### 2.10 `MCAdmin`

`UpmDept`, `DictSync`, `AdminForms` and `CacheDecorator` share no state. One run checks
them beside each other: `part` chooses at the beginning which of them moves. Symmetry is
over departments other than the root, call slots, instances and keys; no constant orders
them except `DeptOrder`, the order in which queries return rows (each id once, any order),
on which no property depends. The departments begin with one or two live ones and every
user in one of them or both.

## 3. What the runs show

All passing runs are exhaustive for their bounds.

| Run | Bounds | Shows |
|---|---|---|
| `exec_admin` | 2 processes, 3 jobs, timeouts, 1 administrative operation between any two steps | `TypeOK`, `SingleInstanceUnlessBreached`, `ExpiryNeedsTimeout`: handlers overlap only for the named causes |
| `exec_delay` | DELAY task: delay job and manual run, 2 processes, 1 retry, timeouts | `DelayTaskRetired`, `SingleEffectUnlessDisturbed` |
| `exec_live` | fairness; 1 job, 2 processes, 1 retry, timeouts, 2 faults, 2 crashes | `LockNotLeaked`, `StrandedLogsBounded`, `JobOutcomeMatchesLog`, `LogForward`: whatever steps fail, the lock is released or expires, a log row is left RUNNING only by a fault or crash, BullMQ's verdict and the log agree, log rows only go forward; `RunsWithinBudget`, `JobsSettle`, `LockComesBack`: also after a crash that leaves the lock behind, whose recovered run is rejected by it |
| `sync_calls` | 2 instances, 1 request each beside the start-up, 2 workers, 2 configurations (cron, DELAY), 3 calls, 2 runs by any job, 1 fault or restart | `SyncedUnlessDisturbed`: whatever went before, the next call that has no other beside it leaves BullMQ with what it asked for, and the row in agreement but for the named runs; `OneTriggerUnlessOverlapped`, `DeletedHasNoTrigger`: what failures alone cannot do |
| `log_buffer` | fairness; threshold 3, 6 records, 2 failing writes, 1 lost acknowledgement | `Conservation`, `NothingStranded`, `ShutdownLosesNothing`; `PipeSpec`, the refinement; `EverythingStored`, `DrainEnds` |
| `api_discovery` | 2 instances, 4 starts, 4 versions (a tag, two announcements, another tag, none), 2 failing calls, stops anywhere | `OneRowUnlessOverlapped`: failures and restarts alone never double a row; `RegisteredUnlessDisturbed`: a flush that succeeded leaves what its version declares, and one that writes does so whatever was interrupted before |
| `file_store` | 2 calls at a time, 4 in all, 2 chunks, numbers or strings, 2 configurations, contents good, other, unusable and bucket, 1 edit, 1 fault or restart | `OrderlyUploadKept`: chunks sent one after the other are kept, whatever earlier attempts left, and for a caller that passes numbers end in the stored file; `MergedWhole`: a merge stores the whole file or nothing; `StoredWhereConfigured`, `OrphansExplained` |
| `admin` (departments) | 4 departments, 2 users, 2 calls of several steps, any number of saves | `NobodyLost`, `CountsExactly`, `TreeFaithful` |
| `admin` (dictionaries) | 2 instances, 3 starts, 2 versions, 2 dictionaries, 2 items, 1 write of an administrator, 1 failing call | `OneItemUnlessOverlapped`, `DeclaredUnlessDisturbed` |
| `admin` (forms) | 2 calls at a time, 3 in all, 2 keys | `KeysUniqueUnlessOverlapped`, `CategoryKeptUnlessCrossed` |
| `admin` (cache) | 2 calls at a time, 3 in all, 2 keys, 7 methods | `FreshUnlessDisturbed` |

Four runs end in a violation and are findings (section 5).

Why the bounds are enough: an overlap of handlers needs three executions (one that
holds the lock, one that is rejected and deletes it, one that enters), the write-back
hazards need one run and one call, a manual run beside a delay job two runs, a stale
schedule two calls, a repair one more. With
failures and crashes a single job meets itself: its retries and recovered runs overlap its
orphaned handlers and find the locks its dead runs left; the theorems of section 4 are
about any number of jobs. A
flush that skips a row which another has emptied takes three starts (old tags, new
tags and a failure, old tags again), an overlap two. In the log buffer the interesting orders are reached once a batch fails while the
queue holds more records than the threshold minus its size. Two chunks and four calls are
an upload, a failed merge and an attempt after it; three departments beside the root are a
cycle with something below it; two migrations of the same users are an insertion that the
key refuses, for all of them; two overlapping forms and a third that meets what they
left need three calls, as do a read that overlaps a write and a later read. The counters
(`MaxFaults`, `MaxCrashes`, …) bound how often the environment misbehaves; every
single point of misbehaviour is covered.

`CHECK_DEADLOCK FALSE`: with bounded jobs, calls, records and faults every instance
comes to rest.

### Fairness

`QuartzExec!FairSpec`: the event loop continues a call whose awaited promise has
settled, BullMQ hands waiting jobs to free slots and takes back stalled jobs,
timers and Redis expiry fire, and an awaited handler ends or, with a positive
`timeoutMs`, is timed out. No fairness is put on faults, crashes, requests or the
scheduler. `SysLogBuffer!FairSpec`: a database call settles one way or the other, an
armed timer fires, the drain loop goes on. That a call eventually *succeeds* is not
assumed as fairness; it follows from the bound on failures ("once the database
stops failing").

## 4. What is proved

TLAPS checks these for every value of the constants (any number of processes, jobs,
retries, configurations, faults; any timeout and threshold), from the named
assumptions of the modules only.

* `QuartzExecProofs`: `TypeCorrect`; `ProtocolInvariant` (`ExecInv`: every log
  belongs to one call, every pending handler to a log that entered it, a call that
  awaits a handler has it, the lock, if not free, belongs to the log that acquired
  it, and a guarded handler whose lock is not its own has a breach to explain it);
  from it `Exclusion` (`SingleInstanceUnlessBreached`) and `TimeToLiveSuffices`
  (`ExpiryNeedsTimeout`). `SingleInstanceUnlessBreached` alone is not inductive: it
  does not say who owns the lock.

  `OutcomeInvariant` (`OutcomeInv`) relates calls, log rows and jobs: a job is active
  while a call works on it, and on one at a time (`JobsKept`); a row belongs to one call
  (`LogsKept`), its status follows from where the call is (`StatusTold`) and a result is
  not known before its row is written back (`ResultLate`); a completed job keeps the row
  that says so (`CompletedTold`), and while nothing has failed every row that is not FAIL
  has a call or a completed job behind it (`LogsExplained`). From it follow
  `OutcomesMatch` (`JobOutcomeMatchesLog`), the action property `LogsMoveForward`
  (`LogForward`) and, each with a part of its own, `EffectsSingle` (`EffectOnce`: an effect
  is that of a completed job or of a call on its way to success), `DelayTasksRetire`
  (`RetirePending`: while the task is enabled, some job has still to write the row) and
  `RunsBounded` (`Budgeted`: attempts and stalls pay for the rows of a job, an active one
  being at most one ahead), and `StrandedLogs` (`StrandedBound`: a fault pays for one of the
  rows left RUNNING, a crash for one per slot). `LockReleased` (`LockNotLeaked`) needs no
  more than the types.
* `QuartzSyncProofs`: `TypeCorrect`; `SyncInvariant` (`SyncInv`), from it
  `CallLeavesWhatItAsked`, `SyncedAfterUndisturbedCall`, `OneTrigger`,
  `DeletedStaysUnscheduled`. The invariant adds what the calls in progress have established:
  what a call removed stays removed until it schedules (`Cleared`), its entity is the row but
  for `enable`, and with no run beside it that too (`Snapshot`), what it asked for outlives
  all runs (`LastKept`), and so does the agreement of row and BullMQ if the runs loaded what
  the call left and a DELAY task is run by its delay job only (`RowAgrees`).
* `SysLogBufferProofs`: `TypeCorrect`; `RecordsConserved`, `RecordsNotStranded`,
  `ShutdownComplete`; and `ImplementsPipe`: `Spec => PipeSpec`, for any number of failing
  writes and lost acknowledgements. The invariant `BufferInv` is nearly the conjunction of
  the properties: it adds that a drain that ended left nothing behind (`StoppedEmpty`).
* `ApiDiscoveryProofs`: `TypeCorrect`; `DiscoveryInvariant` (`DiscoveryInv`), from it
  `OneRow`, `Registered`. The invariant adds, as long as no two flushes
  overlapped, that there is one writer (`OneFlush`), that what it has read is still so
  (`StillFound`), that it carries the declared tags (`BatchPromised`), and that a hash
  tells the tags of its row except between deletion and save (`HashTellsTags`).

* `AdminProofs`, cache, for any keys, concurrent calls and decorated methods:
  `CacheTypeCorrect`; `CacheInvariant` (`CacheInv`), from it `CacheFresh`
  (`FreshUnlessDisturbed`). `FreshUnlessDisturbed` speaks of moments without a write only;
  the invariant says what holds in between: a write is alone (`SoleWriter`), has deleted
  what comes before its method (`DeletedFirst`), what a call is about to store is the datum
  (`StoresDatum`), and an old entry is one that the write will still set or delete
  (`OldOnlyPending`).

* `FileStoreProofs`, for any number of slots, chunks, calls, edits and failures and any
  configurations: `UploadInvariant` (`UploadInv`), from it `FilesTyped`,
  `StoredAsConfigured`, `OrphansAreExplained`; `ChunkInvariant` (`ChunkInv`), from it
  `MergesWhole`; `TextInvariant` (`TextInv`), and from both `OrderlyUploadsKept`
  (`OrderlyUploadKept`). `StoredWhereConfigured` speaks of what has been
  stored; the invariant adds where the cached clients stand (`ClientsFollow`), what a
  request on its way carries (`StoresFollow`) and whose row will be written
  (`RecordsFollow`). `MergedWhole` speaks of the end of a merge; `ChunkInv` says what holds
  before it as long as chunk calls are one at a time (`Orderly`): what the directory holds
  while a chunk is written (`Filling`), that the data read so far are the chunks below the
  next one (`Merging`; with it no induction over the names is needed), what is there in a
  run of acknowledged chunks (`Running`), and what is left when no call is open
  (`Between`). `TextInv` is about callers that pass strings: no merge is ever on its way
  (`Unmerged`), and of a run each chunk that was acknowledged stays (`Kept`) and the next one
  joins them (`Joining`). The directory is in order if nothing has ever gone wrong (`Undisturbed`) or
  if chunk 1 of the run has cleared it (`Cleared`).

* `AdminProofs`, forms, for any keys and concurrent calls: `FormsTyped`;
  `KeysStayUnique` (`KeysUniqueUnlessOverlapped`), whose invariant `KeyInv` adds that what a
  call has looked for and not found is still not there when it writes
  (`CheckedStillFree`) and that an overlap was noticed (`OverlapSeen`); `CategoriesStay`
  (`CategoryKeptUnlessCrossed`), whose invariant `CategoryInv` adds that a category which
  was found is there until it is written, and that one to be deleted has no task.

* `DeptProofs`, departments, for any departments, users and calls: `DeptsTyped`;
  `NobodyIsLost` (`NobodyLost`). A user without a department is one that a migration has taken
  out of it (`Sheltered`); that a refused insertion takes a user of several departments or two
  migrations at once is not inductive by itself: while there was neither, one migration is in
  progress, its users are where it found them, and nowhere once they are to be inserted
  (`OneAtATime`). As long as no deletion raced, a department that was counted as empty stays
  so (`DeletesAlone`, `CountedStill`) and the target of an arrival is there (`TargetStill`).

* `DeptProofs`, walks and trees, of every table of departments: `CountsAreExact`
  (`CountsExactly`) and `TreeStaysFaithful` (`TreeFaithful`). They follow from the types
  alone, since what they say is true of any table; the work is in what repeated rounds make
  of it. `Flatten` and `Walk` are one kind of traversal (`Rounds`): each round takes a
  pending node, writes it down and makes its children pending. If every node is reached in
  one way only (`OneWay`), pending and written nodes stay apart and complete (`InOrder`,
  kept by `VisitKeeps`), so a traversal with as many rounds as nodes leaves nothing pending:
  one more node would be one too many (`Traversal`). If it comes to nodes each of which has
  another of them for a child, it never ends (`NeverDone`). From a department that is on no
  cycle there is one way down (`BelowOneWay`), and a set with the children of a department
  and of its members has all that is below it (`BelowIsLeast`); on a cycle each department
  has a child on it (`CycleGoesOn`). For the tree: `ToTree` makes a forest
  (`DeptForestIs`); what `Flatten` does not show has its parent among the same, so the one
  of them with the fewest above it has a parent on a cycle (`NoTopNoEnd`); the rounds of
  `FindPath` follow those of `FilterTree` (`PathsLead`), and each keeps a node written down
  earlier, so that a root is kept at last (`RootKept`).

  Of the tree functions themselves, for any forest and whatever matches: `FindPathFinds`
  (there is a path from a root to a match just when `Flatten` shows a match) and
  `FilterShowsPaths` (the filtered tree is the union of the paths to the matches shown).

* `DictSyncProofs`, for any dictionaries, items, instances and versions, whatever they
  declare: `DictInvariant` (`DictInv`), from it `DictTyped`, `ItemsStayOne`
  (`OneItemUnlessOverlapped`), `DeclaredIsThere` (`DeclaredUnlessDisturbed`). Both
  properties speak of what a flush leaves; the invariant says what it knows on its way.
  Always: its ids are those of rows and tell its dictionaries apart (`FlushFits`,
  `IdsThere`), and a hash with a dictionary tells its row (`HashesTell`), so that an item
  skipped for its hash is there as declared. While nothing overlapped a flush: it is alone
  (`DictFlushAlone`), its dictionaries are as it saved them (`DictsStill`), what it is
  about to write is each item once, in the place of the row with its code (`TodoFits`),
  and an item compared is about to be written or there in a row that will not be written
  over (`Compared`).

* `AdminProofs`, `MCAdmin`: `AdminTyped` (`AdminTypeOK`); a part beside the others does what
  it does alone (`PartsAlone`), so the theorems above hold of the administration too.

Every safety invariant and action property of the passing runs is proved. Only
model-checked are the liveness properties (`JobsSettle`, `LockComesBack`,
`EverythingStored`, `DrainEnds`), which rest on fairness and are beyond the prover.

Some definitions are written so that they can be reasoned about. tlapm expands neither the
folds nor `SelectSeq`, and a theorem for every n of a recursive operator is out of its
reach; `Repeats` and `Select` are functions over `0 .. n` instead, whose equations hold by
the least number for which they would not (`RepeatsIs`, `LeastNumber`). All arguments over
rounds have that form.

## 5. Findings

Each is a run that ends in a violation; its trace is the scenario.

1. `exec_reject`: a rejected execution unlocks the running one, because `lockKey` is
   set before `tryLock` answers (`quartz-bull-service.ts:259`, `:326`).
2. `exec_delay_manual`: a manual run of a DELAY task cancels its scheduled run (`:295`).
3. `sync_restart`: a restart does not remove the scheduler of a task whose disabling
   was cut short (`:115`).
4. `file_upload`: a chunked upload through the HTTP form is never merged. The numbers of
   the chunks arrive as strings, and `chunks.length === dto.totalChunks` compares a number
   with one (`base-file-service.ts:211`); nor does chunk 1 clear what an earlier attempt left
   (`:195`). The chunks stay in their directory, the client is told that all went well. The
   last number is recognised, string against string (`:209`).

Other hazards show as the exceptions the passing properties have to name:

* `SingleInstanceUnlessBreached`: a timed-out handler goes on beside its retry
  (`:555`); the ten-second lock of a task without timeout expires under its handler
  (`:260`).
* `SyncedUnlessDisturbed`: of two overlapping calls the one with the older row may
  schedule last (`:135`); a run that was in progress beside a call writes the old `enable`
  back (`:295`, `:321`), and BullMQ holds what the call asked for against the row; a manual
  run of a DELAY task, or that of `runOnCreate`, which the save itself enqueues
  (`quartz-task-service.ts:70`), retires the task while its delay job still waits (`:295`),
  as does a scheduler's job left over from an earlier schedule. All last until the next call.
* `RegisteredUnlessDisturbed`: a flush that dies or fails between the deletion of the
  tags and the save leaves a row without tags under its old hash; a later start with
  the old tags finds the hash and skips the row (`sys-api-service.ts:107`, `:89`).
* `OneRowUnlessOverlapped`: two instances that start together both insert (`:71`).
* `SingleEffectUnlessDisturbed`: a failed write-back after a successful handler makes
  BullMQ run the job again (`:289`).

* `MergedWhole`: overlapping chunk calls, or one that was cut off while it wrote, let a
  merge take an unfinished chunk, as `readdir` counts names (`base-file-service.ts:210`);
  a chunk that arrives after the last number starts no merge, although a comment promises to
  look whether all are there (`:208`). All this takes a caller that passes numbers, since for
  strings no merge starts.
* `StoredWhereConfigured`: a client that refused a configuration keeps it as its current
  one and goes on storing to the old place (`:175`).
* `NobodyLost`: a migration takes its users out of the source before it puts them into the
  target, so that a failure or the end of the process between its two statements leaves them
  without a department, as does an insertion refused because one of them is in the target
  already (`upm-dept-share.ts:135`); a deletion beside an arrival (`upm-dept-service.ts:92`);
  parents are taken as they come (`:75`, under a comment that says they are checked).
* `CountsExactly`, `TreeFaithful`: departments on or below a cycle are not shown, and their
  count never ends (`upm-dept-share.ts:85`). Editing the root with an empty parent is
  enough: "-1" becomes its own parent.
* `OneItemUnlessOverlapped`, `DeclaredUnlessDisturbed`: items have no unique key
  (`sys-dict-service.ts:101`), and an administrator who gives an item the code of another
  makes two of one.
* `KeysUniqueUnlessOverlapped`, `CategoryKeptUnlessCrossed`: a check and its write are two
  statements (`quartz-task-share.ts:65`, `quartz-task-category-service.ts:97`).
* `FreshUnlessDisturbed`: a read that overlaps a write stores what it read before
  (`cache-decorator.ts:138`), and a lost set or deletion is not noticed (`:228`).

Met while modelling, and outside of the properties:

* The count of duplicates leaves out deleted rows and the unique index does not: a deleted
  task's code passes the check and the insert then fails, and a type of file configuration
  can be used once only.
* `upm-dept-service.ts:91` does not await its existence check: if it fails the rejection is
  nobody's, which by default ends the process, while the deletion goes on.
* `isEmpty` holds of numbers and Booleans too, so most `toEntity` store a sort of 0.
* The category service of files is commented as cached; no key is (section 2.9).
* `flatten` says it is a pre-order traversal (`tree-tool.ts:81`), but writes the tree of the
  last root first, as the roots are pushed on the stack in their order (`:87`) and children in
  the reverse one; `find` looks there first, too (`:105`). Only forests with several roots
  tell, and no service calls either function so far.
* Merged files get no row in `sys_file`, and `delByIds` leaves the stored file in place.
* `createBy` and `createAt` are not null and only the log service sets them; the models
  take the schema to have defaults.

## 6. Not modelled, and the plan

Not modelled at all: wiring, configuration, logging, metrics, random values, metadata
decorators, read-only queries, the user stubs, and the tracing SDK, which is started once
and stopped once. Within the modelled parts: the length of delays and the wall clock (only
the comparison of lock lifetime and timeout is kept), display columns, texts, checks of
single fields, the order of rows, the signature of requests to the object store, and the
single commands of the Redis tool that have no caller.

What is left: `QuartzSystem`, which is `QuartzExec` with the stepwise operations of
`QuartzSync` in place of its atomic ones. It would turn the argument at the start of section
2, that an operation with the task to itself acts as the atomic one, into a checked
refinement.
