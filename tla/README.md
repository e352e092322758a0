# WBME: a TLA+ verification project

WBME is an internal business platform of four HTTP services (platform-core, hr,
asset, fin), a background worker, a recovery executor, a migration runner and a
web client, over one PostgreSQL database (a schema per service), Redis/BullMQ
and object storage. This directory holds TLA+ models of the parts in which
several actors work on the same rows, the TLC runs that check them, and TLAPS
proofs of their most important guarantees.

## 1. Inventory

| Part | State | Operations | Talks to | What is hard |
|---|---|---|---|---|
| Task table (`packages/tasks`) | `backstage.background_tasks`: status, lease, retry, timeout | create, claim batch, queue, claim, renew, succeed, fail, time out | every service inserts in its own transaction | leases against clocks, conditional updates that decide races |
| Worker (`apps/worker`) | BullMQ jobs in Redis, timers, what a step has read | scheduler tick, `handleJob`, heartbeat, job cleaning, shutdown | task table, Redis, HTTP to other services | crash between any two calls, Redis losing data, retries against leases |
| Approvals (`packages/approval`, `apps/asset/.../approval`, `apps/hr/.../approval`) | `approval_requests` with a version | submit, approve, reject, cancel, auto-cancel | side effects in the deciding transaction; the worker's overdue scan | decisions that overlap, a side effect that throws |
| Stock (`apps/asset`: claim, request, transfer, inventory) | items, batches, reservations, quota occupations | submit, issue, receive, release, transfer, correct | row locks, advisory lock of the quota | sums kept in two places, lock order, clean-up of empty rows |
| Borrowing (`apps/asset`: borrow, disposal) | records, batch allocations | return, write off, settle, dispose | accounts of platform-core | several pending actions on one record, settlement against disposal |
| Consumables | master rows | edit, disable, delete | stock, pending requests | references counted before they are needed |
| Fixed assets (`apps/asset`: asset, repair, qr) | status of an asset, orders with a version, codes | register, edit, scrap, delete; register, start, complete, cancel an order; create, switch, regenerate a code | one another, through the asset's row | writes by id after a read without a lock |
| Recovery executor | manifest file, maintenance marker, the manifest in memory | accept delivery, run stages, retry, status | worker (delivery), every service (maintenance) | crash between stages, redelivery, a failed stage, a status answer that is out of date |
| Sessions (`packages/server`), login protection, auth flows | Redis keys with expiry, `session_version` | create, rotate, touch, destroy; count, lock, unlock | every request | two requests of one session, two Redis calls that are one idea |
| Permissions, users, super administrators | grants, groups, catalog, accounts with versions, cached contexts | grant, revoke, appoint, demote, deactivate, restore, reconcile | sessions, hr through the task table | concurrent demotions, versions, a cache filled from several reads |
| hr: organisation and position applications | departments, positions, members, applications | create, move, close, assign, submit, decide, cancel | accounts (life-cycle task), assets | late or repeated cancellation |
| hr: overtime and holidays | batches with lines, operation log, saved holidays | submit, decide, resolve a date | the holiday provider | overlap, advisory locks, shared look-ups |
| fin: projects, Excel import, thread pool | project rows with a revision, import lock, threads | preview, confirm, edit, delete, restore; run, abort a task | Redis lock | a preview that is stale, lock expiry, cancellation while running |
| Backups, images, logs | rows and stored objects | create, verify, retain, clean | object storage | two stores that cannot commit together |

`PROJECT.json` lists every part with its status and, under `hazards`, what is
hard to test at its line. What makes each part correct:

* task table and worker: one executor at a time, one end, every task ends, a
  crash costs a delay and not the task;
* approvals and stock: a request is decided once; reservations, batches, book
  quantities and quotas agree; nothing is lost or made; what is pending ends;
* borrowing: what is open can be returned, pending actions fit, a shared list is
  settled whole; locks: nobody waits in a circle;
* fixed assets: an asset in repair has its order, a revoked code stays revoked;
* recovery: the site opens on a whole database only; unless a status answer comes
  late, no finished stage runs again, an unfinished restore is never forgotten,
  maintenance can end;
* sessions: none survives a change of version or a rotation; a counter expires unless
  the request that began it is lost half-way;
* permissions: a cached context is what the tables say, a form overwrites only
  what its author saw, the last super administrator stays (each with the
  exceptions section 6 names);
* hr: no single operation and no cascade makes a position stop fitting its
  holder or closes a cycle in the tree, an application takes effect once, overtime never overlaps and a key makes one batch; every caller
  and every submission gets an answer;
* fin: an import overwrites what its user saw, one at a time (but for a client
  that leaves early, section 6); a task of the pool gets its own answer, and gets
  one.

## 2. Plan

1. `TaskOutbox` with its abstract specification `TaskPromise`. *Done, proved.*
2. `AssetInventory`: approvals, stock, borrowing. `RowLocks` and `AssetLocks`:
   who waits for whom. *Done, proved; a change of a consumable's type or quota
   while requests are pending, and stock flows, are left out.*
3. `Recovery`: manifest, stages, marker, deliveries that are repeated. *Done,
   proved.*
4. `Sessions` and `Authority`, instantiated together by `MCPlatform`. *Done,
   proved.*
5. `HrOrg`, `HrOvertime`, `Holidays`, instantiated by `MCHr`. *Done, proved but
   for `Holidays`, of which only a liveness property is asked.*
6. `FinProjects`, `XlsxPool`, `FixedAssets`, instantiated with the lock programs
   by `MCBusiness`. *Done, proved.*
7. Backups and images: clean-up and retries across two stores. *Not begun.*

Every safety invariant and action property of a passing run is a theorem, for
every value of the constants or under the hypotheses the sections below name.
Worth proving next: that `AssetInventory` implements an abstract stock. Runs answer one question each; where several parts
share no variable, one run asks about all of them (see section 6).

## 3. The task outbox

`TaskOutbox.tla` models `packages/tasks` and the runtime of `apps/worker`.

* **State.** Row variables (`status`, `owner`, `lease`, `retry`, `timeout`,
  `age`) are the columns of one task row; job variables are the BullMQ job under
  `jobId = task_uuid`; per process, `schedPc`, `batch`, `resend`, `schedTask` are
  the locals of `tick`, and `workPc`, `workTask`, `workMade`, `beat` those of
  `handleJob`. `effects` is history: how often a processor succeeded,
  counted up to `EffectCap` (0 in the runs that do not ask).
* **Steps.** Each SQL statement and each Redis call is one action
  (`FailTimedOut`, `ClaimBatch`, `RemoveJob`, `AddJob`, `MarkQueued`,
  `ReleaseLease`; `Load`, `Claim`, `ExecOk`/`ExecError`, `MarkSucceeded`,
  `MarkFailed`, `Heartbeat`). `Start`, `Crash`, `Sigterm` are processes coming
  and going. BullMQ (`Pick`, `AckDone`, `AckFail`, `Promote`, `StalledCheck`) is
  external and modelled by what the worker's options ask of it.
* **Time.** Instants are kept as the time left, in `Tick`s; `left = 0` is the
  code's `<= now`. `Prompt` says that work shorter than a `Tick` is done before
  it; the safety run leaves it out, so any delay can happen there.
* **Faults** (`Faults`): crash, SIGTERM, loss of Redis data, refused Redis and
  SQL calls, late heartbeat.

`TaskPromise.tla` is what a creator sees: a task is open, is executed by one
process at a time, ends once. `TaskOutboxRefines.tla` maps the rows to it.

| Run | Instance | Shows |
|---|---|---|
| `outbox_safety` | 1 row, 2 processes, every fault but a late heartbeat, any delay | `TypeOK`, `ExecutorKeepsRow`, `OneExecutor`, `TerminalIsFinal`, `KeepsPromise` |
| `outbox_queue` | 2 rows, batches of 1, Redis loses and refuses | `EffectAtMostOnce`, `ReachesTerminal` |
| `outbox_recovery` | the code's constants at 1 Tick = 300 s, a crash or SIGTERM and a Redis loss | `ReachesSuccess` |
| `outbox_poison` | same constants, a processor that always throws | **violated** `PoisonEnds` |

Bounds: a restarted process is a new element of `Procs` and at least one process
can still run at the end, so two processes mean one death; with two deaths in a
row a task may run into `timeout_at`, which is twice the lease, and be failed,
as the code intends. One row is enough for the safety properties because no
statement relates two rows but the batch limit, for which `outbox_queue` has two
rows. In these runs a job does not stall more often than `maxStalledCount`
allows; the theorems cover that branch.

Fairness: `Tick` is strongly fair (a scheduler's tick only takes it away for a
moment), live loops and timers are weakly fair, the container is restarted. The
calls of a delivery are strongly fair, because Redis and PostgreSQL do not
refuse for ever; `Pick` is strongly fair because a scheduler may take a waiting
job away and put it back, but not between every two polls. No fault is fair.

What the violation shows. From the eighth failure on, the exponential
backoff exceeds the running lease of 600 s; the scheduler reclaims the row and
replaces the delayed job with a fresh one, so the tenth attempt never comes and
the row is never FAILED.

**Proved** (`TaskOutbox_proofs`), for any tasks, processes, leases, backoffs,
attempts and faults:

* `TypeCorrect`: `Spec => []TypeOK`. `TypeOK` is inductive because it holds the
  two facts a plain type lacks: a busy actor has its task, and an attempt that
  starts is an attempt BullMQ has left.
* `KeepsRowAlways`, `OneExecutorAlways`, assuming `"lateHeartbeat" \notin
  Faults`. `ExecutorKeepsRow` is not inductive; the strengthening `KeepsInv`
  adds that an executor's lease and timeout are longer than the time to its next
  heartbeat, and `DownIsIdle` that a dead process executes nothing.
* `TerminalAlwaysFinal`: `Spec => TerminalIsFinal`, under every fault.
* `OutboxKeepsPromise`: `Spec => KeepsPromise`, step by step, from the invariant
  above, under the same assumption.
* `EffectAlwaysOnce`, when `Faults` has no crash, SIGTERM, refused SQL call or
  late heartbeat (Redis may lose and refuse what it likes): a task's processor
  has succeeded at most once. `CountedOnce` says where a task whose processor has
  succeeded can be: at its end, or with the executor that is about to record it.

Assumptions on constants: positive leases, a running lease of at least two
Ticks (so that the heartbeat interval is shorter), owner ids that are distinct
and not NULL. Only checked: everything with `~>`.

## 4. Approvals and stock

`AssetInventory.tla` models one consumable at several locations.

* **State.** `rows`, `book`, `reserved` are `inventory_items`; `batchItem`,
  `remaining`, `received` are `batches`, and `touched` those with a flow other
  than STOCK_IN; `type`, `status`, `lines`, `ret`, `off`, `ref` are requests with
  their lines; `returned`, `writtenOff`, `issued`, `back` are borrow records with
  their batch allocations, identified by request and location; `quota` is
  `quota_occupations`; `consumable`, `active` come from the consumable and the
  account. `seen` and `deleting` are what a transaction has read without a lock.
* **Steps.** A transaction is one step, except where it reads without a lock:
  `ReadHead` and `Decide`, `ReadOverdue` and `Decide("scan")`, `DraftSettlement`
  and `InsertSettlement`, `CountReferences` and `DeleteConsumable`. A side
  effect that throws rolls the decision back and leaves the request pending.
* **External.** Deactivation and restoring of the account (`SetActive`).

| Run | Instance | Shows |
|---|---|---|
| `asset_stock` | disposable, 2 locations, 2 requests, 4 batches, one decider and the overdue scan, transfers, corrections, disabling | `StockSound`, `QuotaKept`, `PendingEnds` |
| `asset_lend` | reusable, 3 units at one of 2 locations, 3 requests of the five lending types, transfers, corrections, deactivation | `Returnable`, `ActionsFit`, `SettledWhole`, `StockSound` |
| `asset_delete` | no stock; stock-in, stock change and claim while the consumable is deleted | `NothingAfterDeletion` |

`StockSound` is the type invariant and the three equations of the stock:
reservations are what is pending, a location's book quantity is the sum of its
batches, and nothing is lost or made.

Bounds: two locations are what transfers, corrections and FIFO across sub-batches
need; two or three requests give every pair of decisions on one request and a
return after a claim; quantities up to 3 split between batches. Deadlock
checking is off where everything may have been decided and nothing is left to
do. Fairness: the overdue scan is a repeated task and is weakly fair in both its
steps; people are not.

**Proved** (`AssetInventory_proofs`), for any locations, requests, batches,
quantities, deciders and features: while the consumable is not deleted, the five
invariants hold (`StockStaysSound`, `BorrowedStaysReturnable`,
`PendingActionsFit`, `QuotaStaysKept`, `SharedListsSettledWhole`), and once it is
deleted no stock of it appears (`NothingComesBack`). Where nothing is deleted,
the five hold in every state (`SoundWithoutDeletions`).

* *The argument.* `IInv` is the types with `StockInv`, `FlowInv`, `LendInv`,
  `ActInv` and `QuotaInv`. Beyond the properties it says what a decision relies
  on: a location without a row holds no stock, a batch that was issued is touched
  and stays where it is, a request that lent nothing has no record, a settlement
  asks for all that its list was lent, a list is open or closed as a whole. Every
  step but `DeleteConsumable` keeps it.
* *Deletion is the exception*, and not for the sake of the proof: `batchDelete`
  counts references without a lock, and a request submitted in between stays
  pending on rows that are gone, so reservations and requests no longer agree.
* *Sums.* `Sums_proofs` has the facts the steps need about `SumFunction`: its
  type, one value changed, two values moved, two sums added, the order of a
  double sum. The library's induction theorems take a predicate, which no
  installed prover can instantiate; each fact is proved instead from a smallest
  counterexample, which the well-foundedness of inclusion among the subsets of a
  finite set provides.
* *Assumptions* are those the module declares: locations are numbered like
  batches, quantities, limits and dates are natural numbers, no decider is the
  word "scan". Only checked: `PendingEnds`.

## 5. Recovery

`Recovery.tla` models `apps/recovery-executor`, with `confirmRestore` of
platform-core and the worker's `processRestoreDelivery` around it.

* **State.** `file` and `marker` are on disk and survive; `mem`
  (`this.manifest`), `pipe` (where `runPipelineInner` waits, and the document it
  is writing), `call` (open deliveries and the manifest each one read), `poll`
  (open status requests and retries, likewise) and `stopping` do not. `tries`,
  `row`, `usable` are rows of the database that pg_restore replaces; `applied`
  the stages in force on it, `begun` whether pg_restore ever began. `reached` and
  `overtaken` are history.
* **Steps.** One per await: a delivery reads, archives, composes, writes, marks,
  starts; a stage begins, is written, ends well or fails, the failure is written
  and reported. `loadManifest` is two steps, `ReadStatus` or `ReadToRetry` and
  `Answer`, and the first may come at any moment. `Restart` ends the process
  anywhere, at most `MaxCrashes` times; a stage throws at most `MaxFailures`
  times.

| Run | Instance | Shows |
|---|---|---|
| `recovery_stages` | 2 restores, 2 open deliveries, 2 attempts each, 1 open status request or retry, 2 deaths, 1 failure, SIGTERM at any moment | `OpensWhole`, `NoReplay`, `KeepsManifest`, `EndsUnlessInterrupted` |

*The stale answer.* `getStatus` reads the file, waits, and assigns what it read
to `this.manifest` (`recovery-executor.service.ts:192`, `:989`). If the pipeline
or a delivery has written a newer manifest meanwhile, the old one is back in
memory. Then a failing stage writes the earlier stage (`:353`) and the retry
runs a finished one again; or, during `acceptDelivery`, the pipeline goes on
with the manifest of the restore before, or with none. Both traces are in the
model: `Answer` sets `overtaken` when what it assigns is not the `Latest`
manifest, and `NoReplay`, `KeepsManifest` and `EndsUnlessInterrupted` hold until
then; without that exception TLC refutes the first two. `OpensWhole` needs no
exception: what was done before a stage stays done, so a stale manifest makes
stages run twice but leaves none out.

Two restores are needed for a late delivery of the first to meet the second;
two deaths for one during the recovery from another. Assumed: an operation on
the state directory succeeds or the process dies. Of durations: a stage takes
longer than the reading and the file operations of an open request and the one
statement it sends (`RequestsSettled`); the connection of the statement that
mirrors a result takes longer than reading or writing the manifest, and so does
the preparation of pg_restore (`FilesSettled`); the worker resends only after its
15 s, when the earlier request is past its file operations. The administrator
retries only what has not ended or still blocks the site, within the token's
hour (`WorthRetrying`).

Fairness: the event loop runs what is ready (`HandlerStep`, `PipelineStep`,
`Answer`), a stopped process is started again by the container, and the
administrator retries. `PipelineStep` is strongly fair because a page that polls
for ever is between two requests again and again, and the model makes a stage
wait for that. `EndsUnlessInterrupted` names the situations in which maintenance
does not end by itself; section 8 describes them.

**Proved** (`Recovery_proofs`), for any restores, deliveries, status requests,
attempts, crashes and failures: `OpensAlwaysWhole`, `NeverReplays`,
`ManifestAlwaysKept`. There are two invariants.

* `SafeInv` holds in every state and carries `OpensAlwaysWhole`. It speaks of the
  stages that some manifest names (`Named`): on disk, in memory, about to be
  written, or read by a request that is not answered yet. Before each of them,
  everything is in force (`NamedDone`); RESTORING is never named together with
  DONE (`NeverBoth`), nor without the marker, and nobody names a later stage
  while it is worked at (`RestoringLast`, for which `ResumesLow` says what a retry
  will find).
* `Inv` holds while `overtaken` is false and carries the other two. The manifest
  on disk is never ahead of the one in memory while the pipeline runs
  (`PipeFits`), a restore that has begun to overwrite keeps the marker
  (`MarkerFits`), every stage was recorded (`Recorded`). `Starting` says that at
  most one restore can write a new manifest, and only while none is under way;
  `LateAlone` that from the cancelling of tasks until the site opens no delivery
  is left, which keeps a late one from meeting the end of another restore.

What the model assumes of durations the proofs assume too; of the constants, that
`None` is neither a number nor a manifest. Only checked: `EndsUnlessInterrupted`.

## 6. Parts that share a run

`MCPlatform`, `MCHr` and `MCBusiness` each instantiate parts that share no
variable. A `focus`, chosen in the initial state and never changed, says which
part moves, so that the run explores the sum of the parts and not their product;
an initial state of one part is fixed while another is looked at.

### Platform: `Sessions`, `Authority`, run `platform`

`Sessions.tla` has the session keys, the failure counters with their expiry
(`ttl`), the locks and the accounts' `session_version` (`sv`); `req` is a request
in flight, which takes one step for each Redis call or query: `GuardRead`,
`GuardLoad`, `GuardRotates`, `GuardDeletes`, `GuardTouch`, then a handler; `Incr`,
`Expire`, `LockKey`. Ids are fresh when no key and no request holds them. A
request may end before any of its steps (`Lost`): Redis or the database refuses
the call, or the process ends. Only `LockKey` puts calls together, those that
set the lock of a key and, at the account's, the addresses to unlock.

`Authority.tla` has users with role, status and versions, grants, a group, the
catalog and the cached contexts. `op` is what a transaction has read, `held` the
rows it has locked. A form reads version, catalog and grants in three queries
(`OpenForm`, `ListCatalog`, `ShowGrants`) and shows the grants whose function it
has found in the catalog; the save reads the operator and the catalog
(`LoadOperator`, `LoadCatalog`) before the transaction that compares the version
and replaces (`SaveEmployeeGrants`). Batches and groups read the catalog in the
step of their transaction. Data scopes of grants are left out.

| Focus | What moves | Property |
|---|---|---|
| sessions | guard, login, logout, password change and reset, deactivation, elevation, expiry | `RevokedStaysOut`, `RotatesAway` |
| protection | failing and succeeding logins, unlocking, expiry, lost requests | `CountersExpire` |
| roles | appointment, demotion, deactivation, restoration | `LastSuperStays` |
| accounts | demotion, deactivation and restoration against the cache | `CacheCurrent` |
| forms | forms, batches, groups, appointment | `FormCurrent` |
| context | the cache against batches, appointment and the catalog | `CacheCurrent` |

Bounds: one user, one address, two requests, three session ids; two people, two
processes, versions of permissions and of the catalog up to 2 (the focus
`context` stops at catalog version 1). Two of each are what an overlap needs; a
third id is the successor of a successor; a second catalog version lets a
function leave the catalog before a form is opened and come back before the
save. The instance is symmetric in requests, ids, people
and processes; only safety is asked of it.

**Proved** (`Platform_proofs`), for any accounts, requests, session ids, keys,
functions and processes:

* `RevokedAlwaysStaysOut` and `AlwaysRotatesAway`. The invariant `SessInv` types
  the store and says, in `Fine`, what a request knows at each step of the guard:
  past the loader its session is no older than the account was when the request
  began, and an id that is dead stays dead while a request carries it.
* `CountersAlwaysExpire`, from `CounterInv`: a counter without expiry has a
  request that is about to give it one. Only the loss of that request leaves it
  behind, which the property excepts and the model reaches.
* `CacheAlwaysCurrent` and `FormAlwaysCurrent`. The invariant `AuthInv` says what
  each step of `rebuildAuthContext` has read *if its versions still hold*; it is
  kept because versions only rise and every change of grants, role, catalog or
  life cycle that could make a stale context pass raises one (`Rise`). For a
  form it says that what is shown is the grants inside the catalog that was
  listed as long as the version holds. A function that was not listed and is in
  the catalog of the save is the exception: its grant goes unseen.
* `LastSuperAlwaysStays`, for finitely many accounts. Of all steps only a
  deactivation can take the last active super administrator away, and only when
  the targets it had read are not the super administrators among them that it
  would find now. `SuperInv` says that the rows a process has locked stay active
  super administrators until it commits.

Everything asked of these parts is proved; no liveness is.

### hr: `HrOrg`, `HrOvertime`, `Holidays`, run `hr`

`HrOrg.tla`: a transaction reads and decides in one step and writes in another;
unique indexes and foreign keys are checked at the write. `HrOvertime.tla`: a
submission is validated, its holiday resolved, its key looked up, its advisory
locks taken one by one, then written. `Holidays.tla`: the callers of a date, its
task and the semaphore.

| Focus | What moves | Property |
|---|---|---|
| tree | departments | `OrganisationSound` |
| assets | assets given to departments that are closed | `OrganisationSound` |
| staff | positions, members, closing of departments | `OrganisationSound` |
| applications | applications and their decision, accounts, the late task, disabling | `ApprovedApplied`, `RestoredClean`, `OrganisationSound` |
| approval | one application approved while its applicant and its position are edited | `OrganisationSound`, `ApprovedApplied` |
| overtime | two submissions with two keys over overlapping slots | `NoOverlap`, `OncePerKey`, `SubmissionsEnd` |
| holidays | three calls, two dates, one place at the provider | `CallersAnswered` |

*Operations that overtake each other.* Nothing in the code keeps two editors of
the organisation apart, and two that each decide before the other has written
break what `docs/prds/hr/prd.md:80`, `:87` and `:95` ask for. Three pairs do it:
two moves of departments close a cycle; a position's departments are narrowed
while somebody is assigned to it; two assignments of one employee (by hand or by
an approval) pass each other. The model has all of them: `overtaken` holds the
transactions that such a rival (`Rival`) has committed during, and
`OrganisationSound` says that nothing else does harm: of every step that breaks
the order of the tree or the fit of a position, it was the commit of an
overtaken transaction. The exception is reached: without it TLC refutes both
halves, in the foci tree, staff and approval. What remains are the deletions that
cascade, restorations and late approvals in the middle of an edit, departments
and positions that go while they are being assigned, all of which the code must
get right by itself, and operations that nothing overtook. Two deletions and
insertions of the same rows at once may leave rows of both (`Missed`).

Assumed: an id of a deleted department or position is not given out again
("GONE"). A
continuation of a promise runs before the next I/O event. An error of the
database ends the request. Life-cycle versions stop at 2: deactivated and
restored once, with the task of the deactivation arriving at any moment.

Fairness: a submission's and a holiday task's own steps are weakly fair (the
event loop and the database go on; a holiday request has a timeout). Nobody has
to submit or to decide.

**Proved** (`Hr_proofs`): `AlwaysApprovedApplied` and `AlwaysRestoredClean` from
`AppInv` (what a transaction has read fits the application, accounts have a
life-cycle version, an application knows the life it was submitted in), for any
employees, positions, applications and lives;
`AlwaysOncePerKey` from `KeyInv`, for any submissions. `AlwaysNoOverlap` from
`OverlapInv`: no lock has two holders, and who is about to write holds the locks
of all its employees, whom it has found free; the order in which locks are taken
plays no part in it.

`OrganisationStaysSound`, without any assumption on who works when, from
`OrgInv`. What a transaction found when it decided still holds when it writes, or
the write fails, for every transaction that is not overtaken (`Stands`); parents
exist, and who holds a position holds one that exists. For a commit that overtook
nobody the rows it replaces are those it has read (`NoneMissed`). That a move closes no cycle
needs no induction: `Above` is the least set that holds a department and climbs,
so a set that climbs and leaves a department out is a witness of not being above
it, and `EdgeComes`, `EdgesGo` and `LeafComes` build the witnesses for the new
tree.

Only checked: `SubmissionsEnd`, `CallersAnswered`.

### Business: locks, `FinProjects`, `XlsxPool`, `FixedAssets`, run `business`

| Focus | What moves | Property |
|---|---|---|
| locks | 3 transactions with any operation of the asset service but transfers and corrections, one line each | `NoLockCycle` |
| edits | one import against the other handlers | `OverwritesWhatWasSeen` |
| imports | two imports of one user, aborts, the clock | `OneImportAtATime` |
| workbooks | 4 tasks, 2 threads, aborts, deaths, shutdown | `AnswersItself`, `TasksSettle` |
| repairs | 2 transactions on one asset with 2 orders | `RepairHasOrder` |
| codes | 3 transactions on one asset with 3 codes | `RevokedForGood` |

`FinProjects.tla`: `project` is a row with its business key and revision,
`request` an import with what its preview showed, `lock` the Redis key,
`rowLock` the rows an open import has updated, `editor` what another handler has
read. `changes` is history: how often a project really changed, which the
revision is meant to tell. Between the guard, which takes the lock, and the
handler, which makes the signal, a request is "receiving" its file (or
"resending" it): its body is read, the access checked and the operator loaded
(`StartHandler`). A client that leaves then frees the lock, and the request goes
on, "unheard": `Abort`. It is the exception that `OneImportAtATime` states;
without it TLC refutes the property. `OverwritesWhatWasSeen` has no exception: it
rests on the revision and not on the lock. A confirmation carries OVERWRITE for
some rows shown with a project and SKIP for any others; `ToCreate` and
`ToOverwrite` are decided by what the rows mean now. Bounds: at most two changes
in all in `edits` (one overtakes the import, one comes after), one change, files
of one row and no SKIP in `imports`. `XlsxPool.tla`: after `Stop` the promise of a running task never
settles, hence "or stopped" in `TasksSettle`. `FixedAssets.tla`: a handler's
reads are one step and its writes with the commit another.

Fairness: a thread ends its work, posted messages are read and terminated
threads replaced.

**Proved**: in `AssetRows_proofs`, `RepairAlwaysHasOrder` (inductive with the
types in `WellTyped`) and `RevokedStaysRevoked` (with `RevokedIsReplaced`: a
revoked code's asset has a code of a later number), for any assets, orders,
codes and handlers. In `FinProjects_proofs`, `OneImportAlways` from `LockInv`
(`TokenHeld`: an import that may still write and whose client's end has not gone
unheard holds the lock's token) and
`AlwaysOverwritesWhatWasSeen` from `SeenInv`: the revision counts the changes,
and an import that is writing has locked its rows at the revision that was
shown. Assumed: no request is the word "none" (the free lock), years are
positive, files name known projects. `AlwaysAnswersItself`, from `PoolInv`, for
any tasks and any number of threads: a worker that is free and not being
terminated has nothing posted and runs nothing, so a message that arrives while a
worker has a task is about that task. Only checked: `TasksSettle`.

## 7. Locks

`RowLocks.tla` is PostgreSQL's row locking seen from outside: a transaction is a
sequence of locks, kept until it commits. `AssetLocks.tla` gives each operation
of the asset service its sequence, from its statements. A `FOR UPDATE` without
`OF` on a join locks the rows of both tables. `MCAssetLocks` instantiates it for
`locks_transfer` (a transfer and a claim of one consumable, **violated**
`NoLockCycle`) and, inside `MCBusiness`, for the other operations, which pass.
Commit is the end of every program, so "deadlock" in TLC's sense is not asked
for: a cycle of waiting transactions is a state of its own.

*Transfer:* item 1, the consumable, item 2 by the transfer; item 2, then the
consumable by the claim. The same happens with corrections and with requests of
two lines. Each of them ends with PostgreSQL failing one of the two transactions.

**Proved** (`AssetRows_proofs`): `OrderedLocking`, for any number of transactions,
rows and programs: if some numbering of the rows, bounded, increases along every
program, then `Spec => []NoLockCycle`. The inductive invariant is `WellFormed`;
from it, along a circle of waiting transactions the number of the wanted row
would increase for ever, while a set of bounded numbers has a greatest one.

`OneLineNeverLocksUp` gives the asset service that numbering: records, then items,
then consumables, then batches, and ids of one kind ascending. For any number of
transactions and any items, consumables and borrow records (finitely many), the
operations other than transfers and corrections never wait in a cycle as long as
every request has one line. `OneLinePrograms` lists what they lock then;
`InOrderAscends` is the ordering of ids that a deletion relies on. Both hypotheses
are needed: `locks_transfer` is a transfer, and two lines of one consumable lock
item 1, the consumable, item 2 in the same way.

## 8. Divergences met while modelling

Two disagreements between code and documentation are runs (`outbox_poison`,
`locks_transfer`). The others below were met while translating the code; the
models contain the behaviour where the module is named, and no run asks for the
documented one.

* *Shutdown of the worker* (`worker-runtime.service.ts:103`, `main.ts:60`, `:71`):
  `beginShutdown` sets the flag that makes `onModuleDestroy` return at once, so
  the consumer is never closed. `TaskOutbox.Sigterm`.
* *Late heartbeat; enqueue backoff* (`background-task-worker.ts:111`,
  `outbox-scheduler.ts:268`): a process whose renewals fail for two intervals is
  reclaimed while it runs; `releaseEnqueueLease` is always called with
  `attempts = 0`, so that backoff never grows.
* *Deletion of consumables* (`consumable.service.ts:362`, `docs/prds/asset/prd.md:72`):
  references are counted without a lock; a stock-in submitted in between stays
  pending on a consumable that is gone. `asset_delete` shows that its approval
  fails rather than makes stock.
* *Write-off of the last unit* (`borrow.service.ts:360`,
  `docs/database-design/asset.md:195`): nobody removes the empty location.
* *Claims* (`claim.service.ts:274`): the consumable's type is read again at the
  approval. *Stock-in* (`stock-in.service.ts:186`): two lines at one location
  write flows whose `bookBefore` was read before the first line. *Releases and
  returns of several lines* (`claim.service.ts:321`) lock in the order in which
  the lines were sent.
* *Edit and scrapping of an asset* (`asset.service.ts:373`, `:530`,
  `docs/prds/asset/prd.md:51`): the status is written by id, so an order
  registered in between is left on an asset that is in service or scrapped;
  `batchDelete` (`asset.service.ts:578`) leaves it on a deleted one.
  `FixedAssets.CommitUpdateAsset`, `CommitScrap`, `CommitDeleteAsset`.
* *Warehouses* (`warehouse.service.ts:250`): two moves that overlap can close a
  cycle, as two moves of departments do.
* *Organisation* (`department.service.ts:207`, `position.service.ts:187`,
  `org-structure.service.ts:172`, `:221`, `position-application.service.ts:106`;
  `docs/prds/hr/prd.md:80`: a position must apply to all departments of its
  holder, whoever assigns it; `:87`: no cycle; `:95`: no such state by an edit of
  a position): the checks read what a second operation is about to change.
  `OrganisationSound` states the exception, and the model reaches it.
* *A failure counter for ever* (`login-protection.service.ts:54`, `:75`): EXPIRE is
  sent after INCR and only for the first failure; if that request is lost in
  between, the counter never expires: failures add up until a login succeeds or somebody
  unlocks the account.
  `Sessions.Lost`, the exception of `CountersExpire`.
* *A grant taken away unseen* (`grant.service.ts:244`, `:288`, `:332`): a form does
  not show the grant of a function that is not in the catalog; if the function is
  registered again before the save reads the catalog, the save deletes it.
  `Authority.Replaced`, the exception of `FormCurrent`.
* *Recovery after a failed pg_restore* (`recovery-executor.service.ts:537`, `:881`,
  comment `:326`): the retry reads the backup's row in the database that was
  begun to be overwritten. *A crash between DONE and the removal of the marker*
  (`:345`): the first status request makes the control session invalid and
  maintenance stays. Both are exceptions of `EndsUnlessInterrupted`.
* *A stale status answer* (`recovery-executor.service.ts:193`, comment `:202`,
  `docs/prds/backstage/prd.md`, section 10): a poll of the control page that
  overlaps the writing of the manifest puts the old one back; a finished stage
  may then run again, and the manifest of an unfinished restore may be replaced
  by the one before. `Recovery.Answer`, the exception `overtaken` (section 5).
* *After a restore of the whole database* (`recovery-executor.service.ts:588`,
  `:618`, `backup.service.ts:237`, `docs/prds/backstage/prd.md:133`): the restored
  backup's own row is RUNNING for ever and blocks new backups.
  *`confirmRestore`* (`backup.service.ts:264`) reads and inserts without a unique
  index. *Retention* (`backup-task.processor.ts:184`, `prd.md:126`) may delete the
  backup a restore is about to use, and its query returns `oss_object_key` where
  the loop reads `objectKey` (`:195`).
* *Last super administrator* (`user-lifecycle.service.ts:374`,
  `docs/prds/backstage/prd.md:50`): the targets of a batch are read before the
  super administrators are locked; one appointed in between is not counted.
  `LastSuperStays` states the exception, and the model reaches it.
* *Login with the old password* (`auth.service.ts:344`, `session.service.ts:66`,
  `docs/prds/base/prd.md:47`): the account is read again for the session, after
  the password was compared; a change in between gives the login the new
  version. `Sessions.CreateUserSession`.
* *Overtime sent again* (`overtime-submission.service.ts:96`,
  `docs/prds/prd.md:207`): the batch is validated before its key is looked up, so
  the repetition finds its own lines in the way and is refused.
  `HrOvertime.SubmitOvertime`.
* *Import* (`import.service.ts:648`, `docs/prds/fin/prd.md:95`): a row chosen to be
  overwritten that has become a conflict, or one shown as new that exists now, is
  passed over, one shown as a conflict that is new now is created though nobody
  chose it, and the rest is written. `FinProjects.ToCreate`, `ToOverwrite`.
* *Two imports of one user* (`excel-import-lock.guard.ts:61`,
  `excel.controller.ts:70`, `:105`; `docs/prds/fin/prd.md:95`: one import of a user
  at a time, the occupancy released at its end): the guard's listener frees the
  lock of a request whose client leaves; the handler's signal is made after the
  body is read and two queries have been awaited, and does not look at what
  happened before. In between, the import goes on without its lock.
  `FinProjects.Abort`, the exception of `OneImportAtATime`.
* *Image clean-up* (`image-cleanup.processor.ts:57`): a reference made between the
  second look-up of a key and the deletion of its object is not seen.

## 9. Not modelled

* Backups, retention, image clean-up, log retention: sequences of external
  programs and object storage calls; to the outbox they are a processor that
  returns or throws.
* Activation and DingTalk flows, menus, content, settings, logs, dictionaries,
  titles, statistics, exports, approval numbers and pending limits: queries and
  single-row writes, where no rule spans two transactions.
* Finance arithmetic and spreadsheet parsing: wording and numbers without
  control; the import model keeps which row means which project.
* Migration runner, contracts, logging, file and HTTP plumbing, and the web
  client, which is more than a fifth of the source: straight-line code, or user interface
  whose decisions the server makes again.

Liveness is only checked, never proved: the prover has no fairness reasoning.
What recursive definitions of the library compute is proved where a smallest
counterexample does it (`Sums_proofs`, and `HasOrder` for sorted ids), and
otherwise checked: the sequences of locks of requests with several lines.

## 10. Running

`tlc -workers 2 -config X.cfg M` for each run of `PROJECT.json`; `tlapm
M_proofs.tla` for each proof module.
