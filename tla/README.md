# A TLA+ verification of stapel-gdpr

stapel-gdpr is a Django library that carries the data-protection duties of a
service landscape: it erases people and entities across many data owners and
keeps the receipts, closes accounts after a grace period, collects data exports,
runs the queue of data-subject requests, and remembers, as digests, who was
erased. Its promises are about *sequences* of events in several processes (web
workers, bus consumers, celery workers, operator commands) that share one
database and talk to services that fail, repeat themselves or say nothing. This
directory models those processes, model-checks them on small instances and
proves most of its safety promises for every instance.

## 1. The system

| Component | State it keeps | Operations | Talks to |
|---|---|---|---|
| Receipts ledger (`orchestrator.py`, `models.py`, `actions.py`) | `ErasureRequest`, `ErasurePart`, `SubprocessorObligation` | `request_erasure`, `mark_section_erased`, `_maybe_finalize`, `sweep_deletion_deadlines`, `gdpr_requeue_after_restore` | data owners over the bus; account closure |
| Data-owner inventory (`owners.py`, `declarations.py`, `checks.py`) | settings, registered providers, constants of installed modules | `data_owner_report`, `installed_owner_declarations`, the system checks at start | read by ledger, closure, export, probe |
| Account closure (`orchestrator.py`, `lifecycle.py`, `guards.py`, `tasks.py`) | `AccountClosureRequest`, `LegalHold`, the user row | `initiate_closure`, `cancel_closure`, `process_expired_grace_periods`, `execute_deletion` | ledger, in-process providers, re-registration memory |
| Data export (`orchestrator.py`, `export_store.py`, `views.py`, `tasks.py`) | `DataExportRequest`, `DataExportPart`, staging directory, export store, peers' bucket | `request_export`, `run_export`, `mark_part_ready`, `sweep_deadlines`, `_try_assemble`, download, `purge_expired_exports` | providers, peer services, object storage |
| Data-subject requests (`dsar.py`, `views.py`, `tasks.py`) | `DsarRequest` | `create_dsar`, `wire_dsar`, staff edits, `sweep_dsar_deadlines` | notification service, closure, export |
| Re-registration memory (`reregistration.py`, `tasks.py`) | `ReRegistrationHash` | `store_hashes`, `is_reregistration`, `run_retention_cleanup`, `gdpr_purge_unverified_hashes` | called from `execute_deletion` |
| Subprocessor windows (`subprocessors.py`) | `SubprocessorObligation` | `record_subprocessor_obligations`, `fully_erased_by` | ledger |
| Closure token, intake throttling (`closure_token.py`, `throttling.py`, `views.py`) | a signed token; a cache counter | resolve, cancel, re-close; `allow_request` | closure |
| Owner probe (`orchestrator.py`, `actions.py`, `tasks.py`) | `DataOwnerHealth` | `probe_data_owners`, `record_owner_alive`, the liveness report | owners over the bus |
| Inactivity closure (`tasks.py`) | the user's last login | warnings, `initiate_closure` | closure |
| Client for peer services (`client.py`) | none | `request_erasure` with a key, the consumer of export requests | ledger, export |
| Settings, admin, serializers, migrations | none of their own | | |

What is hard about it:

* **Nothing is locked where it matters.** Except for the claim of an export
  (`select_for_update`) and three conditional `UPDATE`s, the code reads rows,
  decides, and saves instances it read earlier. The database is in autocommit,
  so any other process can act between two statements.
* **Calls are abandoned half-way.** An emit raises, a provider fails, a worker
  is killed, a release replaces every process; what was committed stays.
* **Delivery is at least once.** Receipts and part-ready messages repeat, come
  late, or come from somebody who was not asked.
* **Silence is an input.** Deadlines turn missing answers into states and alarms.

What makes each part correct:

* ledger: DELETED is a certificate (every owner that was asked has confirmed);
  a key never mints two requests; a receipt is never lost; silence becomes a
  state; a completed erasure informs every processor;
* closure: nothing is erased inside the grace period; DELETED means the person,
  the local data and every receipt; an erasure that began comes to an end;
* export: one assembly and one announcement; one download; READY archives are
  there; a peer's slice is not destroyed before it is in the archive; partial
  archives say so; expired archives are gone;
* DSAR: acknowledgements are proof; an email address alone starts nothing; a
  missed statutory clock raises one alarm;
* memory: digests last their retention, are one per identifier, recognise nobody
  without a ground for it, and are forgotten;
* doors: whoever cancels in time keeps the account; the token handed out works until
  the last moment; nobody is deactivated without a closure to cancel; a refusal has a
  spent budget behind it; an inactivity closure has a warning before it, if the task ran
  when it was due;
* inventory: a deployment that starts without a word asks every installed store about
  everything it can erase, and names exactly the owners that stopped listening.

`PROJECT.json` lists the hazards behind these, each at its line.

## 2. Modules

| Module | Role |
|---|---|
| `Erasure` | the receipts ledger |
| `Certificate` | abstract specification: what the outcome of an erasure promises |
| `Closure` | `EXTENDS Erasure`; the account closure composed with the ledger |
| `Export` | one person's data export |
| `Delivery` | abstract specification: what an export promises the person who asked |
| `Dsar` | the queue of data-subject requests |
| `Reregistration` | digests of the erased, and retention |
| `Door` | one account: the endpoints that close it and cancel, their budget and token, the inactivity task, the grace sweep |
| `Inventory` | a deployment's data owners: report, declarations, checks at start, liveness probe |
| `ErasureProofs`, `ClosureProofs`, `ExportProofs`, `DsarProofs`, `ReregistrationProofs`, `DoorProofs`, `InventoryProofs` | TLAPS proofs about each of them; `ClosureProofs` builds on `ErasureProofs` |
| `MCErasure`, `MCClosure`, `MCExport`, `MCDsar`, `MCReregistration`, `MCDoor`, `MCInventory` | instances for TLC, each with its `.cfg` files |

Conventions shared by all of them:

* **One action is one database statement, one `mutate_and_emit()` transaction or
  one storage operation.** A call that takes several is a small program: its
  program counter and locals live in a per-process record (`job`, `sweep`,
  `exec`, `web`, `desk`, `call`) or, in `Export`, in per-process functions.
  What a process read in an earlier step may be stale when it is used, exactly
  as a Django instance is.
* **Statements do not fail by themselves.** Buses, providers, stores,
  notifications and emits do, and processes crash; an abandoned call keeps what
  it has committed.
* Rows are functions from primary keys, with `"absent"` for a row that is not
  there. Timestamps are natural numbers, or booleans when only "is it set"
  matters. Names and payloads are model values.
* Variables marked *history* record what happened for the properties; no guard
  reads them, except that `minted > 0` stands for "`download_expires_at` is set".
* Operators introduced by "Mutation:" are plausible bugs, used only to check
  that a property would notice them.

### Erasure

State: the columns of `ErasureRequest` (`state`, `subject`, `key`, `source`,
`completed`, `waived`) and of `ErasurePart` (`part`, `deadline`), the
obligations (`obliged`), the actions committed to the outbox, the confirmations
owners have sent (`confirmed`), the inventory of the running release
(`registry`), the clock, one call per worker and one sweep per sweeper.

* `RequestErasure` (pre-check of the key), `RequestErasureInsert` (row, parts and
  announcement in one transaction), `RequestErasureLost` (the unique constraint)
  and `RequeueAfterRestore` are `request_erasure` and the restore command.
* `OwnerConfirms` is the environment; `MarkSectionErased` is the conditional
  update of the part; `Refresh`, `Judge`, `SaveDeleted`, `Oblige`, `Obliged` are
  the rest of `_maybe_finalize`: reading state, collecting blockers (inventory
  problems, nobody claims the subject, missing receipts), the save that does not
  look at the state again, one `get_or_create` per processor.
* `SweepRead`, `SweepUpdate`, `SweepSelect`, `SweepFlip` are the four queries of
  `sweep_deletion_deadlines`.
* `Crash`, `SweepCrash`, `Redeploy`, `Tick` are the environment.

`Certificate` knows only who was asked, who answered and the word published
(`ErasureRequest.outcome`). `Promise` in `Erasure` is the refinement mapping.

### Closure

Adds the closure row, the link from a request to its closure, the user
(`active`, `identity`, `held`), the three `user.deletion_*` events, web calls
and executor calls. `InitiateClosure`/`InitiateCommit` and
`CancelClosure`/`CancelCommit` are check and transaction; `GraceSweep` is the
queryset of `process_expired_grace_periods`; `ExecuteCheck` ...
`ExecuteFinalize` are `execute_deletion` statement by statement. `Gate` is the
extra guard `_maybe_finalize` has for requests that execute a closure, and
`CloseAccount` its last write. A request created in the same call carries the
caller's closure instance, a reused one reads the row: `ExecuteFinalize` keeps
the difference. `ReExecute` is the re-invocation the docstring of
`execute_deletion` speaks of; no task does it, so it is switched by `Retries`.
The ledger's own steps are used unchanged through `Ledger(...)`. Requests are
account erasures here; entity erasures and restores belong to `Erasure`.

### Export

The row and its parts, the staging directory, the export store, the bucket of
the peers, the queued task, and per worker one call. `TryAssemble` is the claim
under the row lock, `GaugeParts` to `PurgeBucketParts` the assembly in the
code's order, `AssemblyFails` its exception handler with the task's retry.
`Failing` says which kinds of operation may fail in a run and `MaxFailures` how
often. A bucket path is one of three kinds (a key of this export, empty, foreign),
which is all `is_safe_bucket_path` tells apart. A peer reports one path per export;
the bus may deliver the report again and again.

`Delivery` knows nothing of workers, parts and files: an archive is asked for, offered
once with contents and a label that are final, taken, handed over, or withdrawn after its
window. `Progress` reads that stage off a row and `Promise` is the refinement mapping.

### Dsar

The row with both clocks in days (day 0 is a Monday), acknowledgements really
accepted, who vouches for the account (`matched`), the alarms, and the mechanisms
under way per account, which stand for modules `Closure` and `Export`.
`BusinessDaysFrom` is `business_days_from`, day by day, a function of the two variables
of its loop (`Loop`). `DsarRequest.erasure_request`
has no action: nothing in the code writes it, although the comment at
`src/dsar.py:139` speaks of the link; a closure is noted and not linked.

### Reregistration

A digest is modelled by the identifier it is of and by how it was computed (its
*format*: our HMAC, the old salted SHA-256, anything else); two formats never give one
value, so the unique constraint makes one row per identifier and format. The *scheme* is
a column of its own, what the writer says the format is, and `Recognised`
(`is_reregistration`) asks for the two pairs of `Matching`. `StoreHash` is one
`get_or_create`, which finds a row by its digest whatever its scheme; the expiry is the
one computed when the call began. `DeletionFails` is a provider, the identity erasure or
the worker failing after some digests were stored, `ExecuteDeletion` possibly a second
attempt. `ForeignWrite` is a writer outside the library: `ReRegistrationHash.save`
refuses it only when no scheme is stated, so it may write any format under any scheme,
ours included, with any expiry. `CleanupRead`/`CleanupDelete` are the two statements of
the cleanup, `PurgeUnverified` the command with and without `--include-legacy`. Hashing
and normalisation are abstracted: two spellings of one address are one identifier.

### Door

One account, its closures in the order of their keys, the person's session and the
tokens they were handed, the cache entry of the `account_close` scope. `CloseAccount`
is the permission check, `Spend`, `Refuse`, `SpendSet` and `SpendUnavailable` are
`throttling.spend` (read and write of the cache are two operations, and a cache that is
down admits), `InitiateCheck` and `InitiateCommit` are `initiate_closure` as its
callers see it. `CancelWithToken` resolves the token to the newest closure,
`CancelWithSession` goes by the session, and both continue in `CancelRead` and
`CancelSave`, which look for whichever closure is in GRACE. `InactivitySelect`,
`InactivityCheck`, `InactivityCommit`, `InactivityWarn` are `check_inactive_accounts`;
`SweepSelect` to `Finalize` is what is left of module `Closure` when only its effect on
the doors matters. `Login` and `ClaimSync` are the host (external), and
`AdmitsInactive` says whether its login lets a deactivated user in.

The inactivity task is due every `Day = 2 * HalfDay` units (`nextBeat`; the hour is
arbitrary) and a worker takes the beat up to `MaxLate` units late, so consecutive runs may
be closer or further apart than a day; a warning's window reaches `HalfDay` to either side
of the moment the worker reads. `looked` records in which windows the task ran since the
last login. Calls and tasks take less than a unit, and the hourly sweep finds an expired
grace within one: `Tick` waits for both.

### Inventory

A deployment is one record of settings and installed code (the comment at the head of
the module lists the fields); names are spellings, `Strip` takes the blanks off and
`Similar` is what difflib calls a near miss. `Owners`, `Missing`, `Undeclared`, `Asked`
are `data_owner_report` and what `request_erasure` does with it; `Declared`, `Claims`,
`Nearest` are `installed_owner_declarations`, `_merge` and `nearest_declared_name`;
`RegistryErrors`, `NameErrors`, `NameWarnings`, `StorageErrors` are the checks
`gdpr.E001`, `E002`, `E009`, `E010`, `W011`, `W012`, `E013`. `ArchivePlace` is where
`export_storage` really puts archives: the store `STORAGES` names under the library's
alias, or else the archive root. `Boot` starts the deployment
when no check is an error. From then on `ProbeDataOwners`, `Answer`, `HandleOwnerAlive`
run over a bus that is late by up to `MaxDelay` and repeats itself, and `Turn` stops or
starts a subscriber; `Silent` is the report of `gdpr.W006` and `DataOwnerHealthView`.

## 3. Runs

Passing runs:

* **`erasure_safety`** - two requests, one key, two subjects, two owners, two
  workers, one sweep, every fault, two inventories (one sound; a smaller one, with a
  subject nobody claims) and the hatch
  `ALLOW_ERASURE_WITHOUT_RECEIPTS` open. `CertifiedByReceipts`,
  `NoDuplicateRequests`, `TimeoutsAnnounced`, `ReceiptsDurable`. With
  the hatch open a blocked call may still end without saving (a crash), so the
  behaviours of a closed hatch are included. There are no processors here; they
  multiply the states without touching these properties. Symmetry: request ids
  and workers.
* **`erasure_live`** - two requests, no faults, one processor, hatch closed:
  `ReceiptsSettle`, `SilenceSettles`, `CompletionObliges`, and
  `ImplementsCertificate`, the refinement of `Certificate`.
* **`closure_safety`** - one account and closure, all faults and failures, holds,
  redeploys, re-invocation: `ClosedMeansErased`, `NothingErasedInGrace`,
  `AnnouncedAfterErasure`, `ErasedIsRefused`.
* **`closure_live`** - two executors run `execute_deletion` on the same closure,
  each with its own erasure request: `GraceEndsInErasure`. That such a closure is a true
  certificate holds here too and is proved for any executors (`ClosedErased`).
* **`export_safety`** - one export, two workers, one failure of any kind, crashes
  included, at any point: `AssembledOnce`, `ServedOnce`, `AvailableUntilExpiry`,
  `NoSliceLost`, `ExportTypeOK`; `ImplementsDelivery`, the refinement of `Delivery`, with
  the same failures; and `DeadlineAssembles`: past its deadline a
  collecting export is assembled whatever failed, unless a worker died in the middle of
  its assembly (`Orphaned`: the row stays ASSEMBLING, which nothing selects).
  `CompleteArchive` and `ExpiredMeansGone` say `failures = 0` because they need it: a
  failed download is not named (`export_complete`), a failed delete is forgotten with
  its key, and a retried assembly leaves the first attempt's ZIP in the store under no
  row. With two exports, one worker and `Cooldown = 0`, `PeerPaths = {"key"}`,
  `Failing = {"assembly"}` the same properties hold: a row whose assembly raises does
  not keep the sweep from the others for ever.
* **`dsar_queue`** - one request, two desks, one sweep, failing notifications and
  emits, two staff edits: `AckIsProof`, `NoDeletionOracle`, `AnnouncedOnce`,
  `MissedClockAlarms`; `AckClockInBusinessDays`, which compares
  `business_days_from` with a reference definition for every weekday and up to
  six days; and `NoEarlyAlarm`: when an alarm is out, the promised business days (or the
  days to resolve) have really gone by.
* **`rereg_memory`** - two accounts that may use one address one after the other, legacy
  rows, and in each behaviour one disturbance: a failure (`store_hashes`, a provider, the
  identity erasure, the worker), a hold, or a row of another writer, of which the instance
  has the cases a lookup or a `get_or_create` tells apart (`ForeignKinds`):
  `MemoryLasts`, `OneRowPerIdentifier`, `NoFalseMemory`, `ExpiredIsForgotten`. Rows that
  another writer put under our scheme with our digest are believed by the code, whatever
  their expiry; the first and the third property except exactly these. The proofs have any
  number of disturbances, and rows of other writers of every kind.
* **`door_account`** - two closures one after the other or together, one request in
  flight, the inactivity task with workers on time or late, the sweep, holds, claim syncs,
  one failure (a lost letter, a missed beat, a cache that is down): `SparedIsKept`,
  `GraceHasItsToken`, `NoLockout`, `RefusalHasCause`, `ClosedAfterAWarning`. The task is
  due every 2 units and up to 1 late; a warning is for the moments 6 and 2 units before the
  9 that make an account inactive, with a grace period of 2, so either window may fall into
  a closure that is cancelled in time. `ClosedAfterAWarning` has the premise that the task
  ran in each window: without it the code does not keep it (`WarnedBeforeClosed` below).
* **`inventory_boot`** - some 700 deployments: every inventory of up to two entries
  over six spellings (one with a blank, one a near miss, one an app label), legacy
  services, opt-outs, forgotten subject types, providers that leave their subjects to
  their module, every choice of roots over three paths, an aliased store; then three and
  a half days of probes in units of half a day, with a subscriber that stops and starts:
  `EveryStoreIsAsked`, `QuietOwnerIsNamed`.

`Erasure`, `Closure`, `Dsar`, `Reregistration`, `Door` and `Inventory` state their type
invariants (`TypeOK`, `ClosureTypeOK`, `DsarTypeOK`, `MemoryTypeOK`, `DoorTypeOK`,
`InventoryTypeOK`); they hold on the instances of `erasure_safety`, `closure_safety`,
`dsar_queue`, `rereg_memory`, `door_account` and `inventory_boot`.

Runs that show where the code departs from what it says:

* **`erasure_final`** (`DeletedIsFinal`) - `sweep_deletion_deadlines` fetches the
  requests to flip, then saves each; a receipt in between completes the request
  and the save puts TIMEOUT over DELETED.
* **`closure_stuck`** (`DeletingIsRetried`) - the docstring of `execute_deletion`
  says the grace sweep retries a closure left in DELETING; the sweep selects
  GRACE only, so one failed provider leaves the closure there for ever.
* **`export_complete`** (`NothingMissingUnnamed`) - a bucket download that fails is
  logged; the part is DONE, so its section is neither in the archive nor named as
  missing. Without any failure a part marked ready between the download and the
  judgement does the same (`MaxFailures = 0`, `MaxNow = 2`).

Further disagreements. These properties are stated in the modules from the
documentation; TLC refutes each one on the instance named (start from the `.cfg`
of the run in brackets and change the constants):

| Property | Said in | Refuted by | Instance |
|---|---|---|---|
| `OneActiveClosure` | `src/models.py:172` | two `initiate_closure` calls both pass the check | [closure_stuck] two handlers, two closures |
| `CancelledOnlyInGrace` | `src/orchestrator.py:543` | `cancel_closure` saves over a closure that is DELETING by now | [closure_stuck] |
| `HoldKeepsGrace` | `src/tasks.py:210` | a hold placed between the check and the save | [closure_stuck] `Holds = TRUE` |
| `StagingCleared` | `src/orchestrator.py:346` | `run_export` creates its directory after a forced assembly has cleared it | [export_safety] |
| `OncePerCooldown` | `src/views.py:136` | check and insert are apart, and ASSEMBLING and EXPIRED rows do not count | [export_complete] two exports |
| `EveryLateExportAssembles` | `src/tasks.py:36` | an export whose enqueue failed stays PENDING; the sweep selects PROCESSING | [export_safety] `Failing = {"enqueue"}` |
| `EveryMissAnnounced` | `src/tasks.py:143` | both clocks share `overdue_notified_at`: after the acknowledgement alarm the missed resolution is never announced | [dsar_queue] |
| `FormerAccountsOnly` | `src/reregistration.py:141` | digests are stored before anything is erased; a provider that fails after that, which nobody retries (`closure_stuck`), leaves an account that is on file and remembered as deleted | [rereg_memory] |
| `EveryErasureRemembered` | `src/models.py:727` | `get_or_create` keeps the expiry of the first erasure | [rereg_memory] `Retention = 2`, `MaxNow = 3`, `MaxFailures = 0`, `MaxForeign = 0` |
| `HeldIsPreserved` | `src/tasks.py:310` | the hold is looked up under the account that wrote the digest first | [rereg_memory] |
| `WarnedBeforeClosed` | `src/tasks.py:239` | the windows have no slack: when one daily run starts on time and the next one late, a login in the gap between their windows is in neither; the task runs at 4, 10, 12 and 18, misses the windows 5 to 9 and 13 to 17 with nothing lost, and closes the account at 18 | [door_account] `Calls = {}`, `InactiveAfter = 18`, `WarnBefore = {3, 11}`, `HalfDay = 2`, `MaxLate = 2`, `MaxFailures = 0`, `MaxNow = 18` |
| `TokenActsOnItsClosure` | `src/views.py:393` | the token is resolved, then `cancel_closure` takes whichever closure is in GRACE by now | [door_account] `Calls = {k1, k2}`, `Limit = 2`, `MaxNow = 1` |
| `GraceIsCancellable` | `src/lifecycle.py:311` | a closure for inactivity hands nobody a token, and a login that refuses inactive users leaves no other way | [door_account] `AdmitsInactive = FALSE` |
| `TokenWatchesErasure` | `src/views.py:574` | the token expires with the grace period, when the erasure begins | [door_account] |
| `RollingBudget` | `src/throttling.py:24` | every admission writes the entry with a whole window ahead of it | [door_account] `Limit = 2`, `MaxNow = 3` |
| `ClosedMeansErased` | `src/orchestrator.py:938` | a request opened while no owner claims accounts has no parts; after the inventory is repaired a re-invoked `execute_deletion` reuses it and finalizes it with nobody asked | [closure_safety] a first inventory in which nobody claims `account`, and a release that repairs it |
| `ArchivesArePrivate` | `src/export_store.py:30` | `gdpr.E013` judges the export, archive and staging root and never the store `STORAGES` names, so an alias inside `MEDIA_ROOT` starts | [inventory_boot] |
| `OnlyInactiveAreClosed` | `src/tasks.py:238` | accounts are selected first and closed one by one; a login in between is not seen | [door_account] |

Smaller ones, met while reading and stated by no property: `_merge` keeps the first
statement that is not empty, not "the richest" (`src/declarations.py:152`); an entry `" auth"` hides a later `"auth"`
(`src/owners.py:195`), which `gdpr.E002` or `E010` then reports; the client's key is a
function of the subject (`src/client.py:181`), so after a request that timed out asking
again returns that request.

### Bounds, and why they are enough

Every race in this code is between at most two calls and a sweep on one row, and
every failure that matters is one failed or abandoned call; so the instances have
two workers (or two executors, handlers, desks), one sweep, and one row, two where
a property relates rows (keys, restores, overlapping executions). Two owners are the
least for which "some receipts but not all" exists; two subjects the least for an
inventory that is sound while nobody claims one. Clocks end one or two units after
the last deadline, which is where the model has seen every order of "before" and
"after". Bounds in guards: `MaxNow` (clock), `RowsLeft` and `ClosuresLeft`
(primary keys left), `MaxFailures`, `MaxPatches`, `MaxHolds`, `MaxForeign` (kinds of
rows other writers write; `Bounds` in `MCReregistration` adds that one disturbance, of
whatever sort, happens per behaviour), `MaxRetries` (the task's own `max_retries`), `MaxClosures` (closures of one account), `MaxTurns`
(how often subscribers stop and start); `MaxDelay` is the bus's, `MaxLate` the workers'. Runs with `CHECK_DEADLOCK FALSE` end because keys and
time have run out and every account is erased, or because a deployment does not
start; in the others a restore, a redelivery or a hold is always possible.
Only `erasure_safety` uses symmetry.

### Fairness, and why the code justifies it

* Weak fairness of the steps of a call that has begun: a thread that is not
  killed runs on. In `export_safety` workers may be killed, and a killed call has no
  more steps to be fair about; the other runs with liveness have no crashes.
* Weak fairness of taking a confirmation, a completed part or a queued task: the
  bus and the broker redeliver until somebody handles it. In `Export` this is
  strong fairness, because the workers that could take it are also busy with
  other calls, again and again, and the queue does not lose the message meanwhile.
* Weak (in `Export` strong) fairness of starting the sweeps: celery beat starts
  them on a schedule.
* `Tick`: time passes.
* Owners that were asked answer in the end: only in `closure_live`, where the
  question is who finalizes; never in `erasure_live`, where the silence of an owner
  is what `SilenceSettles` is about.
* Nobody has to open, cancel, download, edit or resolve anything, and nothing has
  to fail.

## 4. Proofs

Every theorem is of the form `Spec => []Inv` (or the action property, or the
refinement) and holds for any values of the constants: any numbers of rows, workers,
sweepers, executors, desks, owners and services, any timeouts, windows, delays and
clocks, with all the faults of the module. What they assume is the named `ASSUME` of
each module, which TLC evaluates in its runs, and, for four theorems, a hypothesis that
is written into the theorem and discussed below.

| Module | Theorem | States | Inductive invariant |
|---|---|---|---|
| `ErasureProofs` | `TypeCorrect` | `TypeOK` | itself |
| | `Certified` | `CertifiedByReceipts` | `ReceiptInv` |
| | `Durable` | `ReceiptsDurable` | `ReceiptInv` |
| | `Unique` | `NoDuplicateRequests` | `UniqueInv` |
| | `Announced` | `TimeoutsAnnounced` | `TimeoutInv` |
| | `Certificates` | `ImplementsCertificate` | `TimeoutInv` |
| `ClosureProofs` | `ClosureTypes` | `ClosureTypeOK` | `ClosureTypeInv` |
| | `GraceRespected`, `AnnouncedLast`, `Refused` | `NothingErasedInGrace`, `AnnouncedAfterErasure`, `ErasedIsRefused` | `GraceInv` |
| | `ClosedErased` | `ClosedMeansErased`, if `AccountClaimed` | `ClosedInv` |
| `ExportProofs` | `ExportTypes` | `ExportTypeOK` | `ExportTypeInv` |
| | `OneAssembly`, `OneDownload` | `AssembledOnce`, `ServedOnce` | `LifeInv` |
| | `Available`, `SlicesKept` | `AvailableUntilExpiry`, `NoSliceLost` | `FilesInv` |
| | `ExpiredGone`, `Complete` | `ExpiredMeansGone`, `CompleteArchive` | `CleanInv`, `CompleteInv` |
| | `Deliveries` | `ImplementsDelivery` | `LifeInv` |
| `DsarProofs` | `ProvenAck`, `NoOracle` | `AckIsProof`, `NoDeletionOracle` | `OracleInv` |
| | `Once` | `AnnouncedOnce`, if `SweepsApart` | `OnceInv` |
| | `BusinessClock`, `AlarmsInTime` | `AckClockInBusinessDays`, `NoEarlyAlarm` | `ClockInv` |
| | `DsarTypes` | `DsarTypeOK` | `RestTypes`, with `OracleInv` and `ClockInv` |
| `ReregistrationProofs` | `MemoryTypes` | `MemoryTypeOK` | `MemoryTypeInv` |
| | `Lasts`, `OneRow`, `TrueMemory` | `MemoryLasts`, `OneRowPerIdentifier`, `NoFalseMemory` | `MemoryInv` |
| `DoorProofs` | `DoorTypes` | `DoorTypeOK` | `DoorTypeInv` |
| | `Refusals` | `RefusalHasCause` | `BudgetInv` |
| | `Spared`, `NotLockedOut`, `TokenWorks` | `SparedIsKept`, `NoLockout`, `GraceHasItsToken` | `DoorInv` |
| | `WarnedFirst` | `ClosedAfterAWarning`, if `WarningsApart` | `WarnInv` |
| `InventoryProofs` | `EveryoneAsked` | `EveryStoreIsAsked`, if `SeamsAgree` | `BootInv` |
| | `QuietNamed` | `QuietOwnerIsNamed` | `ProbeInv` |

The proofs have one shape. The type invariant is strengthened by where the locals of a
call may be (`CallsTyped`, `CallsLocated`, `WorkLocated`, ...). *Summary lemmas* say
once, action by action, what a step can do to one variable (`PartsFinal`, `RowSteps`,
`FileSteps`, `MemorySteps`, ...); the invariants are then carried across a step from the
summaries, not from the actions.

### Erasure

`CertifiedByReceipts` is not inductive: the judgement (`Judge`) and the save
(`SaveDeleted`) are separate steps, and the save does not look again. The inductive
invariant is

    ReceiptInv == TypeOK /\ PartsGrounded /\ CallsGrounded /\ CertifiedByReceipts

* `PartsGrounded`: a part exists only for a request that exists, and a DONE part has
  the owner's confirmation behind it;
* `CallsGrounded`: a call on a request handles one that exists, and a call about to
  save without a waiver saw a request that *is* fully receipted.

What carries the second one across other processes' steps is `FullStable`: once a
request exists and is fully receipted it stays so, because no step adds a part to a
request that exists (`InsertRow` needs a new key) and none leaves DONE (`PartsFinal`,
the sweep's update is conditional). That is why a stale judgement is safe for
DELETED, and the lack of the same argument for the sweep's save of TIMEOUT is exactly
the run `erasure_final`.

`UniqueInv` adds that a request restored from another names one that was completed.
`TimeoutInv` ties what the sweep read to the rows: the owners it is about to name were
overdue when it read them, deadlines do not move, and a part it has flipped can only go
on to DONE; and a request selected for the flip already has its announcement.

The refinement of `Certificate` needs the same facts. Publishing a word maps to a step
of `Certificate` only because the ledger never leaves DONE and because a TIMEOUT is put
on a row only after the announcement; all other steps are steps of the owners or leave
the mapped variables unchanged. Fairness is not part of either specification's safety
half and is not in the theorem.

### Closure

`GraceInv` relates four places that speak of one closure: its row, the request linked to
it, the executor at work on it and the identity. Its heart is `ClosureGrounded` (a
closure that has a correlation id left its grace after the grace had ended, and one that
is stamped has its local half done) and `ExecGrounded` (the same for the instance an
executor holds, which may be older than the row). `OneClaim` says why the instance does
no harm: a request is linked to one closure, for ever.

`ClosedInv` adds for every call that it handles a request whose parts were asked for
(`ExecAsked`, `JobGrounded`), so that "no part is missing" cannot be true by having no
parts. This is where a hypothesis is needed:

    AccountClaimed == Retries => \A g \in Registries : OwnersFor(g, Account) # {}

Without it the invariant is false, and TLC finds the behaviour in 26 steps: the request
of a closure is opened by a release in which nobody claims accounts and so has no parts;
`_maybe_finalize` refuses it, the inventory is repaired, `execute_deletion` is invoked
again, takes the same request (`orchestrator.py:634`) and completes it, with nobody ever
asked. The comment at `orchestrator.py:938` says that must not be. With `Retries = FALSE`,
the tasks of the repository, the theorem has no hypothesis.

### Export

`LifeInv` describes the life of a row, from which worker holds the claim (`CallLife`,
`Alone`) to what may follow READY (`RowLife`); the claim under the row lock is what makes
it inductive, every other save being made by the claimant or being conditional.
`FilesInv` adds the files: the worker between saving the ZIP and publishing the row holds
an archive that is in the store (`CallFiles`), and it holds every slice it is going to
delete from the bucket. `AvailableUntilExpiry` and `NoSliceLost` hold with any number of
failures: what a failed operation leaves behind is the old state.

`CleanInv` and `CompleteInv` speak of behaviours in which nothing has failed so far, as
the two properties do. `CleanInv` follows the archives of an export: there is the one
the assembler has just written, then the one the row names, then none, and whoever is
about to delete knows the only one there is. `CompleteInv` follows the sections: one that
is DONE is staged, or empty, or a slice in the bucket, until the archive is announced,
and an assembler that has seen no gap holds all of them. The delicate case is a provider
that writes after the assembly has removed the staging directory and therefore raises:
it marks its section FAILED under an archive that is already announced. The invariant
shows that this happens only under an archive called partial, because an assembler that
sees no gap has seen that provider's section DONE.

`Deliveries` is a refinement: every step maps to a step of `Delivery` or changes none of
its variables. `OneRow` shows that a step touches the mapped variables of at most one
export, `RowMoves` lists action by action how (`Moves`), and `DeliveryStep` matches each
of those moves. What needs `LifeInv` is that READY and a token go together, so that an
offer can be taken or withdrawn and never both: the purge lets the token die with the
row, and a download that is already past the consuming update belongs to a row that is
spent. The contents are final because nobody claims a published row again.

### Dsar

`OracleInv` follows the account from the desk that vouched for it (`DeskVouched`): an
instance at a desk may be older than the row, so the row being vouched for is not enough.
`Once` needs `SweepsApart`: two overlapping runs of the sweep both read a request
unmarked (hazard `tasks.py:182`), and then the alarm is repeated.

`BusinessClock` is about what a loop computes. `BusinessDaysFrom` is a recursive
function, to the provers a function chosen to satisfy its equation; that there is one is
shown with a closed form, `ByWeeks`, which counts whole weeks and the rest
(`BusinessDaysLoop`). That exactly the promised business days lie in between is an
induction over the loop. The library's induction theorems take an operator as a
parameter and cannot be used; the proof takes a least counterexample instead (`Least`,
from the well-foundedness of the naturals), measured by `Turns`, a bound on the turns the
loop has left (`FewerTurns`, `AllCounted`). `ClockInv` then carries the dates through the
queue: a row's dates are the ones computed on arrival, a sweep's querysets hold requests
that were late at its cut, and the cut lies in the past, so an alarm raised from an old
queryset is still not early. Overlapping sweeps do no harm here.

### Reregistration

`MemoryInv` has four parts besides the types. `Lasting`: the row of the first deletion that
stored an identifier is there with an expiry no earlier than its retention, or the
retention is over, or another writer wrote our digest of it. `Past`: a cleanup's cut-off
lies in the past, which matters because the cleanup reads the clock and the holds first and
deletes later. `Unique`: one row per identifier and format. `Grounded`: every row is from
before the scheme column, of a deletion that stored it (and then expires with that
deletion's retention), or what another writer wrote, format and scheme unchanged.
`TrueMemory` follows from `Grounded`, since a foreign row that is recognised has a pair of
`Matching`.

What is proved is what the code keeps: the digest of somebody whose deletion got as far as
`store_hashes`. That such a person was erased is not proved because it is not so
(`FormerAccountsOnly`).

### Door

`BudgetInv` bounds the counter in the cache by the admissions that really happened, also
for a call that has read the counter and not written it back, and keeps consecutive
admissions closer than a window; `RefusalHasCause` follows for the last `Limit` of them.
`DoorAssumption` says that the window is positive (`WINDOW_SECONDS` in
`throttling.py:44`). `DoorInv` needs the order of the closures: keys are handed out in
order (`InOrder`), so without a race the one in its grace is the newest
(`GraceIsNewest`), which is the one `closure_token` resolves to.

`WarnedFirst` is an argument about days. Warnings leave no mark: the task writes to
accounts that are active and whose last login falls in the window of the run, so a run in
the window of a warning sends it or finds the account deactivated. `WarnInv` dates the
rows and the task (`RowsDated`, `TaskDated`): closing ends the session, so all closures
opened between a login and the day the account is inactive were opened at one moment and
hide the account for one grace period at most (`SparableBefore`, `HiderDated`). Its heart is

    Warned == \A d \in looked : warned # {} \/ Hidden(d)

where `Hidden(d)` says that such a closure reaches into the window of `d`; that stays true
(`HiddenStays`), and one closure cannot reach into two windows under the hypothesis

    WarningsApart == \E d, e \in WarnBefore : /\ e > HalfDay /\ d - e >= GraceLength + Day
                                             /\ InactiveAfter - d >= GraceLength + HalfDay

which 60 and 14 days before 365, with a grace period of 30 days, satisfy (`tasks.py:268`).
Nothing is assumed about when the runs are: `MaxLate` is any number. Without the hypothesis
the property is false: with `GraceLength = 6`, `MaxNow = 11`, `MaxFailures = 0` in
`door_account` TLC finds a closure, cancelled at the end of its grace, that hides both
windows.

### Inventory

`BootInv` is "what is running passed the checks"; the work is in the step from there
to the property, which is about the operators of `checks.py`, `owners.py` and
`declarations.py`. `EveryoneAsked` needs

    SeamsAgree: the seams that say anything about an owner's subjects say the same

because `_merge` takes the first statement that is not empty: where a registration says
less than the installed module, the module's further subjects are never asked about and
no check objects. `QuietNamed` is an argument about time: `Gone` bounds how late an answer
of a stopped subscriber can be stamped, `Rounds` and `Chain` follow each probe to a
listening one, through the bus, until it is stamped, so that of every round something has
arrived by `Period + 2 * MaxDelay`.

### Only model-checked

* Liveness: `ReceiptsSettle`, `SilenceSettles`, `CompletionObliges`,
  `GraceEndsInErasure`, `DeadlineAssembles`, `MissedClockAlarms`, `ExpiredIsForgotten`.
  Fairness and ENABLED are out of the proof system's reach.

Every invariant of the passing runs, and every action property and refinement, has its
theorem. `InventoryTypeOK` is proved as a part of `ProbeTypeInv`.

## 5. What is not modelled

* The windows of subprocessor obligations and `fully_erased_by`: dates added to a
  completion time, planned below.
* The checks `gdpr.E004`, `W003`, `W005`, `W007`, `W008` and `W013` to `W016`: each
  judges one setting or counts rows and says so. The parsing of `DATA_OWNERS` in its three
  shapes: `Inventory` starts from the entries they become.
* The client library for peer services lives in other processes. What it asks for is
  `RequestErasure` with a key, what it reports `MarkPartReady`; its choice between bus and
  in-process call, and `has_open_erasure`, which only skips a request, are left out.
* Archive layout, readme, storage keys, hashing, signing, serializers, admin, error
  texts, translations, code generation, migrations: data and presentation, no control.
* Two overlapping runs of one periodic task are modelled for the grace sweep
  (`closure_live`), not for the DSAR and export sweeps.
* Throttling is modelled for the `account_close` scope of one account; the other scopes
  call the same function under other keys.

## 6. Plan

Done: the modules with the runs of section 3 and the proofs of section 4. Next, in this
order:

1. Subprocessor windows and `fully_erased_by` in `Erasure`.
2. Overlapping runs of the DSAR and export sweeps.
