# dsh-api: specifications, model checking and proofs

`dsh-api` is the HTTP service behind a Minecraft hosting offer. A tenant
creates, wakes and deletes game servers, chooses plugins and exports worlds;
the service keeps rows in SQLite and drives Kubernetes with `kubectl` and
`helm`. This directory holds TLA+ modules that model it, TLC configurations
that check small instances, and TLAPS proofs of every safety invariant for
instances of every size.

Paths below are relative to the repository root (`src/dsh_api/...` is the
Python package).

## 1. The system

```
 request threads ──► ServerService ──► Database (SQLite: servers, events, …)
 (HTTP, FastAPI)  │      │   ▲ 
                  │      ▼   │ set_status
                  │   job pool (2 workers) ──► cluster backend ──► kubectl / helm
                  ├──► PluginService ──► ConfigMap + plugin rows, catalog cache
                  ├──► ExportService ──► export queue (1 worker) ──► export pod, files
                  └──► FeedbackService, catalog, username lookup
```

| component | state | operations | what is hard | what makes it correct |
|---|---|---|---|---|
| ServerService `service.py` | none of its own: the row's status is the lock | create, wake, delete, list/get; jobs `_provision`, `_remove`; `recover_interrupted` | checks, then slow cluster calls, then one deciding SQL statement; two background workers; a restart loses every job | one worker per row; no row without a worker; the cap; a world is never lost or inherited; a failed delete changes nothing the tenant sees; every job ends |
| Database `db.py` | tables servers, events, server_plugins, feedback, world exports | one SQL statement (or a short transaction) each, under one lock | the statement must decide between requests that passed the same checks | `reserve_server`, `begin_delete`, `reserve_export` are atomic tests-and-sets; limits count the right rows |
| Cluster backend `cluster.py` | Kubernetes: namespace, RoleBinding, Secret, release (StatefulSet, volume) | create namespace, grant access, install, scale, wait, backup, uninstall, delete namespace; plugin ConfigMap; export pod | each call may fail having done all, part or none of it; without the RoleBinding every call is Forbidden; namespaces drain after the call returned | a retry finds what the failed call left |
| ExportService `export_service.py`, `export_pod.py` | export rows, staging files, a one-worker queue, the export pods | request, run, publish, download, sweep, `forget_server`, recovery | jobs outlive the server they were started for; a sweep walks directories while exports finish; pods outlive the call, and the process, that started them | one export of a server at a time; the daily limit; a sweep or a delete takes no result that has a row; only whole results are published; pods left over are accounted for; every accepted export ends |
| PluginService `plugin_service.py`, `selection.py` | plugin rows, ConfigMap, per-process lock | view, add, remove, apply | two stores written in order, a lock with a time-out, deletes and restarts in between | rows, hash and ConfigMap agree between changes; what is selected has what it requires; a removed plugin does not come back; nobody waits for ever behind a hung write |
| Plugin catalog `catalog.py` | a cached list with an expiry | get, refresh | a refresh fails; one malformed entry among good ones | the copy there is is served, and the good entries with it |
| Feedback `feedback.py` | feedback rows | submit | a sliding window | never more than the limit in a window |
| Default plugins, settings, auth, username lookup | none that changes | parsing, one HTTP request | – | – |
| HTTP application `main.py` | the wiring | routes, `create_app` | pool sizes; recovery before the first request | – |
| World export script `export/dsh_world_export.py` | copies of the world's files | snapshot, run the exporter, pack | the game writes to the files while they are copied | a snapshot called stable is of one moment |

The components interact through the row (status), the event log (read back by
recovery and by the search for a backup), the job pools, the cluster, and one
callback list (`after_delete`, used by the export service).

## 2. What is modelled

| module | models | kind |
|---|---|---|
| `ServerLifecycle` | ServerService, the tables it uses, the cluster calls it makes, the pool, crashes and restarts, the router, the operator | detailed specification |
| `ServerLedger` | what a tenant is promised about its servers | abstract specification |
| `ExportLedger` | what a tenant is promised about its exports: accepted, begun, ended, gone, with no queue, worker, pod, sweep or files | abstract specification |
| `SelectionLedger` | what a tenant is promised about the plugins it selects: an add or a remove is one step, with no lock, ConfigMap, catalog copy or reading | abstract specification |
| `WorldExports` | ExportService, its rows and files, its worker; the servers behave as `ServerLedger` | detailed specification, composed with the abstract one |
| `ExportPods` | what `WorldExports` calls a run: the worker's cluster calls, the pod, the stream and the script with its snapshot | detailed specification of one part |
| `PluginSelection` | PluginService, its rows, hashes and lock, the ConfigMap, the boot that installs from it; the server behaves as `ServerLedger` | detailed specification, composed with the abstract one |
| `ServerStates` | the state a `GET` shows, and what `wake`, `apply` and a delete's backup make of it | pure functions |
| `TimeLimits` | the windows of feedback and exports, `Retry-After`, links and expiry | pure functions |
| `ExportAreas` | the area of an export, checked by the API and by the script, and its region files | pure functions |
| `PluginCatalog` | the two lists of the catalog site joined; the cached copy | pure functions |
| `MCRules` | the pure functions against reference definitions, as assumptions that TLC evaluates | instances |
| `MCServerLifecycle`, `MCWorldExports`, `MCPluginSelection`, `MCExportPods` | symmetry sets, a small catalog; `MCExportPods` also brings in `MCRules` | instances |
| `ServerLifecycleProofs`, `ServerSafetyProofs`, `ServerWorldProofs`, `ServerBackupProofs` | `ServerLifecycle` | proofs |
| `WorldExportsProofs`, `ExportPodsProofs`, `PluginSelectionProofs`, `RuleProofs` | `WorldExports`, `ExportPods`, `PluginSelection`, the pure functions | proofs |

```
 ServerLifecycle ──implements──► ServerLedger ◄──INSTANCE──┬── WorldExports ──implements──► ExportLedger
                                                           │   (run: Take … Report)               ▲
                                                           │   ExportPods details the run ──implements
                                                           └── PluginSelection ──implements──► SelectionLedger
```

`WorldExports` and `ExportPods` share the worker and are not composed: `ReadWorld`
of the former works or fails as it likes, and the latter shows what that hides.
Both are shown to implement `ExportLedger`, so they agree on the rows.

### ServerLifecycle: state

| variable | stands for |
|---|---|
| `servers` | the rows: tenant, status, and `life`, a ghost that tells two servers of one name apart |
| `events` | per name, the events the code reads back: `delete.requested` (with the status to go back to), `backup` and `backup.reused` (with the path), `delete` |
| `requests` | per request thread: where it is, and what it has read of the row and of the pod |
| `jobs` | submitted jobs; the ticket is the place in the pool's queue, and `Running` lets the first `PoolSize` go on |
| `cluster` | per name: namespace phase, RoleBinding, StatefulSet (none, asleep, up), and whose world is in the volume |
| `backups` | whose backup files still exist |
| `history` | ghost: lives reserved, ever ready, saved, forced, put back as failed by a restart |
| `budget` | faults and crashes left |

### ServerLifecycle: actions

One action is one database statement or one cluster call, with everything the
code does before the next one.

| action | code |
|---|---|
| `CreateStart`, `CreateLookup`, `CreateReserve`, `CreateSubmit` | `service.create`: the checks; `namespace_exists` and the Mojang lookup; `db.reserve_server`; `jobs.submit` |
| `DeleteStart`, `DeleteCheck`, `DeleteBegin`, `DeleteSubmit` | `service.delete`: owner and status; `statefulset_status` and `players_online`; `db.begin_delete`; event and `jobs.submit` |
| `WakeStart`, `WakeScale` | `service.wake`, the scale-up |
| `CreateNamespace` … `WaitForRollout`, `ProvisionDone` | `_provision`, one action per cluster call; `Fail` is `_provision_failed` |
| `BackUpWorld`, `DoWithoutBackup` | `_back_up_for_delete`, with its three ways out: taken, reused or skipped, raised |
| `UninstallRelease`, `DeleteNamespace`, `DeleteRow`, `RecordDelete` | the rest of `_remove`; `Fail` is `_delete_failed` |
| `Restart` | the process dies and `recover_interrupted` runs; it finishes before the first request, and starting it again changes nothing more, so it is one step |
| `NamespaceDrains`, `PodScales`, `PruneBackup` | outside the program: `--wait=false` deletions finish, the router scales pods, an operator clears backups |

`Call` is the shape of every cluster call: it works, or raises with the
namespace as it was or as one of the `partly` states. A call that cannot work
(Forbidden, no such object) fails without spending the fault budget, so TLC
always sees those.

Left out, because nothing reads it back: events that are only written, texts
of errors, passwords, host names, the last-woken time. Merged, because nothing
can tell the difference: the backup file with its event.

### WorldExports

The servers are an instance of `ServerLedger`, which `ServerLifecycle` is
checked to implement: whatever an export can meet a real server doing, the
ledger does.

| variable | stands for |
|---|---|
| `ledger`, `restarts`, `lives` | the servers, and how many there have been |
| `rows`, `source` | `world_exports`: the status of each export, whose it is and of which server. `source` outlives the row, as the event and the path do |
| `expired`, `recent` | exports past their `expires_at`; exports whose `export.requested` event still counts for the day |
| `requests` | per request thread: where it is in `list`, `create` or `delete`, and what its sweep has read (`todo`, `known`, `old`, `visit`) |
| `queue`, `worker` | the pool of one worker |
| `hooks` | deletes that have removed the row and have `forget_server` to call |
| `folders`, `published` | `<export_dir>/<server>` and `<export_dir>/<server>/<id>` |
| `history` | ghost: exports somebody set out to remove, and exports reserved while a removal by name was under way |

| action | code |
|---|---|
| `List`, `StartExport` | `list` and `create` up to the sweep, with its `all_exports` when it is due |
| `SweepRow`, `SweepDropRow`, `SweepFolders`, `SweepFolder`, `SweepGoneFolder`, `SweepEnd` | `sweep`: one row, one directory at a time |
| `RefuseExport`, `ReserveExport`, `SubmitExport` | the rest of `create`; `reserve_export` decides |
| `DeleteExport`, `DropFiles`, `DropRow` | `delete`: the check, then the files, then the row |
| `Take`, `Look`, `ReadWorld`, `MakeFolder`, `Move`, `Report` | `_run`, with `Fail` for whatever it catches |
| `ForgetRows`, `ForgetFolder` | `forget_server` |
| `ServerAccepted`, `ServerChanges`, `ServerDeleted` | steps of the ledger; the last one leaves a hook |
| `Expire`, `DayPasses` | time |
| `Restart` | the servers' recovery, then `recover_interrupted` and a whole sweep, all before the first request |

Left out: the routes that only read, the phase, and the staging directory,
which only the worker uses. Links and areas are in `TimeLimits` and
`ExportAreas`, the run itself in `ExportPods`. A sweep that is due is a
choice: whether ten minutes have passed is not modelled, and `_last_sweep` is
not guarded, so two threads may sweep at once.

### ExportPods

`WorldExports` calls `run_world_export` one step. Here it is a worker, a pod
and a script that go on independently: killing `kubectl` ends neither of the
other two, nor does a restart of the API, and the game writes all the while.

| variable | stands for |
|---|---|
| `world` | the files, each with a version that every write makes a new one: what size and mtime tell apart |
| `status` | the rows of `world_exports` |
| `worker` | the one worker, or the restart's recovery; the archive it has received, and whether it is `ok` |
| `pod`, `script` | `world-export-<id>`, and `dsh-world-export` in it: what it has looked at, copied, and compared |
| `writes`, `faults`, `restarts`, `interrupted` | what the bounds count; the last is a ghost, restarts that hit a recovery |

| action | code |
|---|---|
| `Request`, `Take`, `Finish` | `reserve_export`; the begin and the end of `_run` |
| `ApplyPod`, `AwaitPod`, `Exec`, `DeletePod` | `run_world_export`, one action per call; `ApplyPod` is outside the `try` that deletes |
| `StreamEnds`, `StreamBreaks`, `StreamTimesOut` | the three ways out of `stream_command` |
| `Unpack` | `extract_export`, which refuses an archive that ends early or lacks a file |
| `ListSources`, `StatBefore`, `OpenSource`, `CopySource`, `StatAfter`, `RunTools` | `snapshot` and `export` of the script, one call of the file system per step |
| `PodStarts`, `PodDeadline` | the cluster |
| `Restart`, `RecoverRows`, `DeletePods` | the process dies; `recover_interrupted`, rows first and pods next, may itself be interrupted |
| `Write` | the game saves a file |

Left out: what the exporter makes of the copies, the network policy and the
claim (a failure there is one of `ApplyPod`), the words of errors. The script's
order of the files is any fixed one. A half-copied file has version 0.

### PluginSelection

| variable | stands for |
|---|---|
| `ledger`, `restarts`, `lives`, `job` | the server, an instance of `ServerLedger`, and the job that creates or deletes it |
| `namespace`, `configMap`, `pod`, `booted` | the tenant namespace, the selection's text in its ConfigMap, the wrapper's pod, the text its last boot installed |
| `rows`, `state` | `server_plugins`, and the row of `server_plugin_state`: the hashes written and applied |
| `cached` | which offer of the site the catalog has a copy of |
| `lock`, `requests` | the name's lock, and per request thread where it is and what it has read |
| `asked`, `faults` | what the bounds count |
| `history` | ghost, of the server there is: a change was cut off between ConfigMap and rows (`torn`); a change wrote rows (`stray`) or the ConfigMap (`foreign`) after its server was gone; plugins removed and not added since. A delete clears them all |

| action | code |
|---|---|
| `Begin`, `Acquire`, `GiveUp` | `_changing`: the first check, the lock with its second check, the time-out |
| `SeedSelection`, `ReadToAdd`, `ReadToRemove` | `_rows`; a remove also decides |
| `Serve`, `Fetch`, `CatalogUnavailable` | `DpcCatalog.plugins`, and what `add` or a view does with the answer |
| `WriteConfigMap`, `WriteFails`, `StoreHash`, `StoreRows`, `StoreFails` | `_write` and the statement after it; `kubectl` may fail with its effect, its answer lost |
| `View`, `GetState`, `ReadHashes`, `ReadReport`, `StoreApplied` | `view` |
| `Apply`, `RestartPod` | `apply`, its reading of the state and the deletion of the pod |
| `Create` … `Rollout`, `CreateFails` | `_provision`; `_seed_plugin_selection` is three of its steps |
| `Delete`, `Uninstall`, `DeleteNamespace`, `ForgetServer`, `DeleteFails` | `_remove`, which does not take the lock; `helm` and `kubectl` may fail with their effect |
| `Boot`, `ChangePod` | the wrapper boots and installs; the router scales |
| `Restart` | the process dies: the lock, the cache and all requests with it |

A selection stands for its text and the text for its SHA-256. Left out: titles
and the other fields that are only shown, the status of each plugin in a view,
the unused dependencies a remove reports.

### The pure modules

Each definition is the function of the same name in the code, or the condition
of the statement it stands for. `MCRules` states, and TLC evaluates with the run
`export_pods`: a wake does what the README's table says of the state a `GET`
shows at that moment; every state is reached; the regions of an area are those
of its blocks; what each window holds, that exports may come a second early
(`ExportsComeEarly`) and that `Retry-After` may be a second short
(`RetryIsShort`); one malformed entry takes no other with it. `RuleProofs`
proves the general statements.

## 3. What TLC checks

| run | instance | what it shows |
|---|---|---|
| `lifecycle_safety` | 1 name, 2 tenants, 2 threads, 2 lives, 1 fault, 1 crash, others act | types; `WorkMatchesRow`, `OneWorker`, `NoOrphanRow`, `RecoveryKnows`, `WorldBelongsToRow`, `FreeNameIsClean`, `NoUnbackedLoss` |
| `lifecycle_creates` | 3 names, 2 tenants, cap 2, 3 lives | `CapHeld`, `OneCreatePerTenant` in every race of creates |
| `lifecycle_progress` | 2 names, 1 worker, 1 fault, 1 crash | `KeepsLedger`: the rows change only as `ServerLedger` allows; `ProvisioningEnds`, `DeletingEnds` under `FairSpec` |
| `exports_requests` | 1 server life, 2 threads, 2 exports, limit 1 | `OneActiveExport`, `DailyLimitHeld`, `ReadyIsPublished` under racing requests and sweeps |
| `exports_progress` | 2 lives of one name, 1 thread, 2 exports, 1 crash | `ActiveIsWorkedOn`, `ReadyIsPublished`; `KeepsExports`: what is shown of an export changes only as `ExportLedger` allows; `ExportsEnd` under `FairSpec` |
| `export_pods` | 2 exports, 2 files, 2 attempts, 1 write, 1 fault, 2 crashes | `StableIsOneMoment`, `ReadyIsWhole`, `PodsAccountedFor`; `KeepsExports` again, with pods and streams in it; `ExportsEnd` under `FairSpec`; the assumptions of `MCRules` |
| `plugins` | 2 plugins of which one requires the other, 2 catalogs, 2 threads and requests, 1 fault, 1 crash | `LockHeld`, `Closed`, `Agreement`, `RemovedStaysRemoved`; `InstallsComplete`: a boot never installs a plugin without what it requires, wherever a change was cut off; `KeepsSelection`: the rows change only as `SelectionLedger` allows, one whole change after another; `RequestsAnswer` under `FairSpec` |
| `plugins_pending` | 1 thread, 3 requests, no fault | a statement of the documentation that the code does not keep (section 5) |
| `unforced_loss`, `reused_backup`, `stale_delete`, `failed_slot` | 1 name | one such statement each (section 5) |

**Bounds.** Every hazard of the lifecycle is about one name and who holds it, so
one name with two lives, two tenants and two threads shows each race: the row
before, and the row after. A second name matters only for the cap and the queue,
which have runs of their own. Two lives are enough to inherit something; three
events before a further delete are enough for a retry after a failed one; one
fault and one crash give every place where a call fails or the process dies, and
both together. `MaxLives` bounds reservations, `MaxEvents` the deletes that are
asked for, `MaxFaults` calls that fail for no reason of ours, `MaxCrashes`
restarts, `OthersAct` the router and the operator.

The exports need two reservations: one that is there while the other is made,
counted, swept or forgotten; with a limit of one a day the second is refused
until the first has aged. A second life of the server matters to
`forget_server` and to the worker, a second thread to the reservation and to
the sweep, so each has a run. `MaxExports` bounds reservations.

The pods need two exports, for one's pod to be left while the other runs, and
two crashes, for the second to hit the recovery from the first. Two files and
one write show every order of look, copy and write; a second attempt shows the
loop. (`MaxWrites` bounds the game's writes. That a snapshot stays of one moment
with more files, writes and attempts is proved.)

The selection needs two requests: one that holds the lock and one that waits,
gives up, looks or restarts the pod. `MaxRequests` bounds them; a server with a
history of its own is an initial state, and one life is enough for a job to take
the server away under a change. (What a second server of the name finds, with the
lock and the requests of the first still there, is in the proofs, where
`MaxLives` is any number.) A default plugin and one that requires it, which
the catalog drops later, give each outcome of an add and a remove.

**Symmetry** is used for threads, tenants and names in the runs of safety
properties only: the code compares them for equality and nothing else.

**Deadlock** is not checked: once the bounded inputs are used up and every job
has ended, the service is idle and rightly stops. What must not stop is stated
by the liveness properties.

**Fairness.** `FairSpec` of `ServerLifecycle` assumes that the job of a name
goes on (workers are threads that wait for nothing but a cluster call) and that
a request thread which claimed a row goes on to submit its job (two database
statements later). Both assume that a cluster call ends: the code gives
`kubectl` and `helm` no time-out, so a call that hangs is outside what can be
promised. Nothing is assumed of tenants, of the router or of the cluster's own
progress. The run `failed_slot` adds a tenant who asks again and again and
request threads that finish (`PersistentSpec`): even so the slot does not come
back.

`FairSpec` of `WorldExports` assumes that the worker goes on and that a thread
which reserved an export submits it, the very next statement. Nothing is assumed
of sweeps, hooks or tenants. `FairSpec` of `ExportPods` says why the worker may
be assumed to go on, as far as the code justifies it: `kubectl wait` and the
stream have time-outs, and nothing is assumed of the pod or the script, which
may never start and never end; the other calls are assumed to end, as above.

`FairSpec` of `PluginSelection` assumes a thread goes on that waits for the
lock, the database, the catalog or the wrapper's answer, all of which have
time-outs. It assumes nothing of a thread that is in `kubectl`: `RequestsAnswer`
then says that the time-out on the lock, and the release of it on every way out,
keep a hung write from holding up anybody else. TLC checks that of one thread:
the threads are interchangeable, so one stands for all.

**Mutants.** Beside a mapped definition that decides something stands the
mistake it could contain (`…: Mutant`), and every property of a passing run is
violated by one of them.

## 4. What is proved

For all sets of names, tenants, threads, plugins, files and exports, every cap,
limit, pool size, catalog, number of attempts and bound:

| theorem | module | statement |
|---|---|---|
| `TypeCorrect` | `ServerLifecycleProofs`, `WorldExportsProofs`, `ExportPodsProofs`, `PluginSelectionProofs` | `Spec => []TypeOK` |
| `WorkMatches`, `WorkersAlone`, `NoRowIsOrphaned` | `ServerSafetyProofs` | the row is what its worker left; one worker; no row without one |
| `CapIsHeld`, `CreatesAreAlone` | `ServerSafetyProofs` | the cap and the one create in flight |
| `LedgerKept` | `ServerSafetyProofs` | `Spec => KeepsLedger`: the service implements `ServerLedger` |
| `RecoveryAgrees` | `ServerSafetyProofs` | a restart puts a delete back as the failing job would |
| `WorldsBelong`, `FreeNamesAreClean` | `ServerWorldProofs` | nobody inherits a world; a free name is clean |
| `NoWorldLost` | `ServerBackupProofs` | no world goes without backup or excuse |
| `OneAtATime`, `LimitKept` | `WorldExportsProofs` | one export of a server at a time; the daily limit |
| `NoneForgotten`, `ReadyKeepsFiles` | `WorldExportsProofs` | every active export is worked on; a ready one keeps its files |
| `PromiseKept` | `WorldExportsProofs`, `ExportPodsProofs` | `Spec => KeepsExports`: each implements `ExportLedger` |
| `StableMoment`, `PublishedWhole`, `PodsAccounted` | `ExportPodsProofs` | a stable snapshot is of one moment; only whole results; pods are accounted for |
| `OneChangeAtATime`, `SelectionIsClosed`, `RemovedIsNotSeeded`, `BetweenChangesTheyAgree` | `PluginSelectionProofs` | the lock; requirements are selected; removed stays removed; ConfigMap, hash and rows agree |
| `BootsAreComplete` | `PluginSelectionProofs` | what a boot installs is complete, for every catalog and wherever a change, a create or a delete stopped |
| `ChangesAreAtomic` | `PluginSelectionProofs` | `Spec => KeepsSelection`: the service implements `SelectionLedger` |
| `WakeFollowsState`, `StoppedHasItsPod`, `StoppedStays` | `RuleProofs` | a wake acts on what a `GET` shows; what `stopped` means |
| `AcceptedAreaFits`, `DefaultAreaFits`, `RegionsAreThoseOfTheBox`, `FewRegions` | `RuleProofs` | API and script agree on areas; the regions copied are the right ones |
| `FeedbackWindow`, `ExportWindow`, `RetryLater`, `LinkLapses` | `RuleProofs` | what `>=` and `>` on whole seconds keep |
| `OneBadPlugin` | `RuleProofs` | a malformed entry changes nothing else |

The assumptions are the ones the modules name: finitely many names or exports,
a cap, a pool and a number of attempts of at least one, natural bounds, `None`
apart from the rest (and from what the ledger shows), a list of default plugins that brings what it requires.
Constraints on `Catalogs` are only of type: a site may offer anything.

### Servers

The argument goes in layers, each of which needs the ones before it.

- **Typed** is `TypeOK` with one strengthening: the tickets of jobs have a
  bound. `NewTicket` is one more than the largest ticket, which is a number
  only while there is a largest.
- **Work** is `WorkMatchesRow ∧ OneWorker ∧ NoOrphanRow`. Together they are
  inductive, alone none is: a delete claims a row only if it is ready or
  failed, so nobody is working on it (`WorkMatchesRow`), so its claim is the
  only one (`OneWorker`). Each action is one of a few forms (a claim, a
  hand-over to a job, a job that goes on, a job that leaves, a restart), and a
  lemma per form shows that it keeps Work.
- **The log**: `RecoveryKnows` is inductive with Work. No event but the request
  of a delete changes what a restart reads (`OtherEvent`), and whoever records a
  request is alone with the row (`OneWorker`), so no job's knowledge is overtaken.
- **Limits**: only `CreateReserve` makes a row, and it counts in the statement
  that makes it.
- **The refinement** rests on Work. What `ServerLedger` shows of a deleting row
  is the status it goes back to, which the request that claimed it or the job
  that removes it knows; `OneWorker` says that there is no other to say
  otherwise. So a hand-over to a job or a step from one cluster call to the next
  shows nothing, and a claim, an outcome, a failure and a restart are each one
  step of the ledger.
- **Clean** says of every name what its namespace may hold, given the step its
  job has reached: nothing without a row, no other life's world with one, and
  after the uninstall nothing at all. The two world invariants follow. It is
  needed because a delete fails halfway and is taken up again by another job.
- **Loss** follows the reason why a delete may go on without a backup from the
  row to the request, the job and the uninstall: a row that is failed, a claim
  that found a failed row, and a job past its backup all imply that the life is
  excused (`Excused`) or was never ready. It also says that lives are not used
  twice, so what was excused once stays so.

### Exports

`Inv` of `WorldExportsProofs` has five parts.

- **Table** types the rows and ghosts and holds the limits: ids are given out in
  order, so `ReserveExport`'s is new and its row adds one to what it counted.
- **Threads** and **Rest** type the requests, the queue, the worker, the hooks.
- **Worked** says which of them an active row is with. `ActiveIsWorkedOn` alone
  is not inductive: it does not say that a queued export is not the worker's.
- **Kept** is about those exports that nobody has set out to remove and that
  were not reserved during a removal. A sweep that has read the rows knows each
  of them (`Spares`), and a hook that has dropped the rows of a name has none of
  them under that name: so neither takes their files.

`PromiseKept` needs one more part, **Order**: what a request or a sweep has set
out to remove is over and never begins again, and the worker's export is running
or gone. Ids are not used twice, so a gone one stays gone; `Worked` says that
nothing else runs when the worker begins one. In `ExportPods` the same promise
follows from `TypeOK`, which ties the one running row to the worker or to the
recovery that will end it: all other steps show nothing.

`Inv` of `ExportPodsProofs` is about one script at a time (`Snap`). Versions
only grow: what was looked at before is no newer than the moment when all had
been looked at, and what is copied is no older, or was written meanwhile. So a
file that looks the same afterwards was copied as it was at that moment.
`PublishedWhole` follows the archive and the script's end to the row (`Whole`).
`PodsAccounted` counts the pods that neither the worker nor a recovery will
delete (`Accounted`): each new one costs a fault or an interrupted recovery.

### Selection

`Inv` of `PluginSelectionProofs` is `Typed ∧ Threads ∧ Holder ∧ Selection`.

- **Threads** is `LockHeld`, and of each request what its place says of what it
  has read (`Coherent`, `Plan`): an add brings what its plugins require; nothing
  that stays requires what a remove takes away.
- **Holder** says what the change that holds the lock may rely on while the
  server is the one it was checked against: no job is creating it, the rows are
  those it read, and the ConfigMap and the hash are its own once written.
- **Selection** is `Closed`, `RemovedStaysRemoved` and what they need. `Seeded`
  says that a server that is gone or being created has the defaults or nothing;
  `Places`, which texts there can be where there is no namespace; `Fresh`, how
  far the job that creates a server has come; `Agrees` is `Agreement` for every
  state in which no change is between its writes, so that it is inductive.

`ChangesAreAtomic` says that an add or a remove, which reads the rows, asks the
catalog, applies the ConfigMap, writes the hash and then the rows, is one step
that takes place when it writes the rows: what it decided on is what they still
are. **Holder** gives it the rows it read, `Plan` what it decided (`Decided`:
the plugins it adds are enough for the one asked for, and no more than the
offer it looked at contains; nothing that stays requires the one removed). Once a
change has written its rows after its server was gone (`stray`, which the ledger
calls spoiled), the ledger allows anything, until the next server of the name is
deleted too.

`BootsAreComplete` is about the text of the ConfigMap, which a boot may read
between a change's write of it and of the rows, or after a change that got no
further. Its invariant **Whole** adds to `Inv` that every row, also those a
thread has read or is about to add, requires what its jar does (`Pinned`), so
that a selection that is closed makes a text that is complete, and that nothing
is installed without a release (`Off`), so that a delete that ends leaves no
text of the server before.

The lock protects a change from other changes only. Views seed without it and
the jobs write without it, and that none of this breaks a change is what the
proof adds to the reading of `_changing`.

### The pure functions

`RuleProofs` unfolds definitions and does arithmetic, with two ideas: `\div` is
monotone (`DivMonotone`), which relates times to the seconds that are stored and
blocks to their regions; and an entry that is not usable is at no position that
`UsableAt` returns, so that the list may be of any length.

**Only model-checked**: liveness (`ProvisioningEnds`, `DeletingEnds`, both
`ExportsEnd`, `RequestsAnswer`, out of reach of the prover); the reachability of
every state and the two statements of `MCRules` that say how short a limit
falls.

All strengthenings were checked by TLC on the instances of section 3 before
they were proved.

## 5. Where code and documentation disagree

| run | statement | what the code does |
|---|---|---|
| `unforced_loss` | "Without force the world is never removed unbacked-up" (`src/dsh_api/service.py`) | a crash between `begin_delete` and the event of the request makes recovery read an earlier delete's event; a ready server comes back failed, and the next `DELETE` skips a backup that fails |
| `reused_backup` | "an earlier server's world is never handed out as this one's" (`src/dsh_api/service.py`) | the row is deleted before the `delete` event that ends the search, so the next holder of the name may still find the earlier backup |
| `stale_delete` | "A second tenant cannot see or delete the first tenant's server." (`MVP.md`) | `begin_delete` compares name and status, not the owner that was checked earlier |
| `failed_slot` | "a failed create keeps the tenant's slot until `DELETE`, which works without a pod or volume to back up" (`README.md`) | a create that failed before its RoleBinding leaves a namespace where the first look of a `DELETE` is Forbidden, every time |
| `plugins_pending` | "`pending` is true while a change waits" (`README.md`) | what the last start installed is learnt only from a view of a running server; after a start nobody looked at, a change back to what was last seen is shown as not waiting |

More, seen and not given a run:

- A sweep removes the files of an export that was reserved after the sweep had
  read the rows and was published before it walked the directories
  ("directories no row knows about", `export_service.py`); `forget_server` those
  of one the next server of the name reserved between its rows and its
  directories. `ReadyIsPublished` excepts exactly those (`Removing`). One
  reserved before `forget_server` deletes the rows goes with them, row and files.
- After a change that wrote the ConfigMap and not its rows, the next boot
  installs what a view does not show, until another change of the server;
  `Agreement` excepts that (`torn`). `InstallsComplete` says that what is
  installed is a complete selection.
- The worker runs "in a pod in the owner's namespace" (`export_service.py`), but
  asks only whether there is a server of the name: when a delete finished while
  the worker was about to start the pod, or just before the reservation, the
  name may have another owner. The result is listed to neither.
- A selection change that was waiting for `kubectl` when its server was deleted
  writes its rows, or its ConfigMap, afterwards, for the next server of the name
  to start with (`stray` and `foreign` in `PluginSelection`, which its properties
  except).
- `README.md` says of a failed delete that "nothing was removed". A delete that
  fails after the uninstall has removed the release (and, as the code's own
  comments say, the volume), and the row still goes back to what it was.
- "Exports run one at a time on the whole node" (`README.md`) holds up to the
  pods that a failed call or an interrupted recovery leaves behind, which end
  with their deadline (`PodsAccountedFor`).
- Exports may come up to a second before the day is over, and `Retry-After` may
  be a second short (`MCRules`).

## 6. Not modelled, and why

- Authentication (`auth.py`): one token checked by a library; no state. Requests
  carry the tenant it returns.
- Settings (`config.py`): read once at start; CONSTANTS here.
- Default plugins (`plugins.py`): file names and versions out of URLs, with no
  state. `Defaults` and `Extras` are what comes out.
- HTTP routes and error bodies (`main.py`): only the wiring decides anything.
- Reading NBT, the exporter and the tiler in the export pod: data processing in
  programs that are not in this repository; they may end well or fail.
- The backup's own pod and stream (`backup_world`): one step of
  `ServerLifecycle`, which works or fails, having left a file or none.
- The status of a single plugin in a view, titles, unused dependencies, the
  texts of feedback: shown, and read back by nothing.
- The start of a stopped game by `wake` as a step: the wrapper's process is not
  a variable of any module. When a wake does it is `WakeDoes`.
- `FakeClusterBackend` and the tests: test doubles; read as documentation.
- A database that fails: SQLite on a local disk is assumed to answer, except in
  `PluginSelection`, where a failure between the ConfigMap and the rows is the
  hazard.
- Real time: which of two things happens first is a choice everywhere; numbers
  of seconds are in `TimeLimits` and `ServerStates`.

## 7. Extending it

The modules are layered so that each can grow on its own. Worth doing next, in
this order: the backup's pod beside `ExportPods`; the wrapper's process as a variable of
`ServerLifecycle`, which would make `WakeDoes` an action.

## 8. Running it

```
tlc -workers 2 -config lifecycle_safety.cfg MCServerLifecycle.tla
tlapm ServerBackupProofs.tla
```

`plugins` is the longest run, about three minutes on two cores,
`lifecycle_safety` (two million distinct states) takes two; the others take a
minute and a half or less. From nothing, `PluginSelectionProofs` is checked in about
two minutes and each other proof module in about one.
