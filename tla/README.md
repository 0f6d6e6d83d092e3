# ShiftWise: a TLA+ verification project

ShiftWise moves virtual machines from seven kinds of hypervisor to OpenShift
Virtualization (KubeVirt). A FastAPI backend keeps its state in PostgreSQL,
Celery workers take tasks from a Redis broker, and the heavy work runs as Jobs
of the target cluster. Paths below are relative to `src/backend/app/` unless
they begin with `src/`.

1. [The system](#1-the-system)
2. [The modules](#2-the-modules-and-the-code)
3. [The runs](#3-the-runs)
4. [What the models refute](#4-claims-the-models-refute)
5. [The proofs](#5-the-proofs)
6. [What is not modelled](#6-what-is-not-modelled)
7. [The plan](#7-the-plan)
8. [Running the project](#8-running-the-project)

## 1. The system

### 1.1 Components

| component | state it keeps | operations | what makes it correct | module |
|---|---|---|---|---|
| Migration lifecycle (`api/v1/migrations.py`, `tasks/migration.py`, `crud/migration.py`) | `migrations` rows, `virtual_machines.status`, the Celery id of the orchestrator | create, start, cancel; the stages of `run_migration`; `_fail` | one active migration per VM, one orchestrator per migration, COMPLETED, MIGRATED and the cluster agree, a started migration ends | `MigrationLifecycle` |
| Conversion jobs and groups (`tasks/conversion.py`, `services/converter/`, `crud/conversion.py`, `api/v1/conversions.py`) | groups, jobs, attempts, files of the transit volume, cluster Jobs | `run_job` (stage, convert, verify), automatic retry, cancel, manual retry, aggregate status | the status of a group is the aggregate of its jobs, READY means a whole file, one worker per disk, every enqueued job ends | `ConversionGroup` |
| Adapter, Migrator, tenant namespaces (`services/adapter/`, `services/migrator/`) | namespaces, quotas, SCC grants, Jobs, volumes, VirtualMachines | provision a tenant, adapt the boot image, fill the volumes, create and start the VM, tear down | a machine boots from whole copies of adapted images, nothing runs without a quota, a teardown leaves nothing | `TargetCluster` |
| Discovery and inventory (`services/discovery.py`, `crud/vm.py`, `crud/hypervisor.py`, `api/v1/vms.py`, `api/v1/hypervisors.py`) | hypervisors and `virtual_machines` rows | synchronise, test, create, edit, archive, restore, delete | a row follows its machine wherever it moves, a migrated row stays, no status stands for work nobody does | `VmInventory`, `DiscoverySources` |
| Compatibility analysis (`services/analyzer.py`, `services/compatibility_rules.py`, `services/strategy.py`) | the verdict on the row | rules, prediction, decision, strategy | the grade follows from what blocks, the strategy from the work that is needed | `CompatibilityRules`, `Assessment` |
| Refresh tokens and login throttle (`core/refresh_token_store.py`, `core/login_throttle.py`, `api/v1/auth.py`) | token families and counters in Redis | login, refresh with rotation, logout, change of password | a token is redeemed once, a change of password ends the sessions before it, nobody ends the sessions of others | `Sessions` |
| Users, roles, tenants (`api/v1/users.py`, `api/v1/roles.py`, `api/deps.py`, `crud/user.py`, `crud/role.py`) | `users`, `roles`, `user_roles` | create, edit, delete, assign, reset the system roles | permissions come from those who had them, the last superuser is not lost, tenants keep apart | `Accounts` |
| Cluster configuration and resolver (`services/cluster/`, `crud/cluster_config.py`, `api/v1/infrastructure.py`) | settings with versions and health, events, a cache of clients per process | seed, save, upload, remove, probe, resolve | a caller gets a client of the settings it reads, every change has its event | `ClusterConfig` |
| Event journal (`crud/migration_event.py`) | `migration_events` | append in the transaction of the status | the journal is a path that ends in the row's status | `MigrationLifecycle` (statuses) |
| Connectors, KubeVirt client, reports, machine learning, vault, frontend, infrastructure | | | see [section 6](#6-what-is-not-modelled) | |

### 1.2 How they interact

* A request commits `VALIDATING`, publishes `run_migration` and stores the
  Celery id afterwards, in three steps with nothing around them.
* The orchestrator creates a conversion group, publishes one
  `run_conversion_job` per disk and **polls** the status of the group; the workers of the
  conversions queue write that status. The group is the only channel between them.
* Adapter and Migrator look the group up again, each by a query of its own, and meet the cluster
  only through names derived from the migration: a second run finds what the first one left.
* Discovery, analysis, the VM endpoints and a migration share the row of the
  machine; none of them locks it.
* Every request and worker has a SQLAlchemy session of its own. An object stays in it as it
  was loaded until the next commit, and an UPDATE names only the columns that changed: a status that is
  compared may be old, and two writers may make one row of two.
* Redis holds sessions and counters with an expiry each; a request is a series of round trips.
* Each process caches clients of the cluster under (scope, version) and the export of the transit volume.

### 1.3 The hard parts

* **Delivery.** `task_acks_late` and `task_reject_on_worker_lost` return a message when its
  worker dies; the visibility timeout of Redis, shorter than a long task, returns
  it while the task runs. Two workers may then drive one migration or one job.
* **Atomicity.** A stage is a sequence of commits, or of calls of the cluster; a worker can die between any two.
* **Stale reads.** Row locks that return old attributes, aggregates of statuses read earlier, a
  synchronisation that reads its source for minutes and writes over what happened meanwhile.
* **Retries.** A conversion has automatic retries, manual retries and redeliveries, which know
  nothing of each other; a client retries a refresh whose answer it did not get.
* **Jobs that outlive their process.** A Job of the cluster goes on when the process that
  waits for it dies, gives up or is told to stop.
* **Time limits.** The soft limit raises in the middle of any Python statement.

`PROJECT.json` lists every such point with its line (`hazards`) and the property that watches it.

## 2. The modules and the code

| module | what it is | extends |
|---|---|---|
| `GroupStatuses` | the statuses of a conversion group and its moves, shared by the two sides | |
| `GroupLife` | abstract specification: what the poller of a group expects of it | `GroupStatuses` |
| `MigrationLifecycle` | the migrations of one source VM: requests, broker, orchestrators | `GroupStatuses` |
| `ConversionGroup` | the jobs of one group: requests, broker, workers, cluster Jobs, files | `GroupStatuses`, `GroupLife` by `INSTANCE` |
| `TargetCluster` | the cluster objects of migrations, call by call | |
| `DiscoverySources` | pure: what each of the seven drivers makes of a machine and of missing answers | |
| `CompatibilityRules` | pure: rules, aggregate, decision, strategy | |
| `VmInventory` | the rows of hypervisors and machines under synchronisations, analyses, edits and migrations | the two above |
| `Assessment` | one machine read and graded again and again: the two pure modules composed | the same two |
| `Sessions` | sign-in, refresh-token families, throttle | |
| `Accounts` | accounts, roles, tenants and their endpoints | |
| `ClusterConfig` | settings of the cluster, their events and the cached clients | |
| `MigrationLifecycle_proofs` | its theorems | `MigrationLifecycle` |
| `ConversionGroup_proofs` | its theorems | `ConversionGroup` |
| `TargetCluster_proofs` | its theorems | `TargetCluster` |
| `Sessions_proofs` | its theorems | `Sessions` |
| `Accounts_proofs` | its theorems | `Accounts` |
| `VmInventory_proofs` | its theorems | `VmInventory` |
| `Assessment_proofs` | its theorems | `Assessment` |
| `ClusterConfig_proofs` | its theorems | `ClusterConfig` |
| `MC...` | model values, small sets, scenarios and symmetries for TLC | |

`PROJECT.json` (`map`) gives the lines of the source for each definition.
Definitions commented `Mutant` are faulty variants of the definition that follows them;
no specification uses them. Each states a plausible bug that one of the properties detects.
Variables marked `history` in the modules record what happened for a property to speak of; no guard reads them.

### 2.1 MigrationLifecycle

| variable | code |
|---|---|
| `row` | `migrations.status`, `celery_task_id`, and whether `target_vm_name` is set |
| `audit` | the last status event of each migration |
| `vm` | `virtual_machines.status` of the source VM |
| `groups` | the `conversion_groups` of the VM, oldest first: owner, status, jobs created, jobs that a message or a client may have run, jobs it ended with, whether adapted, who made it and how far that request is |
| `cluster` | the owner of the VirtualMachine object, the target volumes, the Adapter Jobs that succeeded |
| `queue`, `target`, `revoked` | messages in the broker, what each was published for, revoked ids |
| `worker` | per Celery process: the next step, the task, `seen` (the status its session holds), the groups it chose, disks left |
| `client` | per request: the next step and what it has loaded |
| `spent` | how much of each bound of the environment is used |

One action is what a handler or a task does between two points at which another process can
interfere: from one commit or external call to the next. `SetStatus` is
`set_migration_status`: it writes row and event in one transaction and writes
nothing when the session already shows the new status. `Goto`, `Expire` and `Reload` are what an action
does to the session: keep the loaded status, drop it (commit), read it again (refresh).
Requests: `CreateBegin/Lock/Insert` (the VM is loaded before its row is locked, and the lock is held from `CreateLock` to the commit of `CreateInsert`), `StartBegin/Validate/Publish/BrokerDown/StampId`,
`CancelBegin/Revoke/Commit/Cleanup`. `ConvertBegin`, `ConvertJob`, `ConvertEnqueue` and `ConvertRefuse` are POST /vms/{id}/convert: the group, which the request may tie to a migration, then each job,
each a commit of its own, then the messages one by one, or the statuses written when the broker refuses one; it may stop between any two. The orchestrator
follows `run_migration` from `Receive` to `Complete` and `CleanupTransit`; every failure goes through
`Raise`, `FailGuard` and `FailCommit`, the two commits of `_fail`. `FindGroup` and `CreateGroup` are two steps, because the disks are listed on the
source between the search for a group and the insertion of a new one. `Enqueue` publishes the jobs of the group one by one, those it has when the loop begins, and
may fail after some of them. `Completed` is `_completed_jobs`: Adapter and Migrator look for READY jobs of a READY group, each on its own; a job that a late worker or retry has taken up
again is missing from what they find, which `MaxOverlap` counts. `MaxOvertaken` counts the starts that have passed the test for PENDING when another one commits. The environment: `SoftTimeLimit`, `Terminate`
(SIGTERM of a revoke), `Crash`, `Redeliver`, `HandlerDies` (the API process dies between two steps of a handler). `ConversionStep` abstracts the conversions: any group moves as
`GroupStatuses!Expected` allows, and, a bounded number of times, leaves a status it had ended in, for the
reasons `ConversionGroup` exhibits; it is READY only if every job it has could run. Adapter and Migrator are single steps here; `TargetCluster` opens them.

### 2.2 ConversionGroup

| variable | code |
|---|---|
| `job` | `conversion_jobs`: `status`, `attempts`, the bucket of `error_code` |
| `log` | `conversion_attempts.final_status` of each job, by number; `RETRYING` is the provisional value of `create_attempt` |
| `group` | `conversion_groups.status` |
| `output` | the converted file of a job: absent, partial or whole |
| `pods` | cluster Jobs: job, attempt number in the name, state |
| `queue` | messages: copies of (job, `request.retries`) |
| `worker`, `request` | what each process and each HTTP request is doing, with what it has read |
| `spent` | how much of each bound is used |

`Receive` to `PublishRetry` are `run_conversion_job`, commit by commit:
the attempt row, then the counter; status, then group; pull, conversion Job, wait, verification; the job's
status, then its attempt, then the aggregate in two steps (`ReadGroup`, `WriteAggregate`); and
the decision to retry, which reads the error of the job again. The publish of a retry and the acknowledgement of the own message are two steps (stage `ack`, action `Ack`): a worker
that dies between them leaves the retry and the original in the broker, which `MaxUnacked` counts apart from the deaths within the task. `CopyStaged` is the PASSTHROUGH
tool. `TimeLimit` does three different things, depending on whether the
code is inside the `try` of `run_job`, in the rest of `run_job`, or after it.
`PodEnds` happens on its own: the Job of a worker that died goes on writing.
Requests: `Enqueue/Unqueue/Ungroup` (`convert_vm` with the broker up or down), `CancelBegin/Test/Mark/Group`,
`RetryBegin/Clear/Mark/Publish`.

Abstractions. A test or read directly followed by its write, with no call between, is one step.
SQLAlchemy leaves out of an UPDATE a column that already has the value in the session; the
statuses a worker writes in one attempt all differ, so `SetJobStatus` writes always; the group is the exception
and `WriteGroup` models it. Progress reports are one action that may
happen any number of times. `_verify` looks at the size of the file: the model lets
a partial file pass or fail. `EXPIRED` and `PLANNING` are set nowhere in the code and are left out.

`GroupLife` has one variable, the status of a group, and the moves a poller relies on: it runs, it
ends, an operator may run a FAILED or PARTIAL group again, a READY group stays READY. `ConversionGroup` is shown to implement it
(`GroupLives`, the mapping is `status <- group`) for concurrent workers without retries.
It does **not** in general: a worker that read the jobs before an
automatic or manual retry can write its old aggregate after it, over READY.
The other side, `MigrationLifecycle`, therefore allows more than `GroupLife` when `MaxRelapse > 0`.

### 2.3 TargetCluster

| variable | code |
|---|---|
| `status`, `named`, `messages` | the status of a migration, whether its row has `target_vm_name`, the message in the broker |
| `run` | per process: the call it makes next, its migration, disk, whether it recreates a Job, the SCC list it has read |
| `cache` | the transit export as this process cached it |
| `request` | the cancellation being served, and whether its teardown had an error so far |
| `namespaces`, `quotas`, `accounts`, `scc`, `export` | objects of the cluster, the users of the SCC, the export that backs the transit volume |
| `jobs`, `pods` | Adapter and populator Jobs by name (phase, started, being deleted, the export in their manifest), and the pods that run for each name |
| `images`, `volumes`, `vms` | the boot image being edited, target volumes and what they hold, VirtualMachines and their instance |

Each action is one call of the Kubernetes API with the code that follows it up to the next call: `ReadNamespace` to
`PatchScc` are `ensure_tenant_namespace`; `SubmitAdapter`, `AdapterExists`, `Recheck`, `DeleteStale`, `Reap`,
`Recreate` are `submit_adapter_job` with its 409 branch; `CreateVolume` to `Complete` are
`MigratorService.run`; `CleanupVm/Job/Volume` are the teardown of a cancel, each of whose deletions may fail. `ApiFault` loses
any call, `RecheckFault` the read whose failure the code takes for a reason to redo, `NeverRan` and `ReapTimeout`
are client timeouts. The cluster moves on its own: pods start when their account is admitted and their export is
there, end, and are reaped with their Job.

### 2.4 DiscoverySources, CompatibilityRules, Assessment

`DiscoverySources` has one operator per driver (`ReadVsphere`, `ReadHyperV`, ...), from a machine of the source and
the outcome of reading it ("ok", "partial", "error"; for a physical machine the set of `Commands` that went unanswered, since discovery ignores their exit status and builds the machine of the rest) to the record that discovery stores, with the rounding of sizes
(`Rounded` is Python's `round`), the spelling of releases, the identity it falls back to, the order of disks (`FirstDisk`: by name, unless `findmnt` named
a plain partition: a logical volume, a btrfs subvolume `/dev/sda2[/@]` or no answer leave no boot disk to hoist), and whether
a failed call aborts the whole discovery. `Refreshed` is the merge of a record into a row that exists; an unknown system is a label too (`N/A`), and overwrites the one that was known.
`CompatibilityRules` has one operator per rule, `Score`, `Blocked`, `DecideGrade` (rules against
the prediction) and `RecommendStrategy`. The prediction itself is an oracle.
`Assessment` composes them: `Discover`/`Miss` (a synchronisation that reports the machine, or not) and `Analyze`, in any order.

### 2.5 VmInventory

| variable | code |
|---|---|
| `hyps`, `vms` | the two tables; `None` is a free id, `Gone` a deleted row |
| `place` | on which hypervisor each machine really is |
| `migrating` | rows with an active migration |
| `reqs` | requests between their steps, with the rows as their session first saw them (`base`) and as it will write them (`now`) |

A synchronisation is `SyncBegin` (commits DISCOVERING), `SyncFetch` (reads the source, minutes), one
`SyncMatch` or `SyncInsert` per machine (`Matches`: identity on the hypervisor, identity in the tenant, name among rows without identity),
`SyncStale`, `SyncCommit` (only the columns that changed are written, `Written`), `SyncCount`, `SyncEnd`, with `SyncFail`,
`SyncFlushFails` and `SyncOrphaned` for what breaks. `AnalyzeBegin/Commit/Fail`, `TestBegin/End`, the endpoints
of machines and hypervisors, `MigrationBegins/Ends` (external: what `MigrationLifecycle` does to the row) and
`MachinesMove` (the world) run in between. `snap`, history in `reqs`, is what was left of the bounds and which migrations ran when a session that was alone began to match. The read endpoints are operators (`ListVms`, `HypervisorVms`, ...), compared by `ViewsAgree`.

### 2.6 Sessions

| variable | code |
|---|---|
| `users` | the account: active, inactive or deleted, and its password as a version |
| `keys`, `meta` | `rt:fam:<family>:<jti>` and `rt:fam:<family>:meta` in Redis, with expiry |
| `throttle` | the `lt:*` counters, with expiry |
| `tokens` | every refresh token a client was ever given: clients retry with any of them |
| `reqs`, `clock` | requests between two round trips; time in ticks |

`LoginCheck`, `LoginMatches/Fails`, `LoginStamp`, `LoginMint`; `RefreshCheck`, `RotateTake` (DEL tells who was first), `RotateOwner`,
`RotateSet` (a MULTI/EXEC pipeline, one step), `RotateReplay`, `RevokeStep` (one deletion of a family at a time); `Logout`;
`ChangeCheck` to `ChangeVisit` (the scan over families after a change of password). `Crash` ends a
request anywhere, `Tick` lets keys expire, `AdminSet`/`AdminReset` change an account from outside.

### 2.7 Accounts

`users` and `roles` are the tables (a row of `users` holds the names of its roles), `reqs` the requests between what they read and their commit.
Every endpoint is a `...Begin` action, with the checks of the caller and of the target on what was read,
and a `...Commit`, where only the constraints of the tables speak: unique addresses and names, foreign keys. `MayAssign`, `Effective`,
`HasPermission` are the decisions of `api/deps.py` and of the assignments; `ListUsers`, `GetUser`,
`CountUsersByTenant`, `ListRoles` the reads. `InitRolesBegin` and
`InitRolesCommit` are POST /roles/init-system-roles, the lookup of each role
and the one commit that creates those that are missing and corrects those that differ; another request may create or delete one in between. Usernames and new names of roles
are not tables of their own; `NameTaken` is the commit that their unique constraint refuses.

### 2.8 ClusterConfig

`rows` are the settings (a client of the n-th save carries the number n, so a client tells what it was built from), `events`
the applied events, `cache` the clients of each process, `up` the start of a process. `SeedCheck/SeedInsert`
are two steps of the lifespan; `BeginSave` loads, `Update`/`Insert` commit (`Merge` writes only the changed columns),
`Log` and `Evict` follow in later transactions; `UseOwn`, `UseDefault`, `Build`, `Return` are `get_client_for_tenant`;
`BeginProbe`, `Record` the connection test. `Crash`, `LogFault`, `RefreshFails` and `BuildFails` are what breaks.

## 3. The runs

### 3.1 What each shows

| run | instance | shows |
|---|---|---|
| `calm` | 2 migrations of one VM, 2 tasks, 2 disks, 1 worker, 2 requests that overlap (creates, starts), 1 manual conversion, committed job by job, that may name a migration and stop anywhere; no crash | `OneActivePerVm` (the lock of the VM row under two creates), `MigratedHasCompleted` (and nothing goes on from a view of the VM older than the lock), `CompletedHasWholeVm`, `TerminalIsFinal`, `AuditIsAPath` |
| `faults` | 1 migration, 2 disks, 2 workers; a death of a worker and one of an API process, a soft time limit, a refused publish, a publish of one of two jobs that fails, a group that leaves READY, a cancel whose revoke may fail | `PopulatesAdaptedDisks`, `SingleOrchestrator`, `AuditMirrorsStatus`, `CompletedIsMigrated`: what survives a rerun on a partly created group and an overwritten CANCELLED |
| `ends` | 1 migration, 2 workers, a death, a redelivery, a job taken up again under a lookup, fairness | `StartedMigrationsEnd` |
| `double_start` | 1 migration, 2 requests, no fault | finds `SingleOrchestrator` violated: see 3.4 |
| `conv_faults` | 1 job, 2 workers, 1 automatic retry; each fault and request at most once, two kinds in one behaviour | `AttemptsConsistent`, `OneConverterPerJob` (no delivery out of nowhere, deaths before an acknowledgement counted), `CancelledJobStays` |
| `conv_group` | 3 jobs, one of them PASSTHROUGH, 2 workers, a cluster Job whose deletion is refused, fairness | `ReadyHasOutput`, `Settled`, `GroupLives` (the refinement of `GroupLife`), `EnqueuedJobsEnd` |
| `cluster` | 2 processes, 2 migrations of one tenant or of two, 2 disks, 2 exports; seven scenarios of faults and two of overlap, fairness | `NamespacesReady`, `VmDisksWhole`, `JobsReusedSafely`, `CleanedLeavesNothing`, `RunsEnd` |
| `inventory` | 4 hypervisor ids of 2 tenants (two types), 5 row ids, 3 machines of which two share a name, 2 requests, nine mixes of requests and events | `RowsFollowMachines`, `ViewsAgree`, `BusyHasOwner`, `SyncFollowsSource` |
| `assess` | one machine of many shapes, 7 drivers, every outcome of reading it (of a physical one: each command unanswered, all, none, no session), 3 readings, 2 gradings, every prediction | `GradeFollowsFacts`, `BootDiskFirst`, `KnownStaysKnown` |
| `sessions` | 2 users, 3 families, 2 requests, a threshold of 1, windows of 2 ticks, five mixes of calls | `RotationSafe`, `OldSessionsEnd`, `Overshoot`, `EndedForCause` |
| `accounts` | 5 accounts and a free id in 2 tenants, 3 system roles of which one is missing and its name free, a custom one, 2 requests, eight mixes of calls | `TablesConsistent`, `PermissionsTraced`, `ChangesByRule` |
| `config` | 2 API processes, 2 requests, the platform and 1 tenant, four histories | `RowsConsistent`, `ClientsFollowSettings`, `EventsMatchChanges` |

The runs of `MigrationLifecycle` have no deadlock check: its rows and its budgets of requests and faults are finite, and it really
stops when every migration has ended and the VM is no longer COMPATIBLE. The other runs have it; their systems stop in a step named `Rest`, whose guard says that
nothing is left to do, so a state in which something is left and no step is possible is reported.

Some properties join several facts about one thing, under one name: the comment at each
definition names its parts. Some except what the code is known to break, and count the exception with a `history` variable
(`outlived`, `shared`, `misread`, `late`, ...), so that the rest is stated as strongly as it holds; section 4 lists the exceptions.

### 3.2 Bounds

Every bound is a constant. In `MigrationLifecycle` and `ConversionGroup` a constant `Max...` caps one kind of event of the
environment; `MaxOvertaken` and `MaxOverlap` count two orders of steps and not two events, so that the runs and the theorems can say what holds without them. `Naming` says whether a request to create a migration may, or must, name the target VM (in `ends` it must: the liveness run does not
depend on it). In the other modules `Init` chooses a budget, how many calls, faults and events of each kind one
behaviour has, from a set that the MC module names (`AllBudgets`, `SomeBudgets`, `Histories`, `SomeScenarios`); nothing else
is bounded. One or two events of a kind are enough because the hazards are about one event that falls
between two given steps, and a budget puts those together that touch the same rows. In `conv_faults` `MaxKinds` does the same: all
pairs of kinds of event occur, triples do not.

Two workers or requests make every duplicate that two deliveries or two calls can make; what three would show differs
from it by a further duplicate of the same kind. Two disks are needed to tell a partly created group or a half copied VM from a whole one; three jobs
to have one end while another runs and a third waits. Three families are needed to have one that is rotated while another
is ended by a change of password and a login mints the third. The `inventory` instance has a machine that is created anew under the name of
another, and places it can move to: another hypervisor of the tenant, one of another tenant, none. `assess` varies the
facts of a machine in groups that a rule or a driver reads together. Time in `Sessions` has 3 ticks, so that a counter expires in a behaviour
and the token written before it does not.

Symmetry is declared over migrations, tasks, workers, requests, processes, users and families where no definition
orders them, and only in runs without a liveness property.

### 3.3 Fairness

`MigrationLifecycle` and `ConversionGroup` assume weak fairness of three things: an HTTP handler that has begun goes on (but a convert request, of which nothing is assumed), a worker that is
busy goes on, and a worker takes waiting messages; a worker or handler that dies is not busy any more. The code justifies the second with its deadlines:
`_wait_for_conversions` has a timeout, `wait_for_completion` a client deadline, every pull and every
request of the cluster client a time limit. `TargetCluster` assumes weak fairness of each
process and nothing of the cluster: Jobs may run for ever, a deletion may never
complete, an instance may never start, and `RunsEnd` holds because every wait of the code gives up
(`NeverRan`, `ReapTimeout`, the failures of the populator and of the Adapter). Nothing is assumed of new
requests, of cluster Jobs, of progress reports or of faults.

### 3.4 The divergence kept as a run

`double_start`: two POST /start of one migration both publish an orchestrator. The comment at `api/v1/migrations.py:486` says that the status is
read again under the row lock so that this cannot happen; the session returns the object it already holds, with the status read
before the lock. `findings` in `PROJECT.json` quotes it.

## 4. Claims the models refute

Each of these is a definition of its module that states what a comment or a name in the code promises, or what one would
expect, and that TLC refutes on the instance given. They are not kept as runs; to reproduce one, put the definition in a
configuration like the one named, with the changes listed. Where a property of section 3 has an exception, this is the reason.

| definition | configuration | what happens |
|---|---|---|
| `CancelledIsFinal` | `Lifecycle_double_start` with 1 task, 1 worker, 1 client, `MaxCancel = 1` | the orchestrator writes its next status over CANCELLED |
| `OwnGroupPreferred` | the same, `MaxConvert = 1` instead | a newer manual conversion hides the group of the migration from Adapter and Migrator |
| `CompletedHasWholeVm` | the same, 2 disks, `MaxCrash = 1` | a worker dies between two `create_job`; the rerun finds a group and completes a VM without a disk |
| `WholeVms` | the same, 2 disks, `MaxConvert = 1` | a convert request that names the migration has committed one of two jobs when `_find_existing_group` finds its group: the migration completes a VM without a disk |
| `WholeVms` | the same, 2 disks, `MaxOverlap = 1` | a job that is taken up again while the Migrator looks is left out by `_completed_jobs`, and nothing compares what is left with the disks of the VM |
| `MigratedHasCompleted` | the same, 1 disk | a worker dies between MIGRATED and COMPLETED; the rerun fails a migration whose VM runs |
| `AuditIsAPath` | the same, `MaxBrokerFail = 1` | the reset to PENDING after a refused publish writes no event, so the next event begins elsewhere |
| `EnqueuedJobsEnd` | `Conversion_group` with 1 job, no PASSTHROUGH, 1 worker, `ResetAttempts = TRUE`, `MaxRetry = 1` | a manual retry reuses an attempt number; the unique constraint rejects the task and the job stays RETRYING |
| `NothingIsStranded` | `Conversion_faults` with `MaxRetries = 0`, and of the faults `MaxRetry = 1` and `MaxBrokerFail = 1` only | a client's retry marks the job RETRYING, the publish is refused, and nobody runs the job |
| `Settled` | `Conversion_group` with 2 jobs, no PASSTHROUGH, `MaxRetries = 1` | a worker writes an aggregate it read before the retry, over the newer one |
| `StartedMigrationsEnd` | `Lifecycle_ends` with `MaxDeadHandler = 1` | the API process dies between VALIDATING and the publish: no task will ever take the migration, and it can no longer be started |
| `RedoingIsSafe` | `Cluster` with `Scenarios <- TornScenarios` | a worker dies while its Adapter Job runs, the next one cannot read that Job and starts another on an image that has been half edited (comment of `_existing_job_is_reusable`) |
| `ForeignVmsSurvive` | `Cluster` with `Scenarios <- HomonymScenarios` | the teardown of a cancel deletes the VirtualMachine of another migration of the tenant whose machine has the same name |
| `GrantsOnlyGrow` | `Cluster` with `SPECIFICATION Spec` | two tenants provisioned together read the same list of SCC users, and the second writes it back without the first |
| `NeverHijacked` | `Inventory` with `InitialPlaces <- Homonyms` and `Places <- Homonyms` | two machines of one name on one hypervisor: a row without identity takes the identity of both in turn |
| `NeverHijacked` | `Inventory` with 3 requests, 3 synchronisations and 1 move, one KVM host, a first row without identity, `Places <- {At(None, 1, None)}` | the first two read the machine, the third its successor of the same name and takes the row by that name; the first commits, the second then finds the row by identity, and commits after the third: the row has the identity of the successor and the data of the machine that is gone |
| `ViewsAgree` | `Inventory` with `VmBodies <- ForeignBodies` | POST /vms does not check that the hypervisor is of the tenant (`crud/vm.py:190`): its tenant finds the row under the hypervisor and not in its list |
| `BootDiskHoisted` | `Assess` | a physical Linux whose root is a logical volume or a btrfs subvolume, or whose `findmnt` was not answered, does not list its boot disk first (docstring of `_parse_lsblk_disks`) |
| `LoginsAreCurrent` | `Sessions` without `SYMMETRY` | a login that has verified the old password mints its family after the change of password has revoked the others |
| `SignInFindsAccount` | `Accounts` with `Spellings <- TwoSpellings`, `Patches <- MailPatches`, `Budgets <- MailBudgets` | an address stored with upper-case letters is never found by the sign-in, which lowers it |
| `DriftAlwaysSeen` | `Config` with `Requests <- OneRequest`, `Budgets <- OneOverride` | an override deleted and created again starts over at version 1 and meets a client cached for the first one (`services/cluster/resolver.py:6`) |
| `HealthIsCurrent` | `Config` | a probe of the settings before a save writes its verdict on the settings after it |
| `OneRowPerScope` | `Config` with `Budgets <- TwoStarts` | two processes that start together both seed a platform default; the unique constraint does not see NULL tenants (`models/cluster_config.py:61`) |
| `PopulatesAdaptedDisks` | `Lifecycle_double_start` with 1 task, 1 client, `MaxRedeliver = 1` | two deliveries of one task both find no group and create one each, though `tasks/migration.py:225` says they must not; the Adapter Job of the first group is taken for the second |

Observations made while translating, visible in the actions named and not stated as properties:

* Conversions: a transient failure makes the group FAILED before its retry is queued, so an orchestrator that polls in between
  gives up (`WriteAggregate`, `DecideRetry`); a worker that dies between `create_attempt` and the counter leaves the same dead number as
  `reset_attempts`; the cluster Job of a dead worker and that of the next attempt write the same file.
* Migrations: a migration created from a VM loaded before its lock may find the VM MIGRATED when it runs, and fails; the SELECT FOR UPDATE of the VM row does not reload it (`CreateBegin`).
  A publish that fails after some jobs of a group leaves these running for a migration that has failed (`Enqueue`).
* Cluster: a run redelivered after `create_vm` meets its own machine and fails with NAME_CONFLICT (`NameConflict`); a populator Job that failed and its volume are
  reused by the retry (`PopulatorExists`); a run that outlives a cancel leaves objects behind (`outlived`); the Adapter Job is never cleaned by a cancel; of two
  grants that are new at the same time one may be lost (`PatchScc`); the cached export is up to 30 minutes old (`Expire`); only the second call
  of `ensure_tenant_namespace` uses the cluster override of the tenant (`services/migrator/service.py:123`).
* Inventory: a flush that fails leaves the hypervisor DISCOVERING (`SyncFlushFails`); nothing writes `VMStatus.MIGRATING`, so a
  synchronisation archives a machine whose migration runs, and writes ARCHIVED over a MIGRATED set meanwhile; a forced analysis changes a MIGRATED machine; an identity built
  from a partial reading makes a second row; an empty answer of Hyper-V archives every machine of the host; rows without identity are never
  archived; Workstation rows are inserted COMPATIBLE without analysis; release names taken from the kernel, and `windows_2019x64`, match no rule.
* Sessions: a client that did not get the answer of a refresh and retries it honestly ends its family; a password reset through
  PUT /users/{id} ends no family; a success erases the failures other attempts counted.
* Accounts: two superusers can delete each other in overlapping requests;
  GET /roles hides custom roles that GET /roles/{id} shows.
* Settings: two saves that overlap make one row of two under one version; a connection test writes the health of the settings it read to those
  saved meanwhile, also the one documented as not changing anything; the event of a change is lost when the process dies after the commit.

## 5. The proofs

TLAPS proves forty-one theorems, for every value of the constants. Each proof module extends its module and assumes the `ASSUME`s
of that module, and some theorems a named hypothesis about the environment (`Calm`, `Alive`, `Solitary`, `Undisturbed`, `Identified`, `DistinctReports`, `OwnHypervisors`, ...), which says how much of it is switched
off: each of them corresponds to a row of section 4 that shows what happens without it, or to a fault the property is not meant to survive. All have the same shape: an inductive invariant, lemmas that
say what each group of actions does and does not touch, one lemma per conjunct that can be disturbed, initial states, steps, and a temporal step.

### 5.1 MigrationLifecycle_proofs

For every set of migrations, tasks, workers, requests and disks, and any number of deaths, redeliveries, time limits and other faults:

* `TypeCorrect`: `Spec => []TypeOK`. `TypeOK` is not inductive: an action on the migration of a task
  needs that task to have been published for one. `Traceable` adds that every busy
  worker, every waiting message and every busy request refers to a migration that exists, and
  `TypeOK /\ Traceable` is inductive (`TypeStep`, `TraceableStep`).
* `AuditFollowsRow`: `Spec => []AuditMirrorsStatus`. Every step of the system
  changes the two tables in one of three ways (`RowStep`, proved action by action in `RowStepLemma`):
  not at all, by an audited status write, or by the reset to PENDING. Each of them preserves the property.
* `CompletedImpliesMigrated`: `Spec => []CompletedIsMigrated`. The inductive invariant adds
  `StampedBeforeComplete`: a worker at the stage that writes COMPLETED finds the VM row
  MIGRATED. It rests on `RowStep` (only that stage writes COMPLETED), and on `StampStep`
  (only `StampVm` leads to it, and nothing takes MIGRATED back).

The others are about processes that do not overlap, which is what the design assumes. The hypotheses are about the environment and grow:

| hypothesis | says | needed because |
|---|---|---|
| `MaxOvertaken = 0` | no start commits VALIDATING after another one did, with the status it had read before | two such starts make two orchestrators (3.4) |
| `MaxRedeliver = 0` | no message is delivered while its worker lives | a redelivery is a second orchestrator |
| `Calm` | the two, and nobody cancels | a late orchestrator writes over CANCELLED, and a second migration may have been created meanwhile |
| `Alive` | `Calm`, and no worker dies | a death between two jobs leaves a group that the next delivery takes as it is |
| `Healthy` | `Alive`, and no time limit expires | a time limit between MIGRATED and COMPLETED leaves the first without the second |
| `Solitary` | the first two, one migration, no manual conversion, `MaxOverlap = 0` | a newer group, or a lookup without the boot disk, hides what the Adapter has fixed |

What they leave on: any number of migrations, tasks, workers and overlapping requests; deaths of workers (up to `Calm`) and of handlers, time limits (up to `Alive`), refused publishes, calls of the pipeline that fail, conversions that
leave the status they had ended in.

* `OneOrchestrator` (`MaxOvertaken = 0`, `MaxRedeliver = 0`): `Spec => []SingleOrchestrator`, cancels included. `Exclusive` says that a migration has at most one message or worker,
  `Startable` that it has none before it is started and that a request that is about to publish finds none. The subtle case is the test for PENDING on the object loaded
  before the lock: requests overlap, and a start that commits is the only one of its migration that will publish (`Fresh`), since no other overtook it.
* `OneActive` and `EndedStaysEnded` (`Calm`): `[]OneActivePerVm` and `TerminalIsFinal`. `Locked` is the lock of the VM row: while a request holds it, no migration of the VM is active and
  no other request is there, whatever a worker or a start does meanwhile. `Followed` says that what the session of a worker shows is the row, although it may have been loaded
  several commits ago, and where in the pipeline the row says the worker is. Then every step changes a status in one of four ways (`StatusStep`).
* `JournalIsAPath` (`Calm`, `MaxBrokerFail = 0`): `AuditIsAPath`, from `StatusStep`; the reset after a refused publish writes no event.
* `MigratedIsCompleted` (`Healthy`): `[]MigratedHasCompleted`. A migration may be created after the VM is MIGRATED, from a view loaded before; its worker gets no further than the test of eligibility.
* `CompletedIsWhole` (`Alive`): `[]CompletedHasWholeVm`. `Filled` says of a group that an orchestrator made that it has a job for every disk, or its orchestrator is creating them, or a time limit stopped it there (`GivenUp`: its migration then fails,
  and nobody ever enqueues the group); of one that a request made, that it has a job for every disk before the request enqueues any; and that a group is READY only with every disk, so that Adapter and Migrator, who look for the newest
  READY group of the machine and not for their own, find a whole one; `Copied` says what volumes exist at each stage of the Migrator. Two things are excepted, as in the property and for the reason section 4 gives: a request that has tied its
  group to a migration (`Lendable`), since the orchestrator takes such a group with the jobs it has by then, and a lookup that found a job taken up again.
* `PopulatesTheAdapted` (`Solitary`): `[]PopulatesAdaptedDisks`. `OneGroup`: there is one group, its boot disk is converted first, so that a group that is READY has it even
  when the worker died between two jobs; what the Adapter has fixed is that group; and a worker about to create the group still finds none.

### 5.2 TargetCluster_proofs

For every set of processes, migrations, namespaces and exports, every number of disks and every scenario of faults:

* `TenantsAreSetUp`: `Spec => []NamespacesReady`. That nothing of a migration is in a namespace without quota is not inductive: a process
  is about to create a Job because of what it did several calls ago, and other processes set up the same namespace at the same time. `Founded(w)`
  says what a process has behind it at each stage: its namespace exists, then has its quota, and a list of SCC users it is about to write back has those
  that were there first. No step of the system takes a namespace, a quota or a grant away (`Growth`), so `Founded` is kept while others move.
* `JobsAreReusedSafely`: `Spec => []JobsReusedSafely`. One pod per name follows from `PodsMatch`: a name has a pod exactly while the Job
  that has the name is active and has started. That a retry never reports the failure of the run before it (`NoStaleFailure`) rests on the
  way a process comes to wait (`WaitStarts`): it has just created the Job, or has read that it had not failed, and it is then a witness of whatever
  happens to it.

The next two need a second invariant, `Order`, which holds together with the first one. Its parts:

| part | says | needed because |
|---|---|---|
| `Held` | a migration has one process, and none once it is cancelled; the request works on a cancelled migration | what a process has seen stays so while others move |
| `Untouched` | only a teardown dooms populator Jobs and volumes | a volume does not go away under a copy |
| `Behind(w)` | at each stage of the Migrator: the Adapter Job has succeeded, the disks before the present one are copied, the name is on the row | the process looks at a Job once, calls before it makes the machine |
| `Edited` | an Adapter Job that succeeded has fixed the image and is not deleted, and no populator Job exists before that | a Job of a dead run goes on, and a copy of a half-edited image would be spoilt |
| `Disked` | a volume holds what its populator's pod has written, and under a machine every disk is copied or was torn down | the machine may be started again long after the run |
| `Labelled` | a machine has the name that its migration wrote on the row | the teardown deletes by name |
| `Cleaning` | a teardown without an error has deleted all that is before its place | the history of the deletions is in the place only |

* `MachinesHaveWholeDisks`: `Spec => []VmDisksWhole`, for the migrations that are in none of the three histories `outlived`, `shared` and `misread`. One lemma per kind of object says how a step can change
  it (`RunSteps`, `JobSteps`, `VolumeSteps`, `VmSteps`, `ImageSteps`), and the steps of the parts of `Order` are proved from these and not action by action.
* `TeardownsAreComplete`: `Spec => []CleanedLeavesNothing`. Once a migration is cancelled and no process has it, nothing makes an object for it (`ClearedStays`), although pods that were
  running finish and the operators go on.

### 5.3 Sessions_proofs

For every set of users, families and requests, every threshold, window and lifetime, and every mix of calls:

* `RotationIsSafe`: `Spec => []RotationSafe`. That a token is redeemed once is about every token ever issued; what makes it inductive is that the tokens of
  a family are numbered in the order they were issued, that Redis holds at most the last one (`Chain`), and that this last token is
  either in Redis or in the hands of the one request that took it (`Rotates`, `Alone`): so no second successor can be made. `Owned` ties
  families, tokens and the metadata to one user, `Living` says that a token and its family expire together.
* `ChangeEndsSessions`: `Spec => []OldSessionsEnd`. The scan of a change of password visits families one at a time while others log in, refresh and log out.
  `Changes` says that it has not lost one: every family that is older than the new password and still alive is in the set it has
  left, or in the revocation it is carrying out; `Past` keeps what an earlier change ended.
* `SessionsEndForCause`: `Spec => EndedForCause`, three action properties: a family is taken for reused only if its token was redeemed before or
  its revocation is under way (`ReplayStep`, from `Rotates`), nobody ends the family of another user (`WipeStep`, from `Revokes` and `Owned`), and
  attempts made during a lock do not prolong it (`ThrottleStep`).
* `ThrottleOvershootsByRequests`: `Spec => []Overshoot`, for any finite set of requests. The code checks a counter, tries, and counts in three round trips, so the number in Redis alone
  says nothing about what is on its way. `Bounded` counts it with the requests that have passed the check of the bucket and not yet failed or succeeded (`Owing`): every
  step forgives, lends below the threshold, or collects what one request owed (`Treated`).

### 5.4 ClusterConfig_proofs

For every set of processes, requests and tenants, every environment and every number of operations and faults:

* `CallersGetTheirCluster`: `Spec => []ClientsFollowSettings`. What a cached client was built from is compared by version only. `Told(s)` makes that inductive for a
  scope whose versions never went back or forked: among all that the table, the caches and the sessions in flight hold of it (`Seen`), a version
  has one meaning, and the row has the highest. `ReqOk` says what stays true of a row after it was read: an id belongs to one
  scope for ever (`Names`), since no id comes back (`Ids`).
* `SettingsFitTogether`: `Spec => []RowsConsistent`. The UPDATE of a stale session writes some columns only (`MergeIs`): the row it leaves is sound when
  nobody wrote in between, and marked `torn` otherwise. One lemma (`Put`) serves the four actions that write a row.
* `ChangesAreLogged`: `Spec => []EventsMatchChanges`, by the set of the requests that have committed and not yet logged, which is finite, gains one with a commit,
  loses one with an event or a fault, and loses many when a process dies (`BalanceCrash`).

### 5.5 ConversionGroup_proofs

For every set of jobs, tools, workers and clients, every number of automatic retries and every attempt limit. Without hypothesis, whatever dies, times out, is redelivered, cancelled or retried:

* `TypeCorrect`, with `Linked` (who holds a job, an attempt or a Job of the cluster that exists).
* `DeliveriesAccounted`: `[]OneConverterPerJob`. The invariant `Accounted` is a conservation law over three finite sets: the workers that hold a job, the copies of its messages, and the requests and
  workers that still owe it one (`Debt`) are together no more than one plus the manual retries, the redeliveries and the deaths before an acknowledgement there were: a death within the task returns the message that the
  worker held, one after the retry was published returns a message that the retry has replaced. One lemma per kind of move between the
  three sets (a message is taken, owed, paid, lost) says how cardinalities change.
* `AttemptsAnswered`: `[]AttemptsConsistent`. Each provisional row has a worker that holds it, or is charged to a death or a time limit (`Answered`).

With a hypothesis:

* `CancelHolds` (requests on the group come from one client): `CancelledJobStays`. A cancelled job that nobody holds has no message that would be obeyed, and no request that has read it as something else.
* `ReadyIsWhole` (`Undisturbed`: no deaths, redeliveries or manual retries): `[]ReadyHasOutput`, through time limits, broker failures, cancels and automatic retries. `Fit` relates the
  job's status, the attempt in progress, the Jobs of the cluster and the file.
* `GroupSettles`, `GroupImplementsLife` (`Calm`: no fault and no cancel): `[]Settled` and the refinement `GroupLives`. The group is recomputed by each worker from a read of all jobs that others change
  meanwhile. `Grouped` says why the last word is right: the status written may lag, but some worker that has still to read is behind the last job that ended.

The last two hypotheses are needed: TLC violates `Settled` with one time limit, one cancel or one failure of the broker, `GroupLives` with one cancel or failure, and `ReadyHasOutput` with one
redelivery or death.

### 5.6 Accounts_proofs

For every set of accounts, roles, tenants, permissions and spellings, and any number of requests:

* `TypeCorrect`, from `Sound`: rows are well formed, no account has a role that is gone (an assignment and a deletion may overlap), addresses and names are unique.
* `PermissionsAreTraced`: `[]PermissionsTraced`. What `MayAssign` found true when a request looked is true when it commits, since grants only grow (`Rising`) and `Giving` remembers
  what the request read.
* `ChangesFollowRules`: `ChangesByRule`, its three parts commit by commit (`Ruled`).
* `TablesStayConsistent` (`LowerCase`: addresses are written in lower case): `[]TablesConsistent`, and the corollary that the sign-in finds every account; section 4 shows what an upper-case letter does.

### 5.7 VmInventory_proofs

For every set of hypervisors, rows, machines, tenants and requests, every content of the tables at the start, and any number of synchronisations, analyses, edits, migrations, moves and deaths:

* `TypeCorrect`: `Spec => []TypeOK`. A row is written from an object that a session read several steps before, column by column, so `Sound` adds what
  an open session holds (`Session`: an object for each row it has met, and for each it will insert, which no one has yet) and that two sessions insert
  under different ids (`Fresh`: the id comes from the database). The types of what the seven drivers report are lemmas of their own.
* `BusyRowsHaveOwners` (`TidyStart`: nothing is busy in the tables at the start): `[]BusyHasOwner`. Most steps of a session keep the owners by one lemma, `OwnedTurn`. The subtle part
  is `Pending`: a commit writes back only a status it has changed, and it changes it to DISCOVERED or ARCHIVED, so the stale object of
  a row that was ANALYZING when it was read never makes it ANALYZING again after the analysis has ended.
* `RowsFollowTheirMachines` (`Identified`): `[]RowsFollowMachines`. `Identified` says that every row that is there at the start and every body of POST /vms has an identity, as in an
  inventory that discovery alone has filled from sources that tell one; two of the rows that share one from the start have one that a client typed. `Traced` is the invariant:
  an object of a session has the identity of its row and of the machine it was matched with (`RowHeld`); what a session is about to insert has no
  row yet in the tenant, but one of a synchronisation that overlaps with it (`NewHeld`); and two open sessions of a tenant share only identities that are known to
  overlap (`Apart`). The two environments of section 4 that break `NeverHijacked` are those with a row without identity, which the pass by name takes: the hypothesis excludes these only.
* `SynchronisationsFollowSources` (`Identified`, and `GradedStart`: what is migrated at the start has a grade): `Spec => SyncFollowsSource`, both halves.
  `Graded` says that a migrated row has a grade, since a migration begins with one and nothing takes it back: this is why an analysis
  of it only begins by force; and `RowHeld` that a session that has found a row MIGRATED will write nothing else.
  `SyncMirrors` is about a whole synchronisation: when it was alone as it read its source and nothing has disturbed it since, the commit leaves the machines reported and the live rows of
  the hypervisor the same, migrated ones aside. `Steady` makes it inductive: whatever could disturb it spends a budget or ends a migration, neither of
  which is ever given back, so a state that looks undisturbed has been so all along (`SteadyKept`); and while it is, its objects are the rows and each machine reported is on one of
  them or still to be matched (`Mirror`). That it was alone at the start is needed: what an older synchronisation read before is committed under the newer one otherwise,
  a history of three requests, which the two of the run cannot show.
* `ViewsAlwaysAgree` (`OwnHypervisors`: the rows at the start and the bodies of POST /vms name a hypervisor of their tenant, or none): `[]ViewsAgree`. POST /vms does not check it: a body that names the
  hypervisor of another tenant makes a row which that tenant finds under its hypervisor and not in its list. `Housed` is the invariant: every row, body
  and object of a session is lodged with a hypervisor of its tenant or with one that was deleted; an object keeps the tenant of its row, and its
  hypervisor unless the second pass attached it to that of the session (`RowLodged`); and the id of a hypervisor is never another tenant's later (`KeptHyp`).
* `MachinesHaveOneRow` (`OwnHypervisors`; `DistinctReports`: no source reports two machines under one identity, wherever they are; `DistinctStart`: nor do two rows at the start share one, but a typed
  one): `[]OneRowPerIdentity`, the first half of `RowsFollowMachines`, now where rows and bodies may lack an identity and machines may share a name. The other half, `NeverHijacked`, is false there
  (section 4): the pass by name hands the row of one machine to another, and yet no machine gets a second row. `RowHeld` is false with it, so the invariant speaks of the identities a session is
  about to give (`Claimed`: to the rows it inserts, and to those without one that it took by name): `Single` says that the claims of an open session are distinct, are no longer to be
  matched, and that no other row of the tenant which the session leaves alone has one of them, unless it overlapped or was typed. `Anchored` says
  that a row names a hypervisor that is there, since the match looks under the session's own hypervisor first.

`Traced`, `Graded`, `Steady`, `Housed` and `Single` were checked with TLC before they were proved, the first two on the instance of `Inventory` with identities in all its rows, the last also with
three requests and two rows without identity; this is not kept as a run.

### 5.8 Assessment_proofs

For every machine the model can describe, every driver and prediction, and any number of readings and analyses:

* `GradesFollowFacts`: `[]GradeFollowsFacts`. `Known` is inductive. It keeps the last grade and the rules together (`Judged`) and says what the last complete reading told (`ReadTold`), so that what
  the support matrix says of the machine can be concluded from the grade of the row. `ScoreBounds` carries the argument about drivers: their warnings alone cost 15 and 20 points, which
  rules out "direct", and both together "conversion".
* `BootDiskComesFirst`: `[]BootDiskFirst`. `Known` relates the order of the disks in the row to what the last reading was not told: the root is a plain partition, and `findmnt` and `lsblk` answered; the other
  commands may each fail. Without these conditions it is false (`BootDiskHoisted`, section 4).
* `KnownFactsStay`: `KnownStaysKnown`, from what `Refreshed` does with each field (`RefreshedType`).

### 5.9 Only model-checked

Everything about liveness and ENABLED (`StartedMigrationsEnd`, `EnqueuedJobsEnd`, `RunsEnd`), and these:

* `SyncFollowsSource`, and the half `NeverHijacked` of `RowsFollowMachines`, where rows may have no identity: some histories of the run `inventory` have one.
* The half of `ViewsAgree` about hypervisors where a body names one of another tenant: it does not hold there.

## 6. What is not modelled

* **Within modelled components.** Migrations: the edit, delete, list and progress endpoints. Conversions: the choice of a tool (`plan.py`, a pure function of the disk and host), the conversion on
  the source over SFTP (a development topology), the deletion of groups. Journal: sequence numbers and the hash chain. Cluster: one cluster, not the choice between
  several; the expiry of finished Jobs (a day, longer than any run), the refresh of the service account token, sizes of volumes, contents of manifests. Settings: the shape of an uploaded
  kubeconfig, tested before anything is read. Inventory: the statistics and summary endpoints, which count rows; sessions, commands and parsers of the protocols, which are I/O; the drivers are modelled from the answers on.
  Analysis: the extraction of features and the classifier, an oracle with every answer. Accounts: usernames, and the rename of a role
  (roles are known by their name here, as users refer to them by id): what both can do to a request is to be refused by a unique constraint, which `NameTaken` allows at every commit.
* **Components.** Connectors (staging of disks over seven protocols) and the vault (encryption) are calls that succeed or raise. Reports and machine
  learning read data and keep no state that others depend on. The frontend's single-flight refresh of tokens and its adaptive
  polling have state and are on the plan; the rest of it is presentation. Infrastructure is scripts and manifests.
* **Failures.** The loss of Redis or PostgreSQL as a whole; clocks that disagree.

## 7. The plan

Done: the modules of section 2 with their runs, and the theorems of section 5. In order of what a fault would cost:

1. `EventJournal`: sequence numbers and hash chain under the row lock, with every writer of events, as a refinement of an append-only log.
2. The composition of `ConversionGroup` with its poller, which gives up on a group that a pending retry would revive.
3. The token refresh of the frontend, composed with `Sessions`.

## 8. Running the project

```
tlc -workers 2 -config Lifecycle_calm.cfg MCMigrationLifecycle.tla
tlc -workers 2 -config Cluster.cfg MCTargetCluster.tla
tlapm Sessions_proofs.tla
```

`PROJECT.json` names the module and the configuration of every run, and for every property the
mutant that breaks it.
