-------------------------- MODULE MigrationLifecycle --------------------------
(***************************************************************************)
(* The life of the migrations of ONE source virtual machine: the HTTP      *)
(* handlers that create, start and cancel a migration, the Celery broker   *)
(* that delivers run_migration tasks, and the orchestrator tasks that      *)
(* drive a migration through its pipeline.                                 *)
(*                                                                         *)
(* Two things of the platform decide most of the behaviour:                *)
(*                                                                         *)
(*  - the broker delivers at least once: a message comes back when its     *)
(*    worker dies (reject_on_worker_lost) or when the task outlives the    *)
(*    broker's visibility timeout, and then two workers run one task;      *)
(*                                                                         *)
(*  - a database session keeps every object it has loaded until its next   *)
(*    commit.  A query for a row the session already holds returns that    *)
(*    object with its old attributes, SELECT ... FOR UPDATE included, and  *)
(*    an assignment that does not change the loaded value writes nothing.  *)
(*    `seen' is that loaded value of migrations.status, None when the      *)
(*    session must read the row at its next use.                           *)
(*                                                                         *)
(* Conversion is the abstraction ConversionStep: a group of jobs that ends *)
(* somehow.  The cluster is the set of target volumes and the owner of the *)
(* one VirtualMachine object that carries the target name.                 *)
(***************************************************************************)
EXTENDS Naturals, Sequences, FiniteSets, GroupStatuses

CONSTANTS Migrations,      \* rows that may be created, all for the same VM
          Tasks,           \* celery ids, one per successful run_migration.delay
          Workers,         \* celery processes of the migrations queue
          Clients,         \* concurrent HTTP requests
          Disks,           \* disks list_disks reports for the VM
          BootDisk,        \* disk_index 0
          Naming,          \* whether a request may, or must, name the target VM
          None,            \* null
          MaxCrash,        \* worker deaths
          MaxTimeLimit,    \* soft time limits that expire
          MaxRedeliver,    \* visibility-timeout redeliveries
          MaxCancel,       \* POST /cancel requests
          MaxConvert,      \* POST /vms/{id}/convert requests
          MaxOvertaken,    \* starts that another start of the row overtakes
          MaxOverlap,      \* lookups of a group whose job a late worker took up
          MaxBrokerFail,   \* failed publishes of run_migration
          MaxRelapse,      \* groups that leave the status they had ended in
          MaxDeadHandler,  \* API processes that die within a handler
          RevokeMayFail,   \* whether control.revoke can raise
          PipelineMayFail  \* whether an external call of the pipeline can fail

ASSUME ConstantsAssumption ==
    /\ BootDisk \in Disks
    /\ None \notin Migrations /\ None \notin Tasks
    /\ {MaxCrash, MaxTimeLimit, MaxRedeliver, MaxCancel, MaxConvert, MaxOvertaken,
        MaxOverlap, MaxBrokerFail, MaxRelapse, MaxDeadHandler} \subseteq Nat
    /\ {RevokeMayFail, PipelineMayFail} \subseteq BOOLEAN
    /\ Naming \subseteq BOOLEAN

VARIABLES row,      \* migrations table: status, celery_task_id, target_vm_name set?
          audit,    \* the last status event of each migration: from, to
          vm,       \* virtual_machines.status of the source VM
          groups,   \* conversion_groups of the VM, oldest first
          cluster,  \* VirtualMachine's owner, target PVCs, Adapter Jobs that succeeded
          queue,    \* copies of each task's message in the broker
          target,   \* the migration a task was published for
          revoked,  \* ids the workers were told to revoke
          worker,   \* what each celery process is doing
          client,   \* what each HTTP request is doing
          spent     \* how much of each bound of the environment is used

data == <<row, audit, vm, groups, cluster>>
broker == <<queue, target, revoked>>
vars == <<data, broker, worker, client, spent>>

-----------------------------------------------------------------------------
InPipeline == {"VALIDATING", "PREPARING", "TRANSFERRING", "CONFIGURING",
               "STARTING", "VERIFYING"}
Active == {"PENDING"} \cup InPipeline
Terminal == {"COMPLETED", "FAILED", "CANCELLED"}
ProtectedTerminal == {"COMPLETED", "CANCELLED"}
Status == Active \cup Terminal

ASSUME NoneAssumption == None \notin Status

CanMigrate == {"COMPATIBLE"}
VmStatus == CanMigrate \cup {"MIGRATED"}

(* Of a group: the jobs it has, those that a message or a client's retry    *)
(* may run, and those that were when it last ended; and who made it, the    *)
(* orchestrator or a request, and how far the request is.                   *)
Group == [owner : Migrations \cup {None}, status : GroupStatus,
          jobs : SUBSET Disks, enqueued : SUBSET Disks, ended : SUBSET Disks,
          adapted : BOOLEAN, by : {"task", "jobs", "enqueue", "refuse", "done"}]

Stages == {"validate", "eligible", "prepare", "group", "list", "jobs",
           "transfer", "enqueue", "wait", "adapt", "configure", "context",
           "populate", "starting", "create", "verifying", "running", "stamp",
           "complete", "cleanup", "fail", "failed"}
IdleWorker == [at |-> "idle", task |-> None, seen |-> None, own |-> 0,
               ctx |-> 0, left |-> {}]
IdleClient == [at |-> "idle", mig |-> None, seen |-> None, task |-> None]

Row == [status : Status \cup {None}, task : Tasks \cup {None}, named : BOOLEAN]
Event == [from : Status \cup {None}, to : Status \cup {None}]
Cluster == [vm : Migrations \cup {None}, pvcs : SUBSET (Migrations \X Disks),
            fixed : SUBSET Migrations]
Orchestrator == [at : Stages \cup {"idle"}, task : Tasks \cup {None},
                 seen : Status \cup {None}, own : Nat, ctx : Nat,
                 left : SUBSET Disks]
Request == [at : {"idle", "create", "insert", "start", "publish", "stampid",
                  "revoke", "cancel", "cleanup"},
            mig : Migrations \cup {None}, seen : Status \cup {None},
            task : Tasks \cup {None}]
Bounded == {"crash", "limit", "redeliver", "cancel", "convert", "overtaken",
            "overlap", "broker", "relapse", "handler"}

TypeOK ==
    /\ row \in [Migrations -> Row]
    /\ audit \in [Migrations -> Event]
    /\ vm \in VmStatus
    /\ groups \in Seq(Group)
    /\ cluster \in Cluster
    /\ queue \in [Tasks -> Nat]
    /\ target \in [Tasks -> Migrations \cup {None}]
    /\ revoked \subseteq Tasks
    /\ worker \in [Workers -> Orchestrator]
    /\ client \in [Clients -> Request]
    /\ spent \in [Bounded -> Nat]

Init ==
    /\ row = [m \in Migrations |-> [status |-> None, task |-> None,
                                    named |-> FALSE]]
    /\ audit = [m \in Migrations |-> [from |-> None, to |-> None]]
    /\ vm = "COMPATIBLE"
    /\ groups = <<>>
    /\ cluster = [vm |-> None, pvcs |-> {}, fixed |-> {}]
    /\ queue = [t \in Tasks |-> 0]
    /\ target = [t \in Tasks |-> None]
    /\ revoked = {}
    /\ worker = [w \in Workers |-> IdleWorker]
    /\ client = [c \in Clients |-> IdleClient]
    /\ spent = [what \in Bounded |-> 0]

-----------------------------------------------------------------------------
(* Mutant: the transition forgets its audit event.                          *)
SetStatusUnaudited(m, seen, new) ==
    row' = [row EXCEPT ![m].status = new] /\ UNCHANGED audit

(* crud.set_migration_status by a session that loaded status `seen': the    *)
(* UPDATE and the audit event are one transaction, and neither happens when *)
(* the loaded value already is the new one.  A failure event carries no     *)
(* from_status.                                                             *)
SetStatus(m, seen, new) ==
    IF seen = new
    THEN UNCHANGED <<row, audit>>
    ELSE /\ row' = [row EXCEPT ![m].status = new]
         /\ audit' = [audit EXCEPT ![m] =
                [from |-> IF new = "FAILED" THEN None ELSE seen, to |-> new]]

(* What list_groups(status=READY, limit=1) and _find_existing_group choose  *)
(* from; both take the newest.                                              *)
ReadyGroups == {g \in DOMAIN groups : groups[g].status = "READY"}
GroupsOf(m) == {g \in DOMAIN groups : groups[g].owner = m}
IsNewest(g, candidates) == g \in candidates /\ \A h \in candidates : h <= g

NewGroup(m, by) ==
    [owner |-> m, status |-> "PENDING", jobs |-> {}, enqueued |-> {}, ended |-> {},
     adapted |-> FALSE, by |-> by]

(* create_job commits one job per disk of the source, the boot disk first.  *)
NextDisk(jobs) == IF BootDisk \in jobs THEN Disks \ jobs ELSE {BootDisk}

Spend(what, max) == spent[what] < max
                    /\ spent' = [spent EXCEPT ![what] = @ + 1]

-----------------------------------------------------------------------------
(* HTTP handlers.  Each step of a client is one transaction or one message. *)

Respond(c) == client' = [client EXCEPT ![c] = IdleClient]

(* POST /migrations, first half: load the VM, whose status the handler will *)
(* judge; a request that it refuses for that has no effect.                 *)
CreateBegin(c, m) ==
    /\ client[c].at = "idle" /\ row[m].status = None /\ vm \in CanMigrate
    /\ \A d \in Clients : client[d].mig # m
    /\ client' = [client EXCEPT ![c] = [IdleClient EXCEPT
                     !.at = "create", !.mig = m]]
    /\ UNCHANGED <<data, broker, worker, spent>>

(* Mutant: the VM's row is not locked.                                      *)
CreateUnlocked(c) ==
    /\ client[c].at = "create"
    /\ IF \A n \in Migrations : row[n].status \notin Active
       THEN client' = [client EXCEPT ![c].at = "insert"] ELSE Respond(c)
    /\ UNCHANGED <<data, broker, worker, spent>>

(* Second half, under the VM's row lock: the VM object still shows the      *)
(* status loaded before the lock, the query for an active migration is      *)
(* fresh ...                                                                *)
CreateLock(c) ==
    /\ client[c].at = "create" /\ \A d \in Clients : client[d].at # "insert"
    /\ IF \A n \in Migrations : row[n].status \notin Active
       THEN client' = [client EXCEPT ![c].at = "insert"] ELSE Respond(c)
    /\ UNCHANGED <<data, broker, worker, spent>>

(* ... and the row and its first audit event are one transaction, whose     *)
(* commit releases the lock.                                                *)
CreateInsert(c, named) ==
    LET m == client[c].mig IN
    /\ client[c].at = "insert"
    /\ row' = [row EXCEPT ![m] = [status |-> "PENDING", task |-> None,
                                  named |-> named]]
    /\ audit' = [audit EXCEPT ![m] = [from |-> None, to |-> "PENDING"]]
    /\ Respond(c)
    /\ UNCHANGED <<vm, groups, cluster, broker, worker, spent>>

(* Mutant: no test for PENDING.                                             *)
StartUnguarded(c, m) ==
    /\ client[c].at = "idle" /\ row[m].status # None
    /\ client' = [client EXCEPT ![c] = [IdleClient EXCEPT
                     !.at = "start", !.mig = m, !.seen = row[m].status]]
    /\ UNCHANGED <<data, broker, worker, spent>>

(* POST /{id}/start: get_migration loads the row, and this is the status    *)
(* the test for PENDING reads: the SELECT FOR UPDATE that follows returns   *)
(* the object already loaded ...                                            *)
StartBegin(c, m) ==
    /\ client[c].at = "idle" /\ row[m].status = "PENDING"
    /\ client' = [client EXCEPT ![c] = [IdleClient EXCEPT
                     !.at = "start", !.mig = m, !.seen = row[m].status]]
    /\ UNCHANGED <<data, broker, worker, spent>>

(* ... then VALIDATING, whose commit releases the lock, though another      *)
(* start may have overtaken this one, and a refresh ...                     *)
StartValidate(c) ==
    LET m == client[c].mig IN
    /\ client[c].at = "start"
    /\ IF row[m].status = client[c].seen THEN UNCHANGED spent
                                         ELSE Spend("overtaken", MaxOvertaken)
    /\ SetStatus(m, client[c].seen, "VALIDATING")
    /\ client' = [client EXCEPT ![c].at = "publish", ![c].seen = "VALIDATING"]
    /\ UNCHANGED <<vm, groups, cluster, broker, worker>>

(* ... run_migration.delay publishes a new task ...                         *)
StartPublish(c, t) ==
    /\ client[c].at = "publish" /\ target[t] = None
    /\ queue' = [queue EXCEPT ![t] = 1]
    /\ target' = [target EXCEPT ![t] = client[c].mig]
    /\ client' = [client EXCEPT ![c].at = "stampid", ![c].task = t]
    /\ UNCHANGED <<data, revoked, worker, spent>>

(* ... or fails, and the handler puts the row back to PENDING: no lock, no  *)
(* test of the current status, no audit event ...                           *)
StartBrokerDown(c) ==
    /\ client[c].at = "publish" /\ Spend("broker", MaxBrokerFail)
    /\ row' = [row EXCEPT ![client[c].mig].status = "PENDING"]
    /\ Respond(c)
    /\ UNCHANGED <<audit, vm, groups, cluster, broker, worker>>

(* ... and the task id is stored for a later cancel.                        *)
StartStampId(c) ==
    /\ client[c].at = "stampid"
    /\ row' = [row EXCEPT ![client[c].mig].task = client[c].task]
    /\ Respond(c)
    /\ UNCHANGED <<audit, vm, groups, cluster, broker, worker, spent>>

(* POST /{id}/cancel: load, refuse a migration that is not active ...       *)
CancelBegin(c, m) ==
    /\ client[c].at = "idle" /\ row[m].status \in Active
    /\ Spend("cancel", MaxCancel)
    /\ client' = [client EXCEPT ![c] = [at |-> "revoke", mig |-> m,
                     seen |-> row[m].status, task |-> row[m].task]]
    /\ UNCHANGED <<data, broker, worker>>

(* ... revoke the task whose id was loaded, if any; a failure is swallowed  *)
(* and nothing waits for the workers to act on it ...                       *)
CancelRevoke(c) ==
    /\ client[c].at = "revoke"
    /\ \/ revoked' = revoked \cup ({client[c].task} \ {None})
       \/ RevokeMayFail /\ UNCHANGED revoked
    /\ client' = [client EXCEPT ![c].at = "cancel"]
    /\ UNCHANGED <<data, queue, target, worker, spent>>

(* ... write CANCELLED over whatever the row holds ...                      *)
CancelCommit(c) ==
    /\ client[c].at = "cancel"
    /\ SetStatus(client[c].mig, client[c].seen, "CANCELLED")
    /\ client' = [client EXCEPT ![c].at = "cleanup"]
    /\ UNCHANGED <<vm, groups, cluster, broker, worker, spent>>

(* ... and tear down: the VirtualMachine of that name, if the row has a     *)
(* name, whoever created it, and the volumes of the disks of the            *)
(* migration's groups.  Each deletion the cluster refuses is skipped.       *)
CancelCleanup(c) ==
    LET m == client[c].mig
        indices == UNION {groups[g].jobs : g \in GroupsOf(m)}
        owner == IF row[m].named THEN None ELSE cluster.vm
    IN
    /\ client[c].at = "cleanup"
    /\ \E kept \in SUBSET (cluster.pvcs \cap ({m} \X indices)),
          left \in {owner, cluster.vm} :
         /\ PipelineMayFail \/ (kept = {} /\ left = owner)
         /\ cluster' = [cluster EXCEPT !.vm = left,
                !.pvcs = (@ \ ({m} \X indices)) \cup kept]
    /\ Respond(c)
    /\ UNCHANGED <<row, audit, vm, groups, broker, worker, spent>>

(* POST /vms/{id}/convert commits a group, tied to a migration of the       *)
(* tenant if the request names one ...                                      *)
ConvertBegin ==
    /\ Spend("convert", MaxConvert)
    /\ \E owner \in {None} \cup {m \in Migrations : row[m].status # None} :
         groups' = Append(groups, NewGroup(owner, "jobs"))
    /\ UNCHANGED <<row, audit, vm, cluster, broker, worker, client>>

(* ... then its jobs, each on its own ...                                   *)
ConvertJob(g) ==
    /\ groups[g].by = "jobs"
    /\ \E d \in NextDisk(groups[g].jobs) :
         groups' = [groups EXCEPT ![g].jobs = @ \cup {d},
            ![g].by = IF Disks \subseteq groups[g].jobs \cup {d} THEN "enqueue" ELSE @]
    /\ UNCHANGED <<row, audit, vm, cluster, broker, worker, client, spent>>

(* ... and enqueues them one by one; an orchestrator that has found the     *)
(* group may have done so before.                                           *)
ConvertEnqueue(g) ==
    LET left == groups[g].jobs \ groups[g].enqueued IN
    /\ groups[g].by = "enqueue"
    /\ \/ \E d \in left :
             groups' = [groups EXCEPT ![g].enqueued = @ \cup {d},
                            ![g].by = IF left = {d} THEN "done" ELSE @]
       \/ left = {} /\ groups' = [groups EXCEPT ![g].by = "done"]
       \/ groups' = [groups EXCEPT ![g].by = "refuse"]
    /\ UNCHANGED <<row, audit, vm, cluster, broker, worker, client, spent>>

(* When the broker does not answer, every job and then the group are        *)
(* FAILED: from then on a client may have them retried.                     *)
ConvertRefuse(g) ==
    LET left == groups[g].jobs \ groups[g].enqueued IN
    /\ groups[g].by = "refuse"
    /\ \/ \E d \in left : groups' = [groups EXCEPT ![g].enqueued = @ \cup {d}]
       \/ left = {} /\ groups' = [groups EXCEPT ![g].status = "FAILED",
                             ![g].ended = {}, ![g].by = "done"]
    /\ UNCHANGED <<row, audit, vm, cluster, broker, worker, client, spent>>

(* Nothing obliges this handler to go on: one that died is one that stops.  *)
ConvertNext ==
    ConvertBegin \/ \E g \in DOMAIN groups :
                       ConvertJob(g) \/ ConvertEnqueue(g) \/ ConvertRefuse(g)

(* The API process dies within a handler: what was committed, published or  *)
(* revoked stays, and nobody does the rest.  Before its first effect the    *)
(* request might as well not have come.                                     *)
HandlerDies(c) ==
    /\ client[c].at \in {"publish", "stampid", "cancel", "cleanup"}
    /\ Spend("handler", MaxDeadHandler)
    /\ Respond(c)
    /\ UNCHANGED <<data, broker, worker>>

ClientNext(c) ==
    \/ \E m \in Migrations : CreateBegin(c, m) \/ StartBegin(c, m)
                             \/ CancelBegin(c, m)
    \/ CreateLock(c) \/ \E named \in Naming : CreateInsert(c, named)
    \/ \E t \in Tasks : StartPublish(c, t)
    \/ StartValidate(c) \/ StartBrokerDown(c) \/ StartStampId(c)
    \/ CancelRevoke(c) \/ CancelCommit(c) \/ CancelCleanup(c) \/ HandlerDies(c)

-----------------------------------------------------------------------------
(* What the converter pipeline may do to a group with a job to run: a move  *)
(* of GroupLife, READY only if all its jobs could run, or back to work on a *)
(* job that came after its end.  A worker or a request that was late can    *)
(* also overwrite a group that had ended, READY or not.                     *)
ConversionStep(g) ==
    LET group == groups[g]
        Moves(new) == \/ Expected(group.status, new)
                      \/ /\ new = "IN_PROGRESS"
                         /\ ~(group.enqueued \subseteq group.ended)
    IN
    /\ group.enqueued # {}
    /\ \E new \in GroupStatus \ {"PENDING", group.status} :
         /\ new = "READY" => group.jobs \subseteq group.enqueued
         /\ IF Moves(new) THEN UNCHANGED spent ELSE Spend("relapse", MaxRelapse)
         /\ groups' = [groups EXCEPT ![g].status = new,
               ![g].ended = IF new \in {"READY", "CANCELLED"} THEN group.enqueued
                                                             ELSE {}]
    /\ UNCHANGED <<row, audit, vm, cluster, broker, worker, client>>

-----------------------------------------------------------------------------
(* The orchestrator, one task per worker.  Mine is its migration.  Every    *)
(* action below is the code between two points where another process can    *)
(* be seen: a commit, a query or a wait for the cluster.                    *)
Mine(w) == target[worker[w].task]

(* The task function returned or raised: the message leaves the broker      *)
(* (acked, or rejected without requeue).                                    *)
Finish(w) == worker' = [worker EXCEPT ![w] = IdleWorker]

Goto(w, stage) == worker' = [worker EXCEPT ![w].at = stage]

(* Go on after a commit: with the migration object loaded again, or expired.*)
Reload(w, stage) == worker' = [worker EXCEPT ![w].at = stage,
                                             ![w].seen = row'[Mine(w)].status]
Expire(w, stage) == worker' = [worker EXCEPT ![w].at = stage, ![w].seen = None]

(* The status the session shows when it queries the migration.              *)
Loaded(w) == IF worker[w].seen = None THEN row[Mine(w)].status
                                      ELSE worker[w].seen

(* An exception reached run_migration's handlers.                           *)
Raise(w) == Goto(w, "fail")
RaiseExpired(w) == Expire(w, "fail")

(* A worker takes a message.  A revoked one is dropped; a migration already *)
(* terminal is left alone.                                                  *)
Receive(w, t) ==
    LET m == target[t] IN
    /\ worker[w].at = "idle" /\ queue[t] > 0
    /\ queue' = [queue EXCEPT ![t] = @ - 1]
    /\ worker' = IF t \in revoked \/ row[m].status \in Terminal THEN worker
                 ELSE [worker EXCEPT ![w] = [IdleWorker EXCEPT
                          !.at = "validate", !.task = t, !.seen = row[m].status]]
    /\ UNCHANGED <<data, target, revoked, client, spent>>

(* set_migration_status by the orchestrator, at stage `at', then `next'.    *)
Advance(w, at, status, next) ==
    /\ worker[w].at = at
    /\ SetStatus(Mine(w), Loaded(w), status)
    /\ Reload(w, next)
    /\ UNCHANGED <<vm, groups, cluster, broker, client, spent>>

Validate(w) == Advance(w, "validate", "VALIDATING", "eligible")

(* _validate reads the VM after its own commit.                             *)
CheckEligible(w) ==
    /\ worker[w].at = "eligible"
    /\ IF vm \in CanMigrate THEN Expire(w, "prepare") ELSE Raise(w)
    /\ UNCHANGED <<data, broker, client, spent>>

Prepare(w) == Advance(w, "prepare", "PREPARING", "group")

(* Reuse the group of an earlier delivery as it is ...                      *)
FindGroup(w) ==
    LET m == Mine(w) IN
    /\ worker[w].at = "group"
    /\ \/ \E g \in GroupsOf(m) :
             /\ IsNewest(g, GroupsOf(m))
             /\ worker' = [worker EXCEPT ![w].at = "transfer", ![w].own = g]
       \/ GroupsOf(m) = {} /\ Goto(w, "list")
    /\ UNCHANGED <<data, broker, client, spent>>

(* ... or list the disks on the source and insert a group that has no job   *)
(* yet: nobody looks again whether there is one by now.                     *)
CreateGroup(w) ==
    /\ worker[w].at = "list"
    /\ \/ /\ groups' = Append(groups, NewGroup(Mine(w), "task"))
          /\ worker' = [worker EXCEPT ![w].at = "jobs",
                                      ![w].own = Len(groups) + 1,
                                      ![w].left = Disks, ![w].seen = None]
       \/ PipelineMayFail /\ Raise(w) /\ UNCHANGED groups
    /\ UNCHANGED <<row, audit, vm, cluster, broker, client, spent>>

(* Mutant: jobs in any order.                                               *)
CreateJobAnyOrder(w, d) ==
    LET rest == worker[w].left \ {d} IN
    /\ worker[w].at = "jobs" /\ d \in worker[w].left
    /\ groups' = [groups EXCEPT ![worker[w].own].jobs = @ \cup {d}]
    /\ worker' = [worker EXCEPT ![w].left = rest,
                     ![w].at = IF rest = {} THEN "transfer" ELSE "jobs"]
    /\ UNCHANGED <<row, audit, vm, cluster, broker, client, spent>>

CreateJob(w, d) ==
    LET rest == worker[w].left \ {d} IN
    /\ worker[w].at = "jobs" /\ d \in worker[w].left
    /\ BootDisk \in worker[w].left => d = BootDisk
    /\ groups' = [groups EXCEPT ![worker[w].own].jobs = @ \cup {d}]
    /\ worker' = [worker EXCEPT ![w].left = rest,
                     ![w].at = IF rest = {} THEN "transfer" ELSE "jobs"]
    /\ UNCHANGED <<row, audit, vm, cluster, broker, client, spent>>

Transfer(w) == Advance(w, "transfer", "TRANSFERRING", "enqueue")

(* run_conversion_job.delay for the jobs the group has when the loop        *)
(* begins; a broker that does not answer is an exception like any other.    *)
Enqueue(w) ==
    LET todo == {d \in Disks : IF worker[w].left = {}
                               THEN d \in groups[worker[w].own].jobs
                               ELSE d \in worker[w].left}
    IN
    /\ worker[w].at = "enqueue"
    /\ \/ \E d \in todo :
             /\ groups' = [groups EXCEPT ![worker[w].own].enqueued = @ \cup {d}]
             /\ IF todo = {d}
                THEN worker' = [worker EXCEPT ![w].at = "wait", ![w].seen = None,
                                              ![w].left = {}]
                ELSE worker' = [worker EXCEPT ![w].left = todo \ {d}]
       \/ todo = {} /\ Expire(w, "wait") /\ UNCHANGED groups
       \/ PipelineMayFail /\ Raise(w) /\ UNCHANGED groups
    /\ UNCHANGED <<row, audit, vm, cluster, broker, client, spent>>

(* Mutant: a wait that only ends well.                                      *)
WaitConversionsForever(w) ==
    /\ worker[w].at = "wait" /\ groups[worker[w].own].status = "READY"
    /\ UNCHANGED data
    /\ Reload(w, "adapt")
    /\ UNCHANGED <<broker, client, spent>>

(* One decisive poll of _wait_for_conversions.  Every poll starts with      *)
(* expire_all; the deadline is only tested on a group that has not ended.   *)
WaitConversions(w) ==
    LET status == groups[worker[w].own].status IN
    /\ worker[w].at = "wait" /\ UNCHANGED data
    /\ IF status = "READY" THEN Reload(w, "adapt") ELSE RaiseExpired(w)
    /\ UNCHANGED <<broker, client, spent>>

(* _completed_jobs: the disks whose jobs are READY when a READY group is    *)
(* looked up, those it ended with unless a late worker took one up again.   *)
Completed(g, disks) ==
    \/ disks = groups[g].ended /\ UNCHANGED spent
    \/ disks # groups[g].ended /\ Spend("overlap", MaxOverlap)

(* ensure_tenant_namespace, then AdapterService.run: fix the guest on the   *)
(* boot disk of the newest READY group.  The Job is named after the         *)
(* migration and the disk: one that succeeded for an earlier delivery is    *)
(* taken as the result, whatever group it worked on.                        *)
Adapt(w) ==
    LET m == Mine(w)
        Fixes(disks) == BootDisk \in disks /\ m \notin cluster.fixed
    IN
    /\ worker[w].at = "adapt" /\ UNCHANGED row
    /\ \/ \E g \in ReadyGroups : \E disks \in SUBSET groups[g].ended :
             /\ IsNewest(g, ReadyGroups) /\ Completed(g, disks)
             /\ \/ /\ Fixes(disks)
                   /\ groups' = [groups EXCEPT ![g].adapted = TRUE]
                   /\ cluster' = [cluster EXCEPT !.fixed = @ \cup {m}]
                   /\ Reload(w, "configure") \/ (PipelineMayFail /\ Raise(w))
                \/ /\ ~Fixes(disks) /\ UNCHANGED <<groups, cluster>>
                   /\ IF disks = {} THEN Raise(w) ELSE Reload(w, "configure")
       \/ /\ ReadyGroups = {} \/ PipelineMayFail
          /\ Raise(w)
          /\ UNCHANGED <<groups, cluster, spent>>
    /\ UNCHANGED <<audit, vm, broker, client>>

Configure(w) == Advance(w, "configure", "CONFIGURING", "context")

(* MigratorService._load_context and the caching of the target name.  The   *)
(* group is looked up again.                                                *)
LoadContext(w) ==
    /\ worker[w].at = "context"
    /\ \/ /\ row' = [row EXCEPT ![Mine(w)].named = TRUE]
          /\ \E g \in ReadyGroups : \E disks \in SUBSET groups[g].ended :
               /\ IsNewest(g, ReadyGroups) /\ Completed(g, disks)
               /\ worker' = [worker EXCEPT ![w].ctx = g, ![w].left = disks,
                                ![w].at = IF disks = {} THEN "fail" ELSE "populate",
                                ![w].seen = row[Mine(w)].status]
       \/ /\ ReadyGroups = {} \/ PipelineMayFail
          /\ Raise(w) /\ UNCHANGED <<row, spent>>
    /\ UNCHANGED <<audit, vm, groups, cluster, broker, client>>

(* Mutant: the loop stops after one volume.                                 *)
PopulateOne(w, d) ==
    /\ worker[w].at = "populate" /\ d \in worker[w].left
    /\ cluster' = [cluster EXCEPT !.pvcs = @ \cup {<<Mine(w), d>>}]
    /\ Expire(w, "starting")
    /\ UNCHANGED <<row, audit, vm, groups, broker, client, spent>>

(* Create or reuse one PVC, submit its populator Job and wait.  The         *)
(* heartbeat before the wait commits: a populator that fails finds the      *)
(* migration object expired, a PVC or Job that is refused finds it loaded.  *)
Populate(w, d) ==
    LET rest == worker[w].left \ {d}
        volume == [cluster EXCEPT !.pvcs = @ \cup {<<Mine(w), d>>}]
    IN
    /\ worker[w].at = "populate" /\ d \in worker[w].left
    /\ \/ /\ cluster' = volume
          /\ worker' = [worker EXCEPT ![w].left = rest,
                ![w].at = IF rest = {} THEN "starting" ELSE "populate",
                ![w].seen = IF rest = {} THEN None ELSE row[Mine(w)].status]
       \/ PipelineMayFail /\ cluster' = volume /\ RaiseExpired(w)
       \/ PipelineMayFail /\ cluster' \in {cluster, volume} /\ Raise(w)
    /\ UNCHANGED <<row, audit, vm, groups, broker, client, spent>>

(* A stage event after the status commits again and expires the object.    *)
SetStarting(w) ==
    /\ worker[w].at = "starting"
    /\ SetStatus(Mine(w), Loaded(w), "STARTING")
    /\ Expire(w, "create")
    /\ UNCHANGED <<vm, groups, cluster, broker, client, spent>>

(* create_vm_from_manifest and runStrategy: Always.  A name that is taken   *)
(* is a conflict, even when this migration's earlier delivery took it.      *)
CreateVm(w) ==
    /\ worker[w].at = "create"
    /\ \/ /\ cluster.vm = None
          /\ cluster' = [cluster EXCEPT !.vm = Mine(w)]
          /\ Goto(w, "verifying") \/ (PipelineMayFail /\ Raise(w))
       \/ /\ cluster.vm # None \/ PipelineMayFail
          /\ Raise(w) /\ UNCHANGED cluster
    /\ UNCHANGED <<row, audit, vm, groups, broker, client, spent>>

SetVerifying(w) == Advance(w, "verifying", "VERIFYING", "running")

(* Mutants: the VM row is stamped before the check, or not at all.          *)
VerifyRunningStamped(w) ==
    /\ worker[w].at = "running" /\ vm' = "MIGRATED"
    /\ UNCHANGED <<row, audit, groups, cluster>>
    /\ \/ cluster.vm # None /\ Reload(w, "stamp")
       \/ (cluster.vm = None \/ PipelineMayFail) /\ Raise(w)
    /\ UNCHANGED <<broker, client, spent>>
VerifyRunningUnstamped(w) ==
    /\ worker[w].at = "running" /\ UNCHANGED data
    /\ IF cluster.vm # None THEN Reload(w, "complete") ELSE Raise(w)
    /\ UNCHANGED <<broker, client, spent>>

(* Wait until the VirtualMachineInstance of that name runs.                 *)
VerifyRunning(w) ==
    /\ worker[w].at = "running" /\ UNCHANGED data
    /\ \/ cluster.vm # None /\ Reload(w, "stamp")
       \/ (cluster.vm = None \/ PipelineMayFail) /\ Raise(w)
    /\ UNCHANGED <<broker, client, spent>>

(* Mutant: the wrong enumeration.                                           *)
StampVmCompleted(w) ==
    /\ worker[w].at = "stamp"
    /\ vm' = "COMPLETED"
    /\ Expire(w, "complete")
    /\ UNCHANGED <<row, audit, groups, cluster, broker, client, spent>>

(* _stamp_success_on_vm_row commits on its own, before COMPLETED, and waits *)
(* for a request that holds the VM's row.                                   *)
StampVm(w) ==
    /\ worker[w].at = "stamp" /\ \A c \in Clients : client[c].at # "insert"
    /\ vm' = "MIGRATED"
    /\ Expire(w, "complete")
    /\ UNCHANGED <<row, audit, groups, cluster, broker, client, spent>>

Complete(w) == Advance(w, "complete", "COMPLETED", "cleanup")

(* _cleanup_transit deletes the converted files; the row is untouched.      *)
CleanupTransit(w) ==
    /\ worker[w].at = "cleanup"
    /\ Finish(w)
    /\ UNCHANGED <<data, broker, client, spent>>

(* _fail: lock the row and test the status the session shows.  Recording    *)
(* the error commits, which releases the lock and reloads the row ...       *)
FailGuard(w) ==
    /\ worker[w].at = "fail" /\ UNCHANGED data
    /\ IF Loaded(w) \in ProtectedTerminal THEN Finish(w) ELSE Reload(w, "failed")
    /\ UNCHANGED <<broker, client, spent>>

(* ... and the FAILED status is a second transaction.                       *)
FailCommit(w) ==
    /\ worker[w].at = "failed"
    /\ SetStatus(Mine(w), worker[w].seen, "FAILED")
    /\ Finish(w)
    /\ UNCHANGED <<vm, groups, cluster, broker, client, spent>>

OrchestratorStep(w) ==
    \/ Validate(w) \/ CheckEligible(w) \/ Prepare(w) \/ FindGroup(w)
    \/ CreateGroup(w)
    \/ \E d \in Disks : CreateJob(w, d) \/ Populate(w, d)
    \/ Transfer(w) \/ Enqueue(w) \/ WaitConversions(w) \/ Adapt(w)
    \/ Configure(w) \/ LoadContext(w) \/ SetStarting(w) \/ CreateVm(w)
    \/ SetVerifying(w) \/ VerifyRunning(w) \/ StampVm(w) \/ Complete(w)
    \/ CleanupTransit(w) \/ FailGuard(w) \/ FailCommit(w)

(* SoftTimeLimitExceeded is raised in the task, wherever it is.             *)
SoftTimeLimit(w) ==
    /\ worker[w].at \notin {"idle", "cleanup", "fail", "failed"}
    /\ Spend("limit", MaxTimeLimit)
    /\ Raise(w)
    /\ UNCHANGED <<data, broker, client>>

(* SIGTERM from a revoke reaches the process some time later.               *)
Terminate(w) ==
    /\ worker[w].task \in revoked
    /\ Finish(w)
    /\ UNCHANGED <<data, broker, client, spent>>

(* The process dies: the broker gets the message back.                      *)
Crash(w) ==
    /\ worker[w].at # "idle" /\ Spend("crash", MaxCrash)
    /\ queue' = [queue EXCEPT ![worker[w].task] = @ + 1]
    /\ Finish(w)
    /\ UNCHANGED <<data, target, revoked, client>>

(* The task outlives the visibility timeout of its unacked message.         *)
Redeliver(w) ==
    /\ worker[w].at # "idle" /\ Spend("redeliver", MaxRedeliver)
    /\ queue' = [queue EXCEPT ![worker[w].task] = @ + 1]
    /\ UNCHANGED <<data, target, revoked, worker, client>>

WorkerNext(w) ==
    \/ \E t \in Tasks : Receive(w, t)
    \/ OrchestratorStep(w) \/ SoftTimeLimit(w) \/ Terminate(w)
    \/ Crash(w) \/ Redeliver(w)

Next ==
    \/ \E c \in Clients : ClientNext(c)
    \/ \E w \in Workers : WorkerNext(w)
    \/ \E g \in DOMAIN groups : ConversionStep(g)
    \/ ConvertNext

Spec == Init /\ [][Next]_vars

(* A handler that runs goes on, and so does a worker: it takes waiting      *)
(* messages and every wait of the pipeline has a deadline.  Nothing is      *)
(* assumed of new requests, of conversions or of the cluster.               *)
HandlerStep(c) ==
    \/ CreateLock(c) \/ \E named \in Naming : CreateInsert(c, named)
    \/ \E t \in Tasks : StartPublish(c, t)
    \/ StartValidate(c) \/ StartStampId(c)
    \/ CancelRevoke(c) \/ CancelCommit(c) \/ CancelCleanup(c)

Fairness ==
    /\ \A c \in Clients : WF_vars(HandlerStep(c))
    /\ \A w \in Workers : WF_vars(OrchestratorStep(w) \/ Terminate(w))
    /\ \A w \in Workers : WF_vars(\E t \in Tasks : Receive(w, t))

FairSpec == Spec /\ Fairness

-----------------------------------------------------------------------------
(* SAFETY                                                                  *)

(* The journal never disagrees with the row: whatever the interleaving of  *)
(* handlers, duplicate tasks and crashes, the last status event of a       *)
(* migration names its status.  The one exception is the reset to PENDING  *)
(* that start_migration makes when the broker is down.                     *)
AuditMirrorsStatus ==
    \A m \in Migrations :
        audit[m].to = row[m].status \/ row[m].status = "PENDING"

(* Success is reported in order, whatever dies in between: a migration is  *)
(* COMPLETED only once the source VM's row says MIGRATED, and that row     *)
(* says so only of a VM that runs in the cluster, until a cancel removes   *)
(* it there.                                                               *)
CompletedIsMigrated ==
    /\ \A m \in Migrations : row[m].status = "COMPLETED" => vm = "MIGRATED"
    /\ vm = "MIGRATED" => cluster.vm # None \/ spent["cancel"] > 0

(* The VM row lock of create_migration: at most one migration of a VM is   *)
(* active, however many requests create one.                               *)
OneActivePerVm ==
    \A m, n \in Migrations :
        {row[m].status, row[n].status} \subseteq Active => m = n

(* No two processes run the pipeline of one migration.                     *)
SingleOrchestrator ==
    \A v, w \in Workers :
        v # w /\ worker[v].at # "idle" /\ worker[w].at # "idle"
            => Mine(v) # Mine(w)

(* A COMPLETED migration has its VirtualMachine in the cluster and a       *)
(* target volume for every disk of the source VM.  Two things may cost it  *)
(* a disk: a convert request that ties its group to a migration, which the *)
(* orchestrator finds with the jobs it has by then, and a lookup that      *)
(* finds a job taken up again.                                             *)
Lendable(g) == groups[g].by # "task" /\ groups[g].owner # None
WholeVms ==
    \A m \in Migrations : row[m].status = "COMPLETED" =>
        cluster.vm = m /\ {m} \X Disks \subseteq cluster.pvcs
CompletedHasWholeVm ==
    (spent["overlap"] = 0 /\ ~ \E g \in DOMAIN groups : Lendable(g)) => WholeVms

(* The VM row is MIGRATED only if a migration is COMPLETED or its worker   *)
(* is between the two commits; and a VM that is MIGRATED is not migrated   *)
(* again: a migration created from an older view of the VM, before the     *)
(* lock, gets no further than the test of eligibility.                     *)
MigratedHasCompleted ==
    vm = "MIGRATED" =>
        /\ \/ \E m \in Migrations : row[m].status = "COMPLETED"
           \/ \E w \in Workers : worker[w].at = "complete"
        /\ \A w \in Workers :
              worker[w].at \in {"idle", "validate", "eligible", "complete",
                                "cleanup", "fail", "failed"}

(* What the Migrator copies into the tenant's volumes was fixed up by the  *)
(* Adapter: the two services look the group up independently.              *)
PopulatesAdaptedDisks ==
    \A w \in Workers :
        worker[w].at \in {"populate", "starting", "create", "verifying",
                          "running", "stamp", "complete"}
            => groups[worker[w].ctx].adapted

(* The Migrator copies the disks of a group tied to its own migration: the *)
(* task waited for one, so there is one.                                   *)
OwnGroupPreferred ==
    \A w \in Workers :
        worker[w].ctx # 0 => groups[worker[w].ctx].owner = Mine(w)

(* INDUCTIVE STRENGTHENING                                                 *)

(* Whoever acts, acts on a migration: a busy worker's task and a waiting   *)
(* message were published for one, a busy request loaded one.              *)
Traceable ==
    /\ \A w \in Workers : worker[w].at # "idle" =>
          worker[w].task \in Tasks /\ Mine(w) \in Migrations
    /\ \A t \in Tasks : queue[t] > 0 => target[t] \in Migrations
    /\ \A c \in Clients : client[c].at # "idle" => client[c].mig \in Migrations

(* A worker about to write COMPLETED has stamped the VM row.               *)
StampedBeforeComplete ==
    \A w \in Workers : worker[w].at = "complete" => vm = "MIGRATED"

(* ACTION PROPERTIES                                                       *)

(* A terminal migration is never given another status.                     *)
TerminalIsFinal ==
    [][\A m \in Migrations :
         row[m].status \in Terminal => row'[m].status = row[m].status]_vars

(* A cancelled migration stays cancelled.                                  *)
CancelledIsFinal ==
    [][\A m \in Migrations :
         row[m].status = "CANCELLED" => row'[m].status = "CANCELLED"]_vars

(* The journal is a path: a change of status is recorded with it, and      *)
(* leaves the status the previous event reached (a failure names none).    *)
AuditIsAPath ==
    [][\A m \in Migrations :
         row'[m].status # row[m].status =>
            /\ audit'[m].to = row'[m].status
            /\ audit'[m].from \in {audit[m].to, None}]_vars

(* LIVENESS                                                                *)

(* A started migration does not stay in the pipeline for ever.             *)
StartedMigrationsEnd ==
    \A m \in Migrations :
        row[m].status \in InPipeline ~> row[m].status \notin InPipeline

=============================================================================
