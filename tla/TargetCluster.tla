--------------------------- MODULE TargetCluster ---------------------------
(***************************************************************************)
(* What the migrations do to the OpenShift cluster, from the moment their  *)
(* disks are converted: the tenant namespace with its quota, its service   *)
(* account and its SCC grant, the Adapter Job that edits the boot image in *)
(* place, one volume and one populator Job per disk, the VirtualMachine,   *)
(* the teardown of a cancelled migration and the operators' requests to    *)
(* /kubevirt.  Every name is derived from the migration, so that a run the *)
(* broker delivers again finds what the first one left, and the cluster    *)
(* goes on with the Jobs of a process that died.                           *)
(*                                                                         *)
(* The rows of migrations and the conversion are in MigrationLifecycle;    *)
(* here a migration is its status and a message in the broker.             *)
(***************************************************************************)
EXTENDS Naturals, FiniteSets

CONSTANTS
    Processes,      \* celery processes of the migrations queue
    Migrations,
    Last,           \* the disks are 0 .. Last; 0 is _BOOT_DISK_INDEX
    Namespaces,
    Objects,        \* names of VirtualMachines, with their namespaces
    Exports,        \* the NFS exports that back the transit volume, in order
    Platform,       \* the account the committed SCC lists
    Served,         \* namespaces that were set up before, without a quota
    None,
    QuotaConfigured,    \* whether a MIGRATOR_QUOTA_* setting is present
    Scenarios       \* where the migrations go and how much may happen

Disks == 0 .. Last
BootDisk == 0
Kinds == {"crash", "redeliver", "fault", "readfault", "podfail", "cancel", "operator",
          "move", "expire"}

ASSUME ClusterAssumption ==
    /\ Last \in Nat /\ Exports \subseteq Nat /\ 0 \in Exports
    /\ Served \subseteq Namespaces /\ Platform \notin Namespaces
    /\ None \notin Processes \cup Migrations \cup Exports
    /\ QuotaConfigured \in BOOLEAN
    /\ Scenarios \subseteq [sent : SUBSET Migrations, home : [Migrations -> Namespaces],
                            object : [Migrations -> Objects], budget : [Kinds -> Nat]]

VARIABLES
    status,         \* of each migration
    named,          \* migrations whose target_vm_name is on the row
    messages,       \* run_migration messages in the broker
    run,            \* what each process is doing
    cache,          \* _CACHE of transit_discovery in each process
    request,        \* the cancellation being served
    namespaces, quotas, accounts, scc, export,
    jobs, pods,     \* the Jobs, and the pods that run for each name
    images,         \* the boot qcow2 on the transit volume
    volumes, vms,
    outlived,       \* history: migrations cancelled while a process had them
    misread,        \* history: migrations whose Adapter Job could not be read
    shared,         \* history: migrations that two processes had at a time
    cleaned,        \* history: migrations whose teardown had no error
    home, object,   \* target_namespace, and the object of the target name
    budget

cluster == <<namespaces, quotas, accounts, scc, export, jobs, pods, images, volumes, vms>>
rows == <<status, named, messages>>
history == <<outlived, misread, shared, cleaned>>
vars == <<rows, run, cache, request, cluster, history, home, object, budget>>

Statuses == {"ready", "running", "failed", "completed", "cancelled"}
JobNames == ({"adapt"} \X Migrations \X {BootDisk}) \cup ({"populate"} \X Migrations \X Disks)
Job == [phase : {"none", "active", "succeeded", "failed"}, started : BOOLEAN, going : BOOLEAN,
        src : Exports \cup {None}, witnesses : SUBSET Processes]
NoJob == [phase |-> "none", started |-> FALSE, going |-> FALSE, src |-> None, witnesses |-> {}]
Volume == [content : {"none", "empty", "partial", "spoilt", "whole"}, going : BOOLEAN]
NoVolume == [content |-> "none", going |-> FALSE]
Machine == [owner : Migrations, on : BOOLEAN, vmi : {"none", "running", "failed"}]
Stages == {"namespace", "create", "quota", "newquota", "account", "readscc", "patchscc",
           "adapt", "recheck", "delete", "reap", "recreate", "adapting", "name", "volume",
           "populate", "copying", "createvm", "startvm", "verifying", "reverifying"}
Idle == [at |-> "idle", mig |-> None, disk |-> 0, again |-> FALSE, users |-> {}]
NoRequest == [at |-> "idle", mig |-> None, disk |-> 0, clean |-> TRUE]

TypeOK ==
    /\ status \in [Migrations -> Statuses]
    /\ named \subseteq Migrations /\ messages \subseteq Migrations
    /\ run \in [Processes -> [at : Stages \cup {"idle"}, mig : Migrations \cup {None}, disk : Disks,
                              again : BOOLEAN, users : SUBSET (Namespaces \cup {Platform})]]
    /\ cache \in [Processes -> Exports \cup {None}]
    /\ request \in [at : {"idle", "vm", "job", "volume"}, mig : Migrations \cup {None},
                    disk : Disks, clean : BOOLEAN]
    /\ namespaces \subseteq Namespaces /\ quotas \subseteq namespaces /\ accounts \subseteq namespaces
    /\ scc \subseteq Namespaces \cup {Platform}
    /\ export \in Exports
    /\ jobs \in [JobNames -> Job] /\ pods \in [JobNames -> Nat]
    /\ images \in [Migrations -> {"plain", "half", "fixed"}]
    /\ volumes \in [Migrations \X Disks -> Volume]
    /\ vms \in [Objects -> Machine \cup {None}]
    /\ outlived \subseteq Migrations /\ misread \subseteq Migrations
    /\ shared \subseteq Migrations /\ cleaned \subseteq Migrations
    /\ budget \in [Kinds -> Nat]

Init ==
    /\ \E s \in Scenarios : home = s.home /\ object = s.object /\ budget = s.budget /\ messages = s.sent
    /\ status = [m \in Migrations |-> "ready"]
    /\ named = {}
    /\ run = [w \in Processes |-> Idle]
    /\ cache = [w \in Processes |-> None]
    /\ request = NoRequest
    /\ namespaces = Served /\ quotas = {} /\ accounts = Served
    /\ scc = Served \cup {Platform}
    /\ export = 0
    /\ jobs = [j \in JobNames |-> NoJob] /\ pods = [j \in JobNames |-> 0]
    /\ images = [m \in Migrations |-> "plain"]
    /\ volumes = [v \in Migrations \X Disks |-> NoVolume]
    /\ vms = [o \in Objects |-> None]
    /\ outlived = {} /\ misread = {} /\ shared = {} /\ cleaned = {}

-----------------------------------------------------------------------------
Spend(kind) == budget[kind] > 0 /\ budget' = [budget EXCEPT ![kind] = @ - 1]
At(w, stage) == run[w].at = stage
Mig(w) == run[w].mig
Home(w) == home[Mig(w)]
Goto(w, stage) == run' = [run EXCEPT ![w].at = stage]
Holders(m) == {w \in Processes : run[w].mig = m}

(* _fail: a migration that is completed or cancelled stays so.  The task    *)
(* returns and the cluster keeps everything the run has made.               *)
Fail(w) ==
    /\ status' = [status EXCEPT ![Mig(w)] = IF @ = "running" THEN "failed" ELSE @]
    /\ run' = [run EXCEPT ![w] = Idle]
    /\ UNCHANGED <<named, messages, cache, request, cluster, history, home, object, budget>>

(* A step that touches only the cluster variables it names. *)
Steps(w) == UNCHANGED <<rows, request, history, home, object, budget>>

(* run_migration starts with a migration the broker hands over; a terminal  *)
(* one is acknowledged and dropped.  Validation and conversion come first.  *)
Receive(w, m) ==
    /\ At(w, "idle") /\ m \in messages
    /\ messages' = messages \ {m}
    /\ IF status[m] \in {"ready", "running"}
       THEN /\ status' = [status EXCEPT ![m] = "running"]
            /\ run' = [run EXCEPT ![w] = [Idle EXCEPT !.at = "namespace", !.mig = m]]
            /\ shared' = IF Holders(m) = {} THEN shared ELSE shared \cup {m}
       ELSE UNCHANGED <<status, run, shared>>
    /\ UNCHANGED <<named, cache, request, cluster, outlived, misread, cleaned, home, object, budget>>

-----------------------------------------------------------------------------
(* ensure_tenant_namespace, before the Adapter and again in the Migrator.   *)
ReadNamespace(w) ==
    /\ At(w, "namespace")
    /\ Goto(w, IF Home(w) \in namespaces THEN "quota" ELSE "create")
    /\ UNCHANGED <<cache, cluster>> /\ Steps(w)

(* A conflict means that another process has just made it. *)
CreateNamespace(w) ==
    /\ At(w, "create")
    /\ namespaces' = namespaces \cup {Home(w)}
    /\ Goto(w, "quota")
    /\ UNCHANGED <<cache, quotas, accounts, scc, export, jobs, pods, images, volumes, vms>>
    /\ Steps(w)

(* apply_default_resource_quota *)
ReadQuota(w) ==
    /\ At(w, "quota")
    /\ Goto(w, IF QuotaConfigured => Home(w) \in quotas THEN "account" ELSE "newquota")
    /\ UNCHANGED <<cache, cluster>> /\ Steps(w)

CreateQuota(w) ==
    /\ At(w, "newquota")
    /\ quotas' = quotas \cup {Home(w)}
    /\ Goto(w, "account")
    /\ UNCHANGED <<cache, namespaces, accounts, scc, export, jobs, pods, images, volumes, vms>>
    /\ Steps(w)

(* ensure_populator_scc: the list of users is read, and the merge patch     *)
(* writes the list that was read with one more user.                        *)
CreateAccount(w) ==
    /\ At(w, "account")
    /\ accounts' = accounts \cup {Home(w)}
    /\ Goto(w, "readscc")
    /\ UNCHANGED <<cache, namespaces, quotas, scc, export, jobs, pods, images, volumes, vms>>
    /\ Steps(w)

Ensured(w) == IF run[w].again THEN "name" ELSE "adapt"

ReadScc(w) ==
    /\ At(w, "readscc")
    /\ run' = IF Home(w) \in scc THEN [run EXCEPT ![w].at = Ensured(w)]
              ELSE [run EXCEPT ![w].at = "patchscc", ![w].users = scc]
    /\ UNCHANGED <<cache, cluster>> /\ Steps(w)

(* Mutant: the patch carries the new user alone. *)
PatchSccAlone(w) ==
    /\ At(w, "patchscc")
    /\ scc' = {Home(w)}
    /\ run' = [run EXCEPT ![w].at = Ensured(w), ![w].users = {}]
    /\ UNCHANGED <<cache, namespaces, quotas, accounts, export, jobs, pods, images, volumes, vms>>
    /\ Steps(w)

PatchScc(w) ==
    /\ At(w, "patchscc")
    /\ scc' = run[w].users \cup {Home(w)}
    /\ run' = [run EXCEPT ![w].at = Ensured(w), ![w].users = {}]
    /\ UNCHANGED <<cache, namespaces, quotas, accounts, export, jobs, pods, images, volumes, vms>>
    /\ Steps(w)

-----------------------------------------------------------------------------
(* Jobs.  The manifest carries the export that discover_transit_nfs gives:  *)
(* the cached one while its time to live lasts, else that of the volume.    *)
Located(w) == IF cache[w] = None THEN export ELSE cache[w]

NewJobAt(w, j) == [NoJob EXCEPT !.phase = "active", !.src = Located(w)]

Create(w, j, next) ==
    /\ jobs' = [jobs EXCEPT ![j] = NewJobAt(w, j)]
    /\ cache' = [cache EXCEPT ![w] = Located(w)]
    /\ Goto(w, next)
    /\ UNCHANGED <<namespaces, quotas, accounts, scc, export, pods, images, volumes, vms>>
    /\ Steps(w)

AdaptJob(w) == <<"adapt", Mig(w), BootDisk>>
PopulateJob(w) == <<"populate", Mig(w), run[w].disk>>

(* submit_adapter_job: a Job of this name may be there already. *)
SubmitAdapter(w) ==
    /\ At(w, "adapt")
    /\ jobs[AdaptJob(w)].phase = "none"
    /\ Create(w, AdaptJob(w), "adapting")

AdapterExists(w) ==
    /\ At(w, "adapt")
    /\ jobs[AdaptJob(w)].phase # "none"
    /\ cache' = [cache EXCEPT ![w] = Located(w)]
    /\ Goto(w, "recheck")
    /\ UNCHANGED cluster /\ Steps(w)

(* Mutant: a Job of the name will do, whatever its state. *)
ReusableAny(j) == jobs[j].phase # "none"

(* _existing_job_is_reusable; a Job that is gone by now reads as an error.  *)
Reusable(j) == jobs[j].phase \in {"active", "succeeded"}

Recheck(w) ==
    /\ At(w, "recheck")
    /\ Goto(w, IF Reusable(AdaptJob(w)) THEN "adapting" ELSE "delete")
    /\ UNCHANGED <<cache, cluster>> /\ Steps(w)

(* Any other failure of that read counts as a stale Job. *)
RecheckFault(w) ==
    /\ At(w, "recheck") /\ Spend("readfault")
    /\ misread' = misread \cup {Mig(w)}
    /\ Goto(w, "delete")
    /\ UNCHANGED <<rows, cache, request, cluster, outlived, shared, cleaned, home, object>>

(* _delete_job_and_wait: the Job lives on until its pod is gone. *)
DeleteStale(w) ==
    /\ At(w, "delete")
    /\ IF jobs[AdaptJob(w)].phase = "none"
       THEN UNCHANGED jobs /\ Goto(w, "recreate")
       ELSE /\ jobs' = [jobs EXCEPT ![AdaptJob(w)].going = TRUE]
            /\ Goto(w, "reap")
    /\ UNCHANGED <<cache, namespaces, quotas, accounts, scc, export, pods, images, volumes, vms>>
    /\ Steps(w)

Reap(w) ==
    /\ At(w, "reap") /\ jobs[AdaptJob(w)].phase = "none"
    /\ Goto(w, "recreate")
    /\ UNCHANGED <<cache, cluster>> /\ Steps(w)

(* Mutant: the poll has no deadline. *)
ReapTimeoutNever(w) == At(w, "reap") /\ jobs[AdaptJob(w)].phase # "none" /\ UNCHANGED vars

ReapTimeout(w) == At(w, "reap") /\ jobs[AdaptJob(w)].phase # "none" /\ Fail(w)

Recreate(w) ==
    /\ At(w, "recreate") /\ jobs[AdaptJob(w)].phase = "none"
    /\ Create(w, AdaptJob(w), "adapting")

RecreateConflict(w) == At(w, "recreate") /\ jobs[AdaptJob(w)].phase # "none" /\ Fail(w)

(* wait_for_adapter and wait_for_populator: the client gives up on a Job    *)
(* that takes too long, and a Job that is gone reads as an error.           *)
Succeeded(j) == jobs[j].phase = "succeeded"
EndsBadly(j) == jobs[j].phase # "succeeded"

Adapted(w) ==
    /\ At(w, "adapting") /\ Succeeded(AdaptJob(w))
    /\ run' = [run EXCEPT ![w].at = "namespace", ![w].again = TRUE]
    /\ UNCHANGED <<cache, cluster>> /\ Steps(w)

AdapterFails(w) == At(w, "adapting") /\ EndsBadly(AdaptJob(w)) /\ Fail(w)

(* MigratorService.run caches the resolved name on the row. *)
WriteName(w) ==
    /\ At(w, "name")
    /\ named' = named \cup {Mig(w)}
    /\ run' = [run EXCEPT ![w].at = "volume", ![w].disk = BootDisk]
    /\ UNCHANGED <<status, messages, cache, request, cluster, history, home, object, budget>>

(* create_target_pvc: an existing volume is used as it is. *)
CreateVolume(w) ==
    LET v == <<Mig(w), run[w].disk>> IN
    /\ At(w, "volume")
    /\ volumes' = IF volumes[v].content = "none"
                  THEN [volumes EXCEPT ![v].content = "empty"] ELSE volumes
    /\ Goto(w, "populate")
    /\ UNCHANGED <<cache, namespaces, quotas, accounts, scc, export, jobs, pods, images, vms>>
    /\ Steps(w)

(* submit_populator_job: whatever its state, an existing Job is used. *)
SubmitPopulator(w) ==
    /\ At(w, "populate")
    /\ jobs[PopulateJob(w)].phase = "none"
    /\ Create(w, PopulateJob(w), "copying")

PopulatorExists(w) ==
    /\ At(w, "populate")
    /\ jobs[PopulateJob(w)].phase # "none"
    /\ cache' = [cache EXCEPT ![w] = Located(w)]
    /\ Goto(w, "copying")
    /\ UNCHANGED cluster /\ Steps(w)

(* Mutant: the client does not look at how the Job ended. *)
PopulatedAnyhow(w) ==
    /\ At(w, "copying")
    /\ run' = IF run[w].disk = Last THEN [run EXCEPT ![w].at = "createvm"]
              ELSE [run EXCEPT ![w].at = "volume", ![w].disk = @ + 1]
    /\ UNCHANGED <<cache, cluster>> /\ Steps(w)

Populated(w) ==
    /\ At(w, "copying") /\ Succeeded(PopulateJob(w))
    /\ run' = IF run[w].disk = Last THEN [run EXCEPT ![w].at = "createvm"]
              ELSE [run EXCEPT ![w].at = "volume", ![w].disk = @ + 1]
    /\ UNCHANGED <<cache, cluster>> /\ Steps(w)

PopulatorFails(w) == At(w, "copying") /\ EndsBadly(PopulateJob(w)) /\ Fail(w)

-----------------------------------------------------------------------------
(* The VirtualMachine is made halted, then switched on, by its name. *)
Target(w) == object[Mig(w)]

CreateVm(w) ==
    /\ At(w, "createvm") /\ vms[Target(w)] = None
    /\ vms' = [vms EXCEPT ![Target(w)] = [owner |-> Mig(w), on |-> FALSE, vmi |-> "none"]]
    /\ Goto(w, "startvm")
    /\ UNCHANGED <<cache, namespaces, quotas, accounts, scc, export, jobs, pods, images, volumes>>
    /\ Steps(w)

NameConflict(w) == At(w, "createvm") /\ vms[Target(w)] # None /\ Fail(w)

StartVm(w) ==
    /\ At(w, "startvm") /\ vms[Target(w)] # None
    /\ vms' = [vms EXCEPT ![Target(w)].on = TRUE]
    /\ Goto(w, "verifying")
    /\ UNCHANGED <<cache, namespaces, quotas, accounts, scc, export, jobs, pods, images, volumes>>
    /\ Steps(w)

StartMissing(w) == At(w, "startvm") /\ vms[Target(w)] = None /\ Fail(w)

Vmi(w) == IF vms[Target(w)] = None THEN "none" ELSE vms[Target(w)].vmi
Verifying(w) == run[w].at \in {"verifying", "reverifying"}

Complete(w) ==
    /\ Verifying(w) /\ Vmi(w) = "running"
    /\ status' = [status EXCEPT ![Mig(w)] = "completed"]
    /\ run' = [run EXCEPT ![w] = Idle]
    /\ UNCHANGED <<named, messages, cache, request, cluster, history, home, object, budget>>

(* The machine failed, or did not run in time. *)
NeverRan(w) == Verifying(w) /\ Vmi(w) # "running" /\ Fail(w)

(* _wait_vmi_running_with_reauth: one refusal makes a new client. *)
Reauthenticate(w) ==
    /\ At(w, "verifying") /\ Spend("fault")
    /\ Goto(w, "reverifying")
    /\ UNCHANGED <<rows, cache, request, cluster, history, home, object>>

(* An error of the API ends the run, at any call but those of recheck and   *)
(* reap; one whose answer is lost ends it at the next call.                 *)
ApiFault(w) ==
    /\ run[w].at \in Stages \ {"recheck", "reap", "name"}
    /\ Spend("fault")
    /\ status' = [status EXCEPT ![Mig(w)] = IF @ = "running" THEN "failed" ELSE @]
    /\ run' = [run EXCEPT ![w] = Idle]
    /\ UNCHANGED <<named, messages, cache, request, cluster, history, home, object>>

RunStep(w) ==
    \/ ReadNamespace(w) \/ CreateNamespace(w) \/ ReadQuota(w) \/ CreateQuota(w)
    \/ CreateAccount(w) \/ ReadScc(w) \/ PatchScc(w)
    \/ SubmitAdapter(w) \/ AdapterExists(w) \/ Recheck(w) \/ DeleteStale(w) \/ Reap(w)
    \/ ReapTimeout(w) \/ Recreate(w) \/ RecreateConflict(w) \/ Adapted(w) \/ AdapterFails(w)
    \/ WriteName(w) \/ CreateVolume(w) \/ SubmitPopulator(w) \/ PopulatorExists(w)
    \/ Populated(w) \/ PopulatorFails(w)
    \/ CreateVm(w) \/ NameConflict(w) \/ StartVm(w) \/ StartMissing(w)
    \/ Complete(w) \/ NeverRan(w)

-----------------------------------------------------------------------------
(* A process dies, and the broker hands its message to another. *)
Crash(w) ==
    /\ ~At(w, "idle") /\ Spend("crash")
    /\ messages' = messages \cup {Mig(w)}
    /\ run' = [run EXCEPT ![w] = Idle]
    /\ cache' = [cache EXCEPT ![w] = None]
    /\ UNCHANGED <<status, named, request, cluster, history, home, object>>

(* A run outlives the visibility timeout of its message. *)
Redeliver(w) ==
    /\ ~At(w, "idle") /\ Spend("redeliver")
    /\ messages' = messages \cup {Mig(w)}
    /\ UNCHANGED <<status, named, run, cache, request, cluster, history, home, object>>

(* The revocation reaches the process of a cancelled migration, if it does. *)
Revoked(w) ==
    /\ ~At(w, "idle") /\ status[Mig(w)] = "cancelled"
    /\ run' = [run EXCEPT ![w] = Idle]
    /\ UNCHANGED <<rows, cache, request, cluster, history, home, object, budget>>

-----------------------------------------------------------------------------
(* POST /migrations/{id}/cancel, then MigratorService.cleanup. *)
Cancel(m) ==
    /\ request = NoRequest /\ status[m] \in {"ready", "running"} /\ Spend("cancel")
    /\ status' = [status EXCEPT ![m] = "cancelled"]
    /\ outlived' = IF Holders(m) = {} THEN outlived ELSE outlived \cup {m}
    /\ request' = [NoRequest EXCEPT !.at = "vm", !.mig = m]
    /\ UNCHANGED <<named, messages, run, cache, cluster, misread, shared, cleaned, home, object>>

Then(stage) == request' = [request EXCEPT !.at = stage]

(* The teardown ends after the last disk. *)
NextDisk(clean) ==
    IF request.disk = Last
    THEN /\ request' = NoRequest
         /\ cleaned' = IF clean THEN cleaned \cup {request.mig} ELSE cleaned
    ELSE /\ request' = [request EXCEPT !.at = "job", !.disk = @ + 1, !.clean = clean]
         /\ UNCHANGED cleaned

CleanupVm ==
    /\ request.at = "vm"
    /\ vms' = IF request.mig \in named THEN [vms EXCEPT ![object[request.mig]] = None] ELSE vms
    /\ Then("job")
    /\ UNCHANGED <<rows, run, cache, namespaces, quotas, accounts, scc, export, jobs, pods, images,
                   volumes, history, home, object, budget>>

CleanupJob ==
    LET j == <<"populate", request.mig, request.disk>> IN
    /\ request.at = "job"
    /\ jobs' = IF jobs[j].phase = "none" THEN jobs ELSE [jobs EXCEPT ![j].going = TRUE]
    /\ Then("volume")
    /\ UNCHANGED <<rows, run, cache, namespaces, quotas, accounts, scc, export, pods, images,
                   volumes, vms, history, home, object, budget>>

(* A volume that is mounted stays until it is released. *)
Mounted(v) ==
    \/ pods[<<"populate", v[1], v[2]>>] > 0
    \/ \E o \in Objects : vms[o] # None /\ vms[o].owner = v[1] /\ vms[o].vmi = "running"

(* Mutant: only the boot volume is deleted. *)
CleanupVolumeBoot ==
    LET v == <<request.mig, BootDisk>> IN
    /\ request.at = "volume"
    /\ volumes' = [volumes EXCEPT ![v] = IF Mounted(v) THEN [@ EXCEPT !.going = TRUE] ELSE NoVolume]
    /\ NextDisk(request.clean)
    /\ UNCHANGED <<rows, run, cache, namespaces, quotas, accounts, scc, export, jobs, pods, images,
                   vms, outlived, misread, shared, home, object, budget>>

CleanupVolume ==
    LET v == <<request.mig, request.disk>> IN
    /\ request.at = "volume"
    /\ volumes' = [volumes EXCEPT ![v] = IF Mounted(v) THEN [@ EXCEPT !.going = TRUE] ELSE NoVolume]
    /\ NextDisk(request.clean)
    /\ UNCHANGED <<rows, run, cache, namespaces, quotas, accounts, scc, export, jobs, pods, images,
                   vms, outlived, misread, shared, home, object, budget>>

(* An error is logged and the teardown goes on. *)
CleanupFault ==
    /\ request.at # "idle" /\ Spend("fault")
    /\ IF request.at = "volume" THEN NextDisk(FALSE)
       ELSE /\ request' = [request EXCEPT !.clean = FALSE,
                               !.at = IF @ = "vm" THEN "job" ELSE "volume"]
            /\ UNCHANGED cleaned
    /\ UNCHANGED <<rows, run, cache, cluster, outlived, misread, shared, home, object>>

-----------------------------------------------------------------------------
(* /kubevirt/vms: start and stop replace the object they have read, and the *)
(* API refuses the replacement when it has changed in between.              *)
Operate(o, on) ==
    /\ vms[o] # None /\ Spend("operator")
    /\ vms' = [vms EXCEPT ![o].on = on, ![o].vmi = IF on THEN @ ELSE "none"]
    /\ UNCHANGED <<rows, run, cache, request, namespaces, quotas, accounts, scc, export, jobs, pods,
                   images, volumes, history, home, object>>

DeleteVm(o) ==
    /\ vms[o] # None /\ Spend("operator")
    /\ vms' = [vms EXCEPT ![o] = None]
    /\ UNCHANGED <<rows, run, cache, request, namespaces, quotas, accounts, scc, export, jobs, pods,
                   images, volumes, history, home, object>>

-----------------------------------------------------------------------------
(* The cluster.  A pod is admitted when its account has the grant, and it   *)
(* starts when the export of its manifest is the one that is served.        *)
Admitted(j) == home[j[2]] \in accounts \cap scc

PodStart(j) ==
    LET v == <<j[2], j[3]>> IN
    /\ jobs[j].phase = "active" /\ ~jobs[j].started /\ ~jobs[j].going
    /\ Admitted(j) /\ jobs[j].src = export
    /\ j[1] = "populate" => volumes[v].content # "none" /\ ~volumes[v].going
    /\ jobs' = [jobs EXCEPT ![j].started = TRUE]
    /\ pods' = [pods EXCEPT ![j] = @ + 1]
    /\ images' = IF j[1] = "adapt" THEN [images EXCEPT ![j[2]] = "half"] ELSE images
    \* A copy that meets the image half edited is spoilt.
    /\ volumes' = [volumes EXCEPT ![v].content =
           IF j[1] = "adapt" THEN IF @ = "partial" THEN "spoilt" ELSE @
           ELSE IF v[2] = BootDisk /\ images[v[1]] # "fixed" THEN "spoilt" ELSE "partial"]
    /\ UNCHANGED <<rows, run, cache, request, namespaces, quotas, accounts, scc, export, vms,
                   history, home, object, budget>>

PodSucceeds(j) ==
    LET v == <<j[2], j[3]>> IN
    /\ jobs[j].phase = "active" /\ jobs[j].started /\ ~jobs[j].going
    /\ jobs' = [jobs EXCEPT ![j].phase = "succeeded"]
    /\ pods' = [pods EXCEPT ![j] = @ - 1]
    /\ images' = IF j[1] = "adapt" THEN [images EXCEPT ![j[2]] = "fixed"] ELSE images
    /\ volumes' = [volumes EXCEPT ![v].content =
           IF j[1] = "populate" /\ @ = "partial" THEN "whole" ELSE @]
    /\ UNCHANGED <<rows, run, cache, request, namespaces, quotas, accounts, scc, export, vms,
                   history, home, object, budget>>

(* The pod fails, or the deadline of the Job passes. *)
JobFails(j) ==
    /\ jobs[j].phase = "active" /\ ~jobs[j].going /\ Spend("podfail")
    /\ jobs' = [jobs EXCEPT ![j].phase = "failed", ![j].witnesses = Holders(j[2])]
    /\ pods' = [pods EXCEPT ![j] = IF jobs[j].started THEN @ - 1 ELSE @]
    /\ UNCHANGED <<rows, run, cache, request, namespaces, quotas, accounts, scc, export, images,
                   volumes, vms, history, home, object>>

Reaped(j) ==
    /\ jobs[j].going
    /\ jobs' = [jobs EXCEPT ![j] = NoJob]
    /\ pods' = [pods EXCEPT ![j] =
           IF jobs[j].phase = "active" /\ jobs[j].started THEN @ - 1 ELSE @]
    /\ UNCHANGED <<rows, run, cache, request, namespaces, quotas, accounts, scc, export, images,
                   volumes, vms, history, home, object, budget>>

Released(v) ==
    /\ volumes[v].going /\ ~Mounted(v)
    /\ volumes' = [volumes EXCEPT ![v] = NoVolume]
    /\ UNCHANGED <<rows, run, cache, request, namespaces, quotas, accounts, scc, export, jobs, pods,
                   images, vms, history, home, object, budget>>

VmiRuns(o) ==
    /\ vms[o] # None /\ vms[o].on /\ vms[o].vmi = "none"
    /\ \A d \in Disks : LET v == volumes[<<vms[o].owner, d>>] IN v.content # "none" /\ ~v.going
    /\ vms' = [vms EXCEPT ![o].vmi = "running"]
    /\ UNCHANGED <<rows, run, cache, request, namespaces, quotas, accounts, scc, export, jobs, pods,
                   images, volumes, history, home, object, budget>>

VmiFails(o) ==
    /\ vms[o] # None /\ vms[o].on /\ vms[o].vmi = "none" /\ Spend("podfail")
    /\ vms' = [vms EXCEPT ![o].vmi = "failed"]
    /\ UNCHANGED <<rows, run, cache, request, namespaces, quotas, accounts, scc, export, jobs, pods,
                   images, volumes, history, home, object>>

(* The transit volume moves to another export, and a cached value expires.  *)
Redeploy ==
    /\ export + 1 \in Exports /\ Spend("move")
    /\ export' = export + 1
    /\ UNCHANGED <<rows, run, cache, request, namespaces, quotas, accounts, scc, jobs, pods, images,
                   volumes, vms, history, home, object>>

Expire(w) ==
    /\ cache[w] # None /\ Spend("expire")
    /\ cache' = [cache EXCEPT ![w] = None]
    /\ UNCHANGED <<rows, run, request, cluster, history, home, object>>

-----------------------------------------------------------------------------
ProcessNext(w) ==
    \/ RunStep(w) \/ RecheckFault(w) \/ Reauthenticate(w) \/ ApiFault(w)
    \/ Crash(w) \/ Redeliver(w) \/ Revoked(w) \/ Expire(w)
    \/ \E m \in Migrations : Receive(w, m)

CleanupStep == CleanupVm \/ CleanupJob \/ CleanupVolume

ClusterNext ==
    \/ \E j \in JobNames : PodStart(j) \/ PodSucceeds(j) \/ JobFails(j) \/ Reaped(j)
    \/ \E v \in Migrations \X Disks : Released(v)
    \/ \E o \in Objects : VmiRuns(o) \/ VmiFails(o) \/ DeleteVm(o) \/ \E on \in BOOLEAN : Operate(o, on)
    \/ Redeploy

(* Nothing is under way and no message is left. *)
Rest ==
    /\ run = [w \in Processes |-> Idle] /\ messages = {} /\ request = NoRequest
    /\ UNCHANGED vars

Next ==
    \/ \E w \in Processes : ProcessNext(w)
    \/ \E m \in Migrations : Cancel(m)
    \/ CleanupStep \/ CleanupFault \/ ClusterNext \/ Rest

Spec == Init /\ [][Next]_vars
FairSpec == Spec /\ \A w \in Processes : WF_vars(RunStep(w))

-----------------------------------------------------------------------------
RunsOn(m, o) == vms[o] # None /\ vms[o].vmi = "running" /\ vms[o].owner = m
DisksWhole(m) == \A d \in Disks : volumes[<<m, d>>].content = "whole"

(* A machine that runs boots from volumes that a populator copied in full,  *)
(* the boot volume from an image the Adapter had finished and nobody was    *)
(* editing, though processes died and their Jobs went on, answers were lost *)
(* and runs gave up.  Three things break it: a cancellation that a process  *)
(* outlived, two processes with one migration, and an Adapter Job that      *)
(* could not be read.                                                       *)
VmDisksWhole ==
    \A m \in Migrations \ (outlived \cup shared \cup misread), o \in Objects :
        RunsOn(m, o) => DisksWhole(m)

(* The comment of _existing_job_is_reusable: to delete and recreate a Job   *)
(* that could not be read is safe.                                          *)
RedoingIsSafe ==
    \A m \in misread \ (outlived \cup shared), o \in Objects : RunsOn(m, o) => DisksWhole(m)

(* Two pods never run for one name: an image has one editor, a volume one   *)
(* writer (the wait of _delete_job_and_wait and the 409 of the API).        *)
OneWriter == \A j \in JobNames : pods[j] <= 1

(* An Adapter failure that a run is about to report happened while some     *)
(* process had the migration with this one: a retry never reports the       *)
(* failure of the run before it (the 409 branch of submit_adapter_job).     *)
NoStaleFailure ==
    \A w \in Processes :
        At(w, "adapting") /\ jobs[AdaptJob(w)].phase = "failed" =>
            w \in jobs[AdaptJob(w)].witnesses

(* No Job and no volume is made in a namespace that has not its quota,      *)
(* though several processes may set up one namespace at the same time.      *)
QuotaFirst ==
    QuotaConfigured =>
        /\ \A j \in JobNames : jobs[j].phase # "none" => home[j[2]] \in quotas
        /\ \A v \in Migrations \X Disks : volumes[v].content # "none" => home[v[1]] \in quotas

(* The SCC keeps the accounts it had before the first of these migrations,  *)
(* however the read-modify-write cycles of its list overlap.                *)
GrantsStay == Served \cup {Platform} \subseteq scc

(* No grant is ever lost: the list of the SCC is read, extended and written *)
(* back.                                                                    *)
GrantsOnlyGrow == [][scc \subseteq scc']_scc

(* A teardown without an error, of a migration that no process had when it  *)
(* was cancelled, leaves no populator Job, no volume and no machine.        *)
CleanedLeavesNothing ==
    \A m \in cleaned \ outlived :
        /\ \A d \in Disks :
               /\ jobs[<<"populate", m, d>>].phase # "none" => jobs[<<"populate", m, d>>].going
               /\ volumes[<<m, d>>].content # "none" => volumes[<<m, d>>].going
        /\ \A o \in Objects : vms[o] # None => vms[o].owner # m

(* A namespace is ready before anything runs in it, and stays so.           *)
NamespacesReady == TypeOK /\ QuotaFirst /\ GrantsStay

(* A Job that is reused, awaited or replaced is the right one: its pod is   *)
(* alone, and its failure is news.                                          *)
JobsReusedSafely == OneWriter /\ NoStaleFailure

(* Every run ends, though Jobs may never finish and never go away.          *)
RunsEnd == \A w \in Processes : ~At(w, "idle") ~> At(w, "idle")

(* A teardown deletes no machine that another migration made.               *)
ForeignVmsSurvive ==
    [][\A o \in Objects :
          request.at = "vm" /\ request' # request /\ vms[o] # None /\ vms'[o] = None =>
              vms[o].owner = request.mig]_vars
=============================================================================
