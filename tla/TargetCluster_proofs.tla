------------------------ MODULE TargetCluster_proofs ------------------------
(***************************************************************************)
(* What holds of TargetCluster for every set of processes, migrations,     *)
(* namespaces and exports, every number of disks, and every scenario.      *)
(* First Inv, about namespaces, Jobs and pods; then Order: what a process  *)
(* has behind it when it makes a machine, and what a teardown has deleted. *)
(***************************************************************************)
EXTENDS TargetCluster, TLAPS

RunRec == [at : Stages \cup {"idle"}, mig : Migrations \cup {None}, disk : Disks,
           again : BOOLEAN, users : SUBSET (Namespaces \cup {Platform})]
Ask == [at : {"idle", "vm", "job", "volume"}, mig : Migrations \cup {None},
        disk : Disks, clean : BOOLEAN]

(* What a process has behind it when it is at a stage: the namespace it     *)
(* works in exists, then has its quota, and a list of SCC users it is about *)
(* to write back holds those that were there first.                         *)
Founded(w) ==
    /\ run[w].at # "idle" => run[w].mig \in Migrations
    /\ run[w].at \notin {"idle", "namespace", "create"} => home[run[w].mig] \in namespaces
    /\ run[w].at \notin {"idle", "namespace", "create", "quota", "newquota"} =>
           (QuotaConfigured => home[run[w].mig] \in quotas)
    /\ run[w].at = "patchscc" => Served \cup {Platform} \subseteq run[w].users

Placed ==
    /\ home \in [Migrations -> Namespaces] /\ object \in [Migrations -> Objects]
    /\ request.at # "idle" => request.mig \in Migrations

(* The pods of a name are those of the Job that has the name.               *)
PodsMatch ==
    \A j \in JobNames :
        pods[j] = IF jobs[j].phase = "active" /\ jobs[j].started THEN 1 ELSE 0

-----------------------------------------------------------------------------
(* How a process moves.                                                     *)

LEMMA Goes ==
    ASSUME TypeOK, NEW w \in Processes, NEW stage \in Stages, Goto(w, stage)
    PROVE  /\ run' \in [Processes -> RunRec]
           /\ run'[w].at = stage /\ run'[w].mig = run[w].mig /\ run'[w].users = run[w].users
           /\ \A u \in Processes \ {w} : run'[u] = run[u]
<1>1. run \in [Processes -> RunRec] /\ run[w] \in RunRec
  BY DEF TypeOK, RunRec
<1>2. run' = [run EXCEPT ![w].at = stage]
  BY DEF Goto
<1>3. [run[w] EXCEPT !.at = stage] \in RunRec
  BY <1>1 DEF RunRec
<1> QED
  BY <1>1, <1>2, <1>3 DEF RunRec

LEMMA Becomes ==
    ASSUME TypeOK, NEW w \in Processes, NEW r \in RunRec, run' = [run EXCEPT ![w] = r]
    PROVE  /\ run' \in [Processes -> RunRec]
           /\ run'[w] = r
           /\ \A u \in Processes \ {w} : run'[u] = run[u]
<1>1. run \in [Processes -> RunRec]
  BY DEF TypeOK, RunRec
<1> QED
  BY <1>1

LEMMA IdleType == Idle \in RunRec
<1>1. 0 \in Disks
  BY ClusterAssumption DEF Disks
<1> QED
  BY <1>1 DEF Idle, RunRec

-----------------------------------------------------------------------------
(* The actions of a process, by what they do to the cluster: the run ends,  *)
(* the process looks or waits, or it makes a change.                        *)
Stops(w) ==
    \/ ReapTimeout(w) \/ RecreateConflict(w) \/ AdapterFails(w) \/ PopulatorFails(w)
    \/ NameConflict(w) \/ StartMissing(w) \/ NeverRan(w) \/ Complete(w)
    \/ ApiFault(w) \/ Crash(w) \/ Revoked(w)

Looks(w) ==
    \/ ReadNamespace(w) \/ ReadQuota(w) \/ ReadScc(w) \/ AdapterExists(w) \/ Recheck(w)
    \/ RecheckFault(w) \/ Reap(w) \/ Adapted(w) \/ WriteName(w) \/ PopulatorExists(w)
    \/ Populated(w) \/ Reauthenticate(w) \/ Redeliver(w) \/ Expire(w)
    \/ \E m \in Migrations : Receive(w, m)

Makes(w) ==
    \/ CreateNamespace(w) \/ CreateQuota(w) \/ CreateAccount(w) \/ PatchScc(w)
    \/ SubmitAdapter(w) \/ DeleteStale(w) \/ Recreate(w) \/ CreateVolume(w)
    \/ SubmitPopulator(w) \/ CreateVm(w) \/ StartVm(w)

Outside == (\E m \in Migrations : Cancel(m)) \/ CleanupStep \/ CleanupFault \/ ClusterNext

LEMMA StepKinds ==
    ASSUME [Next]_vars
    PROVE  \/ \E w \in Processes : Stops(w) \/ Looks(w) \/ Makes(w)
           \/ Outside
           \/ UNCHANGED vars
<1>1. ASSUME NEW w \in Processes, ProcessNext(w)
      PROVE  Stops(w) \/ Looks(w) \/ Makes(w)
  BY <1>1 DEF ProcessNext, RunStep, Stops, Looks, Makes
<1> QED
  BY <1>1 DEF Next, Outside, Rest

LEMMA StopsOnly ==
    ASSUME NEW w \in Processes, Stops(w)
    PROVE  /\ run' = [run EXCEPT ![w] = Idle]
           /\ UNCHANGED <<cluster, home, object, request, named, history>>
  BY DEF Stops, ReapTimeout, RecreateConflict, AdapterFails, PopulatorFails, NameConflict,
         StartMissing, NeverRan, Complete, ApiFault, Crash, Revoked, Fail, cluster, history, rows

LEMMA LooksOnly ==
    ASSUME NEW w \in Processes, Looks(w)
    PROVE  UNCHANGED <<cluster, home, object, request>>
  BY DEF Looks, ReadNamespace, ReadQuota, ReadScc, AdapterExists, Recheck, RecheckFault, Reap,
         Adapted, WriteName, PopulatorExists, Populated, Reauthenticate, Redeliver, Expire,
         Receive, Steps, cluster

LEMMA MakesOnly ==
    ASSUME NEW w \in Processes, Makes(w)
    PROVE  UNCHANGED <<home, object, request, rows, history, budget, export>>
  BY DEF Makes, CreateNamespace, CreateQuota, CreateAccount, PatchScc, SubmitAdapter, DeleteStale,
         Recreate, CreateVolume, SubmitPopulator, CreateVm, StartVm, Create, Steps

LEMMA OutsideOnly ==
    ASSUME Outside
    PROVE  UNCHANGED <<run, home, object, namespaces, quotas, accounts, scc>>
<1>1. ASSUME NEW m \in Migrations, Cancel(m)
      PROVE  UNCHANGED <<run, home, object, namespaces, quotas, accounts, scc>>
  BY <1>1 DEF Cancel, cluster
<1>2. CASE CleanupStep \/ CleanupFault
  BY <1>2 DEF CleanupStep, CleanupFault, CleanupVm, CleanupJob, CleanupVolume, cluster
<1>3. CASE ClusterNext
  BY <1>3 DEF ClusterNext, PodStart, PodSucceeds, JobFails, Reaped, Released, VmiRuns, VmiFails,
              DeleteVm, Operate, Redeploy
<1> QED
  BY <1>1, <1>2, <1>3 DEF Outside

-----------------------------------------------------------------------------
(* Namespaces and quotas only grow, and migrations stay where they are.     *)
LEMMA Growth ==
    ASSUME [Next]_vars
    PROVE  /\ namespaces \subseteq namespaces' /\ quotas \subseteq quotas'
           /\ home' = home /\ object' = object
<1>1. ASSUME NEW w \in Processes, Makes(w)
      PROVE  namespaces \subseteq namespaces' /\ quotas \subseteq quotas'
  BY <1>1 DEF Makes, CreateNamespace, CreateQuota, CreateAccount, PatchScc, SubmitAdapter,
              DeleteStale, Recreate, CreateVolume, SubmitPopulator, CreateVm, StartVm, Create
<1> QED
  BY <1>1, StepKinds, StopsOnly, LooksOnly, MakesOnly, OutsideOnly DEF cluster, vars

(* A process that does not move keeps what it has behind it.                *)
LEMMA FoundedKept ==
    ASSUME NEW u \in Processes, Founded(u), run'[u] = run[u], home' = home,
           namespaces \subseteq namespaces', quotas \subseteq quotas'
    PROVE  Founded(u)'
  BY DEF Founded

LEMMA FoundedStops ==
    ASSUME TypeOK, NEW w \in Processes, Stops(w)
    PROVE  /\ run' \in [Processes -> RunRec] /\ Founded(w)'
           /\ run'[w].at = "idle"
           /\ \A u \in Processes \ {w} : run'[u] = run[u]
<1>1. run' = [run EXCEPT ![w] = Idle]
  BY StopsOnly
<1>2. /\ run' \in [Processes -> RunRec] /\ run'[w] = Idle
      /\ \A u \in Processes \ {w} : run'[u] = run[u]
  BY <1>1, IdleType, Becomes
<1> QED
  BY <1>2 DEF Founded, Idle

(* A process that goes on to another stage.                                 *)
LEMMA FoundedLooks ==
    ASSUME TypeOK, Placed, GrantsStay, NEW w \in Processes, Founded(w), Looks(w)
    PROVE  /\ run' \in [Processes -> RunRec] /\ Founded(w)'
           /\ \A u \in Processes \ {w} : run'[u] = run[u]
<1> DEFINE Goal == /\ run' \in [Processes -> RunRec] /\ Founded(w)'
                   /\ \A u \in Processes \ {w} : run'[u] = run[u]
<1>1. UNCHANGED <<namespaces, quotas, scc, home>>
  BY LooksOnly DEF cluster
<1>2. run[w] \in RunRec /\ 0 \in Disks /\ scc \subseteq Namespaces \cup {Platform}
  BY ClusterAssumption DEF TypeOK, RunRec, Disks
<1>3. CASE ReadNamespace(w)
  <2>1. PICK stage \in {"quota", "create"} :
            Goto(w, stage) /\ (stage = "quota" => Home(w) \in namespaces)
    BY <1>3 DEF ReadNamespace
  <2> QED
    BY <1>1, <1>3, <2>1, Goes DEF ReadNamespace, At, Founded, Home, Mig, Stages
<1>4. CASE ReadQuota(w)
  <2>1. PICK stage \in {"account", "newquota"} :
            Goto(w, stage) /\ (stage = "account" => (QuotaConfigured => Home(w) \in quotas))
    BY <1>4 DEF ReadQuota
  <2> QED
    BY <1>1, <1>4, <2>1, Goes DEF ReadQuota, At, Founded, Home, Mig, Stages
<1>5. CASE ReadScc(w)
  <2>1. CASE Home(w) \in scc
    <3>1. PICK stage \in {"name", "adapt"} : run' = [run EXCEPT ![w].at = stage]
      BY <1>5, <2>1 DEF ReadScc, Ensured
    <3> QED
      BY <1>1, <1>5, <3>1, Goes DEF ReadScc, Goto, At, Founded, Stages
  <2>2. CASE Home(w) \notin scc
    <3>1. run' = [run EXCEPT ![w] = [run[w] EXCEPT !.at = "patchscc", !.users = scc]]
      BY <1>5, <2>2 DEF ReadScc
    <3>2. [run[w] EXCEPT !.at = "patchscc", !.users = scc] \in RunRec
      BY <1>2 DEF RunRec, Stages
    <3>3. /\ run' \in [Processes -> RunRec]
          /\ run'[w] = [run[w] EXCEPT !.at = "patchscc", !.users = scc]
          /\ \A u \in Processes \ {w} : run'[u] = run[u]
      BY <3>1, <3>2, Becomes
    <3>4. run'[w].at = "patchscc" /\ run'[w].users = scc /\ run'[w].mig = run[w].mig
      BY <1>2, <3>3 DEF RunRec
    <3> QED
      BY <1>1, <1>5, <3>3, <3>4 DEF ReadScc, At, Founded, GrantsStay
  <2> QED
    BY <2>1, <2>2
<1>6. CASE Adapted(w)
  <2>1. run' = [run EXCEPT ![w] = [run[w] EXCEPT !.at = "namespace", !.again = TRUE]]
    BY <1>6 DEF Adapted
  <2>2. [run[w] EXCEPT !.at = "namespace", !.again = TRUE] \in RunRec
    BY <1>2 DEF RunRec, Stages
  <2>3. /\ run' \in [Processes -> RunRec]
        /\ run'[w] = [run[w] EXCEPT !.at = "namespace", !.again = TRUE]
        /\ \A u \in Processes \ {w} : run'[u] = run[u]
    BY <2>1, <2>2, Becomes
  <2>4. run'[w].at = "namespace" /\ run'[w].mig = run[w].mig
    BY <1>2, <2>3 DEF RunRec
  <2> QED
    BY <1>1, <1>6, <2>3, <2>4 DEF Adapted, At, Founded
<1>7. CASE WriteName(w)
  <2>1. run' = [run EXCEPT ![w] = [run[w] EXCEPT !.at = "volume", !.disk = BootDisk]]
    BY <1>7 DEF WriteName
  <2>2. [run[w] EXCEPT !.at = "volume", !.disk = BootDisk] \in RunRec
    BY <1>2 DEF RunRec, Stages, BootDisk
  <2>3. /\ run' \in [Processes -> RunRec]
        /\ run'[w] = [run[w] EXCEPT !.at = "volume", !.disk = BootDisk]
        /\ \A u \in Processes \ {w} : run'[u] = run[u]
    BY <2>1, <2>2, Becomes
  <2>4. run'[w].at = "volume" /\ run'[w].mig = run[w].mig
    BY <1>2, <2>3 DEF RunRec
  <2> QED
    BY <1>1, <1>7, <2>3, <2>4 DEF WriteName, At, Founded
<1>8. CASE Populated(w)
  <2>1. CASE run[w].disk = Last
    <3>1. run' = [run EXCEPT ![w].at = "createvm"]
      BY <1>8, <2>1 DEF Populated
    <3> QED
      BY <1>1, <1>8, <3>1, Goes DEF Populated, Goto, At, Founded, Stages
  <2>2. CASE run[w].disk # Last
    <3>1. run' = [run EXCEPT ![w] = [run[w] EXCEPT !.at = "volume", !.disk = @ + 1]]
      BY <1>8, <2>2 DEF Populated
    <3>2. run[w].disk + 1 \in Disks
      BY <1>2, <2>2, ClusterAssumption DEF RunRec, Disks
    <3>3. [run[w] EXCEPT !.at = "volume", !.disk = @ + 1] \in RunRec
      BY <1>2, <3>2 DEF RunRec, Stages
    <3>4. /\ run' \in [Processes -> RunRec]
          /\ run'[w] = [run[w] EXCEPT !.at = "volume", !.disk = @ + 1]
          /\ \A u \in Processes \ {w} : run'[u] = run[u]
      BY <3>1, <3>3, Becomes
    <3>5. run'[w].at = "volume" /\ run'[w].mig = run[w].mig
      BY <1>2, <3>4 DEF RunRec
    <3> QED
      BY <1>1, <1>8, <3>4, <3>5 DEF Populated, At, Founded
  <2> QED
    BY <2>1, <2>2
<1>9. ASSUME NEW m \in Migrations, Receive(w, m)
      PROVE  Goal
  <2>1. CASE status[m] \in {"ready", "running"}
    <3>1. run' = [run EXCEPT ![w] = [Idle EXCEPT !.at = "namespace", !.mig = m]]
      BY <1>9, <2>1 DEF Receive
    <3>2. [Idle EXCEPT !.at = "namespace", !.mig = m] \in RunRec
      BY IdleType DEF RunRec, Stages
    <3>3. /\ run' \in [Processes -> RunRec]
          /\ run'[w] = [Idle EXCEPT !.at = "namespace", !.mig = m]
          /\ \A u \in Processes \ {w} : run'[u] = run[u]
      BY <3>1, <3>2, Becomes
    <3>4. run'[w].at = "namespace" /\ run'[w].mig = m
      BY <3>3 DEF Idle
    <3> QED
      BY <3>3, <3>4 DEF Founded
  <2>2. CASE status[m] \notin {"ready", "running"}
    BY <1>1, <1>9, <2>2 DEF Receive, Founded, TypeOK, RunRec
  <2> QED
    BY <2>1, <2>2
<1>10. CASE AdapterExists(w) \/ Recheck(w) \/ RecheckFault(w) \/ Reap(w) \/ PopulatorExists(w)
            \/ Reauthenticate(w)
  <2>1. PICK stage \in {"recheck", "adapting", "delete", "recreate", "copying", "reverifying"} :
            Goto(w, stage)
    BY <1>10 DEF AdapterExists, Recheck, RecheckFault, Reap, PopulatorExists, Reauthenticate
  <2>2. run[w].at \in {"adapt", "recheck", "reap", "populate", "verifying"}
    BY <1>10 DEF AdapterExists, Recheck, RecheckFault, Reap, PopulatorExists, Reauthenticate, At
  <2> QED
    BY <1>1, <2>1, <2>2, Goes DEF Founded, Stages
<1>11. CASE Redeliver(w) \/ Expire(w)
  BY <1>1, <1>11 DEF Redeliver, Expire, Founded, TypeOK, RunRec
<1> QED
  BY <1>3, <1>4, <1>5, <1>6, <1>7, <1>8, <1>9, <1>10, <1>11 DEF Looks

LEMMA FoundedMakes ==
    ASSUME TypeOK, Placed, GrantsStay, NEW w \in Processes, Founded(w), Makes(w)
    PROVE  /\ run' \in [Processes -> RunRec] /\ Founded(w)'
           /\ \A u \in Processes \ {w} : run'[u] = run[u]
<1>1. home' = home /\ run[w] \in RunRec
  BY MakesOnly DEF TypeOK, RunRec
<1>2. CASE CreateNamespace(w)
  BY <1>1, <1>2, Goes DEF CreateNamespace, At, Founded, Home, Mig, Stages
<1>3. CASE CreateQuota(w)
  BY <1>1, <1>3, Goes DEF CreateQuota, At, Founded, Home, Mig, Stages
<1>4. CASE CreateAccount(w)
  BY <1>1, <1>4, Goes DEF CreateAccount, At, Founded, Stages
<1>5. CASE PatchScc(w)
  <2>1. PICK stage \in {"name", "adapt"} :
            run' = [run EXCEPT ![w] = [run[w] EXCEPT !.at = stage, !.users = {}]]
    BY <1>5 DEF PatchScc, Ensured
  <2>2. [run[w] EXCEPT !.at = stage, !.users = {}] \in RunRec
    BY <1>1 DEF RunRec, Stages
  <2>3. /\ run' \in [Processes -> RunRec]
        /\ run'[w] = [run[w] EXCEPT !.at = stage, !.users = {}]
        /\ \A u \in Processes \ {w} : run'[u] = run[u]
    BY <2>1, <2>2, Becomes
  <2>4. run'[w].at = stage /\ run'[w].mig = run[w].mig
    BY <1>1, <2>3 DEF RunRec
  <2> QED
    BY <1>1, <1>5, <2>3, <2>4 DEF PatchScc, At, Founded
<1>6. CASE SubmitAdapter(w) \/ DeleteStale(w) \/ Recreate(w) \/ CreateVolume(w)
            \/ SubmitPopulator(w) \/ CreateVm(w) \/ StartVm(w)
  <2>1. PICK stage \in {"adapting", "recreate", "reap", "populate", "copying", "startvm",
                        "verifying"} : Goto(w, stage)
    BY <1>6 DEF SubmitAdapter, DeleteStale, Recreate, CreateVolume, SubmitPopulator, CreateVm,
                StartVm, Create
  <2>2. run[w].at \in {"adapt", "delete", "recreate", "volume", "populate", "createvm", "startvm"}
    BY <1>6 DEF SubmitAdapter, DeleteStale, Recreate, CreateVolume, SubmitPopulator, CreateVm,
                StartVm, At
  <2>3. namespaces' = namespaces /\ quotas' = quotas
    BY <1>6 DEF SubmitAdapter, DeleteStale, Recreate, CreateVolume, SubmitPopulator, CreateVm,
                StartVm, Create
  <2> QED
    BY <1>1, <2>1, <2>2, <2>3, Goes DEF Founded, Stages
<1> QED
  BY <1>2, <1>3, <1>4, <1>5, <1>6 DEF Makes

(* So all processes keep what they have behind them.                        *)
LEMMA FoundedStep ==
    ASSUME TypeOK, Placed, GrantsStay, \A w \in Processes : Founded(w), [Next]_vars
    PROVE  run' \in [Processes -> RunRec] /\ \A w \in Processes : Founded(w)'
<1> DEFINE Goal == run' \in [Processes -> RunRec] /\ \A u \in Processes : Founded(u)'
<1>1. /\ namespaces \subseteq namespaces' /\ quotas \subseteq quotas'
      /\ home' = home
  BY Growth
<1>2. ASSUME NEW w \in Processes, Stops(w) \/ Looks(w) \/ Makes(w)
      PROVE  Goal
  <2>1. /\ run' \in [Processes -> RunRec] /\ Founded(w)'
        /\ \A u \in Processes \ {w} : run'[u] = run[u]
    BY <1>2, FoundedStops, FoundedLooks, FoundedMakes
  <2>2. ASSUME NEW u \in Processes \ {w} PROVE Founded(u)'
    BY <1>1, <2>1, <2>2, FoundedKept
  <2> QED
    BY <2>1, <2>2
<1>3. CASE run' = run
  <2>1. ASSUME NEW u \in Processes PROVE Founded(u)'
    BY <1>1, <1>3, FoundedKept
  <2> QED
    BY <1>3, <2>1 DEF TypeOK, RunRec
<1> QED
  BY <1>2, <1>3, StepKinds, OutsideOnly DEF vars

-----------------------------------------------------------------------------
(* The grants: whoever writes the list back read it when it held them.      *)
LEMMA GrantsStep ==
    ASSUME GrantsStay, \A w \in Processes : Founded(w), [Next]_vars
    PROVE  GrantsStay'
<1>1. ASSUME NEW w \in Processes, Makes(w)
      PROVE  scc' = scc \/ PatchScc(w)
  BY <1>1 DEF Makes, CreateNamespace, CreateQuota, CreateAccount, SubmitAdapter,
              DeleteStale, Recreate, CreateVolume, SubmitPopulator, CreateVm, StartVm, Create
<1>2. ASSUME NEW w \in Processes, PatchScc(w)
      PROVE  GrantsStay'
  BY <1>2 DEF PatchScc, At, Founded, GrantsStay
<1>3. CASE scc' = scc
  BY <1>3 DEF GrantsStay
<1> QED
  BY <1>1, <1>2, <1>3, StepKinds, StopsOnly, LooksOnly, OutsideOnly DEF cluster, vars

-----------------------------------------------------------------------------
(* The Jobs.  A process makes a Job under a name that is free, and in the   *)
(* namespace it works in.                                                   *)
Appears(w, j) ==
    \/ (SubmitAdapter(w) \/ Recreate(w)) /\ j = AdaptJob(w)
    \/ SubmitPopulator(w) /\ j = PopulateJob(w)

(* What a step may do to one Job and to its pods.                           *)
Made(j) ==
    /\ \E w \in Processes : Appears(w, j) /\ jobs'[j] = NewJobAt(w, j)
    /\ jobs[j].phase = "none" /\ pods'[j] = pods[j]
Doomed(j) ==
    /\ \/ \E w \in Processes : DeleteStale(w) /\ j = AdaptJob(w)
       \/ CleanupJob /\ j = <<"populate", request.mig, request.disk>>
    /\ jobs[j].phase # "none"
    /\ jobs'[j] = [jobs[j] EXCEPT !.going = TRUE] /\ pods'[j] = pods[j]
Started(j) ==
    /\ PodStart(j)
    /\ jobs[j].phase = "active" /\ ~jobs[j].started /\ ~jobs[j].going
    /\ jobs'[j] = [jobs[j] EXCEPT !.started = TRUE] /\ pods'[j] = pods[j] + 1
Finished(j) ==
    /\ PodSucceeds(j)
    /\ jobs[j].phase = "active" /\ jobs[j].started /\ ~jobs[j].going
    /\ jobs'[j] = [jobs[j] EXCEPT !.phase = "succeeded"] /\ pods'[j] = pods[j] - 1
Broken(j) ==
    /\ jobs[j].phase = "active" /\ ~jobs[j].going /\ UNCHANGED run
    /\ jobs'[j] = [jobs[j] EXCEPT !.phase = "failed", !.witnesses = Holders(j[2])]
    /\ pods'[j] = IF jobs[j].started THEN pods[j] - 1 ELSE pods[j]
Gone(j) ==
    /\ jobs[j].going /\ jobs'[j] = NoJob
    /\ pods'[j] = IF jobs[j].phase = "active" /\ jobs[j].started THEN pods[j] - 1 ELSE pods[j]

JobMoves(j) ==
    \/ jobs'[j] = jobs[j] /\ pods'[j] = pods[j]
    \/ Made(j) \/ Doomed(j) \/ Started(j) \/ Finished(j) \/ Broken(j) \/ Gone(j)

LEMMA Names ==
    ASSUME TypeOK, NEW w \in Processes, run[w].mig \in Migrations
    PROVE  /\ AdaptJob(w) \in JobNames /\ AdaptJob(w)[2] = run[w].mig
           /\ PopulateJob(w) \in JobNames /\ PopulateJob(w)[2] = run[w].mig
<1>1. run[w].disk \in Disks
  BY DEF TypeOK, RunRec
<1> QED
  BY <1>1 DEF AdaptJob, PopulateJob, JobNames, Mig

LEMMA JobsStep ==
    ASSUME TypeOK, Placed, \A w \in Processes : Founded(w), [Next]_vars
    PROVE  \A j \in JobNames : JobMoves(j)
<1> DEFINE Goal == \A j \in JobNames : JobMoves(j)
<1>1. jobs \in [JobNames -> Job] /\ pods \in [JobNames -> Nat]
  BY DEF TypeOK
<1>2. CASE UNCHANGED <<jobs, pods>>
  BY <1>2 DEF JobMoves
<1>3. ASSUME NEW w \in Processes, SubmitAdapter(w)
      PROVE  Goal
  <2>1. jobs' = [jobs EXCEPT ![AdaptJob(w)] = NewJobAt(w, AdaptJob(w))] /\ pods' = pods
    BY <1>3 DEF SubmitAdapter, Create
  <2>2. jobs[AdaptJob(w)].phase = "none"
    BY <1>3 DEF SubmitAdapter
  <2> QED
    BY <1>1, <1>3, <2>1, <2>2 DEF JobMoves, Made, Appears
<1>4. ASSUME NEW w \in Processes, Recreate(w)
      PROVE  Goal
  <2>1. jobs' = [jobs EXCEPT ![AdaptJob(w)] = NewJobAt(w, AdaptJob(w))] /\ pods' = pods
    BY <1>4 DEF Recreate, Create
  <2>2. jobs[AdaptJob(w)].phase = "none"
    BY <1>4 DEF Recreate
  <2> QED
    BY <1>1, <1>4, <2>1, <2>2 DEF JobMoves, Made, Appears
<1>5. ASSUME NEW w \in Processes, SubmitPopulator(w)
      PROVE  Goal
  <2>1. jobs' = [jobs EXCEPT ![PopulateJob(w)] = NewJobAt(w, PopulateJob(w))] /\ pods' = pods
    BY <1>5 DEF SubmitPopulator, Create
  <2>2. jobs[PopulateJob(w)].phase = "none"
    BY <1>5 DEF SubmitPopulator
  <2> QED
    BY <1>1, <1>5, <2>1, <2>2 DEF JobMoves, Made, Appears
<1>6. ASSUME NEW w \in Processes, DeleteStale(w)
      PROVE  Goal
  <2>1. CASE jobs' = jobs /\ pods' = pods
    BY <2>1 DEF JobMoves
  <2>2. CASE /\ jobs[AdaptJob(w)].phase # "none" /\ pods' = pods
             /\ jobs' = [jobs EXCEPT ![AdaptJob(w)].going = TRUE]
    BY <1>1, <1>6, <2>2 DEF JobMoves, Doomed
  <2> QED
    BY <1>6, <2>1, <2>2 DEF DeleteStale
<1>7. CASE CleanupJob
  <2> DEFINE k == <<"populate", request.mig, request.disk>>
  <2>1. CASE jobs' = jobs /\ pods' = pods
    BY <2>1 DEF JobMoves
  <2>2. CASE jobs[k].phase # "none" /\ jobs' = [jobs EXCEPT ![k].going = TRUE] /\ pods' = pods
    BY <1>1, <1>7, <2>2 DEF JobMoves, Doomed
  <2> QED
    BY <1>7, <2>1, <2>2 DEF CleanupJob
<1>8. ASSUME NEW k \in JobNames, PodStart(k) PROVE Goal
  <2>1. /\ jobs' = [jobs EXCEPT ![k].started = TRUE] /\ pods' = [pods EXCEPT ![k] = @ + 1]
        /\ jobs[k].phase = "active" /\ ~jobs[k].started /\ ~jobs[k].going
    BY <1>8 DEF PodStart
  <2> QED
    BY <1>1, <1>8, <2>1 DEF JobMoves, Started
<1>9. ASSUME NEW k \in JobNames, PodSucceeds(k) PROVE Goal
  <2>1. /\ jobs' = [jobs EXCEPT ![k].phase = "succeeded"] /\ pods' = [pods EXCEPT ![k] = @ - 1]
        /\ jobs[k].phase = "active" /\ jobs[k].started /\ ~jobs[k].going
    BY <1>9 DEF PodSucceeds
  <2> QED
    BY <1>1, <1>9, <2>1 DEF JobMoves, Finished
<1>10. ASSUME NEW k \in JobNames, JobFails(k) PROVE Goal
  BY <1>1, <1>10 DEF JobFails, JobMoves, Broken
<1>11. ASSUME NEW k \in JobNames, Reaped(k) PROVE Goal
  BY <1>1, <1>11 DEF Reaped, JobMoves, Gone
<1>12. ASSUME NEW w \in Processes, Makes(w)
       PROVE  \/ UNCHANGED <<jobs, pods>>
              \/ SubmitAdapter(w) \/ Recreate(w) \/ SubmitPopulator(w) \/ DeleteStale(w)
  BY <1>12 DEF Makes, CreateNamespace, CreateQuota, CreateAccount, PatchScc, CreateVolume,
               CreateVm, StartVm
<1>13. CASE Outside
  <2>1. ASSUME NEW m \in Migrations, Cancel(m) PROVE UNCHANGED <<jobs, pods>>
    BY <2>1 DEF Cancel, cluster
  <2>2. ASSUME CleanupVm \/ CleanupVolume \/ CleanupFault PROVE UNCHANGED <<jobs, pods>>
    BY <2>2 DEF CleanupVm, CleanupVolume, CleanupFault, cluster
  <2>3. ASSUME \/ Redeploy \/ \E v \in Migrations \X Disks : Released(v)
               \/ \E o \in Objects : \/ VmiRuns(o) \/ VmiFails(o) \/ DeleteVm(o)
                                    \/ \E on \in BOOLEAN : Operate(o, on)
        PROVE  UNCHANGED <<jobs, pods>>
    BY <2>3 DEF Redeploy, Released, VmiRuns, VmiFails, DeleteVm, Operate
  <2> QED
    BY <1>2, <1>7, <1>8, <1>9, <1>10, <1>11, <1>13, <2>1, <2>2, <2>3
       DEF Outside, CleanupStep, ClusterNext
<1> QED
  BY <1>2, <1>3, <1>4, <1>5, <1>6, <1>12, <1>13, StepKinds, StopsOnly, LooksOnly
     DEF cluster, vars

(* Every step leaves the two tables over the same names.                    *)
LEMMA TablesStep ==
    ASSUME TypeOK, [Next]_vars
    PROVE  /\ jobs' = [j \in JobNames |-> jobs'[j]]
           /\ pods' = [j \in JobNames |-> pods'[j]]
<1> DEFINE Goal == /\ jobs' = [j \in JobNames |-> jobs'[j]]
                   /\ pods' = [j \in JobNames |-> pods'[j]]
<1>1. jobs = [j \in JobNames |-> jobs[j]] /\ pods = [j \in JobNames |-> pods[j]]
  BY DEF TypeOK
<1>2. CASE UNCHANGED <<jobs, pods>>
  BY <1>1, <1>2
<1>3. ASSUME NEW k, NEW r, jobs' = [jobs EXCEPT ![k] = r], pods' = pods
      PROVE  Goal
  BY <1>1, <1>3
<1>4. ASSUME NEW k, NEW r, NEW n, jobs' = [jobs EXCEPT ![k] = r], pods' = [pods EXCEPT ![k] = n]
      PROVE  Goal
  BY <1>1, <1>4
<1>5. ASSUME NEW w \in Processes, Makes(w)
      PROVE  Goal
  <2>1. pods' = pods
    BY <1>5 DEF Makes, CreateNamespace, CreateQuota, CreateAccount, PatchScc, SubmitAdapter,
                DeleteStale, Recreate, CreateVolume, SubmitPopulator, CreateVm, StartVm, Create
  <2>2. CASE SubmitAdapter(w) \/ Recreate(w)
    BY <1>3, <2>1, <2>2 DEF SubmitAdapter, Recreate, Create
  <2>3. CASE SubmitPopulator(w)
    BY <1>3, <2>1, <2>3 DEF SubmitPopulator, Create
  <2>4. CASE DeleteStale(w)
    <3>1. jobs' = jobs \/ jobs' = [jobs EXCEPT ![AdaptJob(w)] = [@ EXCEPT !.going = TRUE]]
      BY <2>4 DEF DeleteStale
    <3> QED
      BY <1>2, <1>3, <2>1, <3>1
  <2>5. CASE ~(SubmitAdapter(w) \/ Recreate(w) \/ DeleteStale(w) \/ SubmitPopulator(w))
    BY <1>2, <1>5, <2>1, <2>5 DEF Makes, CreateNamespace, CreateQuota, CreateAccount, PatchScc,
                                  CreateVolume, CreateVm, StartVm
  <2> QED
    BY <2>2, <2>3, <2>4, <2>5
<1>6. CASE CleanupJob
  <2> DEFINE k == <<"populate", request.mig, request.disk>>
  <2>1. pods' = pods /\ (jobs' = jobs \/ jobs' = [jobs EXCEPT ![k] = [@ EXCEPT !.going = TRUE]])
    BY <1>6 DEF CleanupJob
  <2> QED
    BY <1>2, <1>3, <2>1
<1>7. ASSUME NEW k \in JobNames, PodStart(k) PROVE Goal
  BY <1>1, <1>7 DEF PodStart
<1>8. ASSUME NEW k \in JobNames, PodSucceeds(k) PROVE Goal
  BY <1>1, <1>8 DEF PodSucceeds
<1>9. ASSUME NEW k \in JobNames, JobFails(k) PROVE Goal
  BY <1>1, <1>9 DEF JobFails
<1>10. ASSUME NEW k \in JobNames, Reaped(k) PROVE Goal
  BY <1>1, <1>10 DEF Reaped
<1>11. ASSUME \/ \E m \in Migrations : Cancel(m)
              \/ CleanupVm \/ CleanupVolume \/ CleanupFault
              \/ Redeploy \/ \E v \in Migrations \X Disks : Released(v)
              \/ \E o \in Objects : \/ VmiRuns(o) \/ VmiFails(o) \/ DeleteVm(o)
                                    \/ \E on \in BOOLEAN : Operate(o, on)
       PROVE  UNCHANGED <<jobs, pods>>
  BY <1>11 DEF Cancel, CleanupVm, CleanupVolume, CleanupFault, cluster, Redeploy, Released, VmiRuns,
               VmiFails, DeleteVm, Operate
<1>12. CASE Outside
  BY <1>2, <1>6, <1>7, <1>8, <1>9, <1>10, <1>11, <1>12 DEF Outside, CleanupStep, ClusterNext
<1> QED
  BY <1>2, <1>5, <1>12, StepKinds, StopsOnly, LooksOnly DEF cluster, vars

LEMMA NewJobType ==
    ASSUME TypeOK, NEW w \in Processes, NEW j \in JobNames
    PROVE  NewJobAt(w, j) \in Job /\ NewJobAt(w, j).phase = "active" /\ ~NewJobAt(w, j).started
<1>1. Located(w) \in Exports
  BY DEF Located, TypeOK
<1> QED
  BY <1>1 DEF NewJobAt, NoJob, Job

(* So a name never has more pods than its Job.                              *)
LEMMA PodsStep ==
    ASSUME TypeOK, PodsMatch, \A j \in JobNames : JobMoves(j), [Next]_vars
    PROVE  /\ jobs' \in [JobNames -> Job] /\ pods' \in [JobNames -> Nat]
           /\ PodsMatch'
<1> DEFINE Held(j) == /\ jobs'[j] \in Job
                      /\ pods'[j] = IF jobs'[j].phase = "active" /\ jobs'[j].started THEN 1 ELSE 0
<1>1. ASSUME NEW j \in JobNames
      PROVE  Held(j)
  <2>1. /\ jobs[j] \in Job
        /\ pods[j] = IF jobs[j].phase = "active" /\ jobs[j].started THEN 1 ELSE 0
    BY DEF TypeOK, PodsMatch
  <2>2. CASE jobs'[j] = jobs[j] /\ pods'[j] = pods[j]
    BY <2>1, <2>2
  <2>3. CASE Made(j)
    BY <2>1, <2>3, NewJobType DEF Made
  <2>4. CASE Doomed(j)
    BY <2>1, <2>4 DEF Doomed, Job
  <2>5. CASE Started(j)
    <3>1. pods'[j] = 1
      BY <2>1, <2>5 DEF Started
    <3>2. jobs'[j] \in Job /\ jobs'[j].phase = "active" /\ jobs'[j].started = TRUE
      BY <2>1, <2>5 DEF Started, Job
    <3> QED
      BY <3>1, <3>2
  <2>6. CASE Finished(j)
    BY <2>1, <2>6 DEF Finished, Job
  <2>7. CASE Broken(j)
    <3>1. Holders(j[2]) \subseteq Processes
      BY DEF Holders
    <3>2. jobs'[j] \in Job /\ jobs'[j].phase = "failed"
      BY <2>1, <2>7, <3>1 DEF Broken, Job
    <3>3. pods'[j] = 0
      BY <2>1, <2>7 DEF Broken
    <3> QED
      BY <3>2, <3>3
  <2>8. CASE Gone(j)
    BY <2>1, <2>8 DEF Gone, NoJob, Job
  <2>9. JobMoves(j)
    OBVIOUS
  <2> QED
    BY <2>2, <2>3, <2>4, <2>5, <2>6, <2>7, <2>8, <2>9 DEF JobMoves
<1>2. \A j \in JobNames : pods'[j] \in Nat
  BY <1>1
<1> QED
  BY <1>1, <1>2, TablesStep DEF PodsMatch

-----------------------------------------------------------------------------
(* A process comes to wait for an Adapter Job that it has made, or that is  *)
(* running or done.                                                         *)
LEMMA WaitStarts ==
    ASSUME TypeOK, [Next]_vars, NEW w \in Processes, At(w, "adapting")'
    PROVE  \/ run'[w] = run[w]
           \/ /\ run'[w].mig = run[w].mig /\ UNCHANGED jobs
              /\ jobs[AdaptJob(w)].phase \in {"active", "succeeded"}
           \/ /\ run'[w].mig = run[w].mig /\ ~At(w, "idle")
              /\ jobs' = [jobs EXCEPT ![AdaptJob(w)] = NewJobAt(w, AdaptJob(w))]
<1> DEFINE Goal == \/ run'[w] = run[w]
                   \/ /\ run'[w].mig = run[w].mig /\ UNCHANGED jobs
                      /\ jobs[AdaptJob(w)].phase \in {"active", "succeeded"}
                   \/ /\ run'[w].mig = run[w].mig /\ ~At(w, "idle")
                      /\ jobs' = [jobs EXCEPT ![AdaptJob(w)] = NewJobAt(w, AdaptJob(w))]
<1>1. run \in [Processes -> RunRec] /\ run[w] \in RunRec /\ run'[w].at = "adapting"
  BY DEF TypeOK, RunRec, At
<1>2. ASSUME NEW u \in Processes \ {w}, Stops(u) \/ Looks(u) \/ Makes(u)
      PROVE  run'[w] = run[w]
  BY <1>1, <1>2 DEF Stops, ReapTimeout, RecreateConflict, AdapterFails, PopulatorFails,
     NameConflict, StartMissing, NeverRan, Complete, ApiFault, Crash, Revoked, Fail,
     Looks, ReadNamespace, ReadQuota, ReadScc, AdapterExists, Recheck, RecheckFault,
     Reap, Adapted, WriteName, PopulatorExists, Populated, Reauthenticate, Redeliver, Expire,
     Receive, Goto, Makes, CreateNamespace, CreateQuota, CreateAccount, PatchScc, SubmitAdapter,
     DeleteStale, Recreate, CreateVolume, SubmitPopulator, CreateVm, StartVm, Create, RunRec
<1>3. CASE Stops(w)
  BY <1>1, <1>3, StopsOnly DEF Idle
<1>4. CASE Looks(w)
  <2>1. CASE Recheck(w)
    BY <1>1, <2>1 DEF Recheck, Goto, Reusable, cluster, RunRec
  <2>2. CASE \/ ReadNamespace(w) \/ ReadQuota(w) \/ AdapterExists(w) \/ RecheckFault(w) \/ Reap(w)
             \/ PopulatorExists(w) \/ Reauthenticate(w) \/ Redeliver(w) \/ Expire(w)
    BY <1>1, <2>2 DEF ReadNamespace, ReadQuota, AdapterExists, RecheckFault, Reap, PopulatorExists,
         Reauthenticate, Redeliver, Expire, Goto, RunRec
  <2>3. CASE ReadScc(w) \/ Adapted(w) \/ WriteName(w)
    BY <1>1, <2>3 DEF ReadScc, Adapted, WriteName, Ensured, RunRec
  <2>4. CASE Populated(w)
    BY <1>1, <2>4 DEF Populated, RunRec
  <2>5. ASSUME NEW m \in Migrations, Receive(w, m) PROVE run'[w] = run[w]
    BY <1>1, <2>5 DEF Receive, Idle
  <2> QED
    BY <1>4, <2>1, <2>2, <2>3, <2>4, <2>5 DEF Looks
<1>5. CASE Makes(w)
  <2>1. CASE SubmitAdapter(w) \/ Recreate(w)
    BY <1>1, <2>1 DEF SubmitAdapter, Recreate, Create, Goto, RunRec, At
  <2>2. CASE ~(SubmitAdapter(w) \/ Recreate(w))
    BY <1>1, <1>5, <2>2 DEF Makes, CreateNamespace, CreateQuota, CreateAccount, PatchScc,
         DeleteStale, CreateVolume, SubmitPopulator, CreateVm, StartVm, Create, Goto, Ensured, RunRec
  <2> QED
    BY <2>1, <2>2
<1> QED
  BY <1>2, <1>3, <1>4, <1>5, StepKinds, OutsideOnly DEF vars

(* And while it waits, a Job that fails names it among its witnesses.       *)
LEMMA NoStaleStep ==
    ASSUME TypeOK, NoStaleFailure, \A w \in Processes : Founded(w), [Next]_vars,
           \A j \in JobNames : JobMoves(j)
    PROVE  NoStaleFailure'
<1> SUFFICES ASSUME NEW w \in Processes, At(w, "adapting")',
                    (jobs[AdaptJob(w)].phase = "failed")'
             PROVE  (w \in jobs[AdaptJob(w)].witnesses)'
  BY DEF NoStaleFailure
<1>1. CASE run'[w] = run[w]
  <2> DEFINE j == AdaptJob(w)
  <2>1. AdaptJob(w)' = j /\ At(w, "adapting") /\ run[w].mig \in Migrations
    BY <1>1 DEF AdaptJob, Mig, At, Founded
  <2>2. j \in JobNames /\ j[2] = run[w].mig /\ jobs[j] \in Job /\ jobs'[j].phase = "failed"
    BY <2>1, Names DEF TypeOK
  <2>3. jobs[j].phase = "failed" => w \in jobs[j].witnesses
    BY <2>1 DEF NoStaleFailure
  <2>4. CASE jobs'[j] = jobs[j]
    BY <2>1, <2>2, <2>3, <2>4
  <2>5. CASE Made(j)
    BY <2>2, <2>5, NewJobType DEF Made
  <2>6. CASE Doomed(j)
    BY <2>1, <2>2, <2>3, <2>6 DEF Doomed, Job
  <2>7. CASE Started(j) \/ Finished(j) \/ Gone(j)
    BY <2>2, <2>7 DEF Started, Finished, Gone, NoJob, Job
  <2>8. CASE Broken(j)
    <3>1. w \in Holders(j[2])
      BY <2>2 DEF Holders
    <3> QED
      BY <2>1, <2>2, <2>8, <3>1 DEF Broken, Job
  <2>9. JobMoves(j)
    BY <2>2
  <2> QED
    BY <2>4, <2>5, <2>6, <2>7, <2>8, <2>9 DEF JobMoves
<1>2. CASE /\ run'[w].mig = run[w].mig /\ UNCHANGED jobs
           /\ jobs[AdaptJob(w)].phase \in {"active", "succeeded"}
  BY <1>2 DEF AdaptJob, Mig
<1>3. CASE /\ run'[w].mig = run[w].mig /\ ~At(w, "idle")
           /\ jobs' = [jobs EXCEPT ![AdaptJob(w)] = NewJobAt(w, AdaptJob(w))]
  <2>1. run[w].mig \in Migrations /\ AdaptJob(w)' = AdaptJob(w)
    BY <1>3 DEF AdaptJob, Mig, At, Founded
  <2>2. AdaptJob(w) \in JobNames
    BY <2>1, Names
  <2>3. (jobs[AdaptJob(w)])' = NewJobAt(w, AdaptJob(w))
    BY <1>3, <2>1, <2>2 DEF TypeOK
  <2> QED
    BY <2>2, <2>3, NewJobType
<1> QED
  BY <1>1, <1>2, <1>3, WaitStarts

-----------------------------------------------------------------------------
(* The quota: a Job or a volume is made at a stage that comes after it.     *)
LEMMA JobsHaveQuota ==
    ASSUME TypeOK, QuotaFirst, \A w \in Processes : Founded(w), [Next]_vars,
           \A j \in JobNames : JobMoves(j), QuotaConfigured,
           NEW j \in JobNames, jobs'[j].phase # "none"
    PROVE  home'[j[2]] \in quotas'
<1>1. home' = home /\ quotas \subseteq quotas' /\ jobs[j] \in Job
  BY Growth DEF TypeOK
<1>2. CASE jobs[j].phase # "none"
  BY <1>1, <1>2 DEF QuotaFirst
<1>3. CASE jobs[j].phase = "none"
  <2>1. JobMoves(j)
    OBVIOUS
  <2>2. Made(j)
    <3>1. ~Doomed(j)
      BY <1>1, <1>3 DEF Doomed, Job
    <3>2. ~Started(j) /\ ~Finished(j) /\ ~Broken(j)
      BY <1>3 DEF Started, Finished, Broken
    <3>3. ~Gone(j)
      BY DEF Gone, NoJob
    <3> QED
      BY <1>3, <2>1, <3>1, <3>2, <3>3 DEF JobMoves
  <2>3. PICK w \in Processes : Appears(w, j)
    BY <2>2 DEF Made
  <2>4. run[w].at \in {"adapt", "recreate", "populate"}
    BY <2>3 DEF Appears, SubmitAdapter, Recreate, SubmitPopulator, At
  <2>5. j[2] = run[w].mig
    BY <2>3 DEF Appears, AdaptJob, PopulateJob, Mig
  <2> QED
    BY <1>1, <2>4, <2>5 DEF Founded
<1> QED
  BY <1>2, <1>3

LEMMA VolumesStep ==
    ASSUME TypeOK, Placed, \A w \in Processes : Founded(w), [Next]_vars
    PROVE  /\ volumes' \in [Migrations \X Disks -> Volume]
           /\ \A v \in Migrations \X Disks :
                  volumes'[v].content # "none" =>
                      \/ volumes[v].content # "none"
                      \/ \E w \in Processes : CreateVolume(w) /\ v[1] = run[w].mig
<1> DEFINE New(v) == \E w \in Processes : CreateVolume(w) /\ v[1] = run[w].mig
           Goal == /\ volumes' \in [Migrations \X Disks -> Volume]
                   /\ \A v \in Migrations \X Disks :
                          volumes'[v].content # "none" => volumes[v].content # "none" \/ New(v)
<1>1. volumes \in [Migrations \X Disks -> Volume]
  BY DEF TypeOK
<1>2. CASE UNCHANGED volumes
  BY <1>1, <1>2
<1>3. NoVolume \in Volume /\ NoVolume.content = "none"
  BY DEF NoVolume, Volume
<1>4. ASSUME NEW w \in Processes, CreateVolume(w)
      PROVE  Goal
  <2> DEFINE v == <<run[w].mig, run[w].disk>>
  <2>1. v \in Migrations \X Disks
    BY <1>4 DEF CreateVolume, At, Founded, TypeOK
  <2>2. volumes' = volumes \/ volumes' = [volumes EXCEPT ![v] = [volumes[v] EXCEPT !.content = "empty"]]
    BY <1>4 DEF CreateVolume, Mig
  <2>3. [volumes[v] EXCEPT !.content = "empty"] \in Volume
    BY <1>1, <2>1 DEF Volume
  <2>4. New(v)
    BY <1>4
  <2> QED
    BY <1>1, <1>2, <2>1, <2>2, <2>3, <2>4
<1>5. CASE CleanupVolume
  <2> DEFINE v == <<request.mig, request.disk>>
  <2>1. v \in Migrations \X Disks
    BY <1>5 DEF CleanupVolume, Placed, TypeOK
  <2>2. PICK r \in {NoVolume, [volumes[v] EXCEPT !.going = TRUE]} : volumes' = [volumes EXCEPT ![v] = r]
    BY <1>5 DEF CleanupVolume
  <2>3. r \in Volume /\ (r.content # "none" => volumes[v].content # "none")
    BY <1>1, <1>3, <2>1, <2>2 DEF Volume
  <2> QED
    BY <1>1, <2>1, <2>2, <2>3
<1>6. ASSUME NEW j \in JobNames, PodStart(j) \/ PodSucceeds(j)
      PROVE  Goal
  <2> DEFINE v == <<j[2], j[3]>>
  <2>1. v \in Migrations \X Disks
    BY ClusterAssumption DEF JobNames, Disks, BootDisk
  <2>2. PICK c \in {"none", "empty", "partial", "spoilt", "whole"} :
            /\ volumes' = [volumes EXCEPT ![v] = [volumes[v] EXCEPT !.content = c]]
            /\ c # "none" => volumes[v].content # "none"
    <3>0. volumes[v].content \in {"none", "empty", "partial", "spoilt", "whole"}
      BY <1>1, <2>1 DEF Volume
    <3> DEFINE copy == IF v[2] = BootDisk /\ images[v[1]] # "fixed" THEN "spoilt" ELSE "partial"
               edit == IF volumes[v].content = "partial" THEN "spoilt" ELSE volumes[v].content
    <3>1. CASE PodStart(j)
      <4>1. CASE j[1] = "adapt"
        <5>1. volumes' = [volumes EXCEPT ![v] = [volumes[v] EXCEPT !.content = edit]]
          BY <3>1, <4>1 DEF PodStart
        <5> QED
          BY <3>0, <5>1
      <4>2. CASE j[1] # "adapt"
        <5>1. volumes' = [volumes EXCEPT ![v] = [volumes[v] EXCEPT !.content = copy]]
          BY <3>1, <4>2 DEF PodStart
        <5>2. j[1] = "populate"
          BY <4>2 DEF JobNames
        <5>3. volumes[v].content # "none"
          BY <3>1, <5>2 DEF PodStart
        <5>4. copy \in {"none", "empty", "partial", "spoilt", "whole"}
          OBVIOUS
        <5> HIDE DEF copy
        <5> QED
          BY <5>1, <5>3, <5>4
      <4> QED
        BY <4>1, <4>2
    <3>2. CASE PodSucceeds(j)
      BY <3>0, <3>2 DEF PodSucceeds
    <3> QED
      BY <1>6, <3>1, <3>2
  <2>3. /\ [volumes[v] EXCEPT !.content = c] \in Volume
        /\ [volumes[v] EXCEPT !.content = c].content = c
    BY <1>1, <2>1 DEF Volume
  <2> QED
    BY <1>1, <2>1, <2>2, <2>3
<1>7. ASSUME NEW v \in Migrations \X Disks, Released(v) PROVE Goal
  BY <1>1, <1>3, <1>7 DEF Released
<1>8. ASSUME NEW w \in Processes, Makes(w), ~CreateVolume(w) PROVE UNCHANGED volumes
  BY <1>8 DEF Makes, CreateNamespace, CreateQuota, CreateAccount, PatchScc, SubmitAdapter,
              DeleteStale, Recreate, SubmitPopulator, CreateVm, StartVm, Create
<1>9. ASSUME \/ \E m \in Migrations : Cancel(m)
             \/ CleanupVm \/ CleanupJob \/ CleanupFault \/ Redeploy
             \/ \E j \in JobNames : JobFails(j) \/ Reaped(j)
             \/ \E o \in Objects : \/ VmiRuns(o) \/ VmiFails(o) \/ DeleteVm(o)
                                   \/ \E on \in BOOLEAN : Operate(o, on)
      PROVE  UNCHANGED volumes
  BY <1>9 DEF Cancel, CleanupVm, CleanupJob, CleanupFault, cluster, Redeploy, JobFails, Reaped,
              VmiRuns, VmiFails, DeleteVm, Operate
<1>10. CASE Outside
  BY <1>2, <1>5, <1>6, <1>7, <1>9, <1>10 DEF Outside, CleanupStep, ClusterNext
<1> QED
  BY <1>2, <1>4, <1>8, <1>10, StepKinds, StopsOnly, LooksOnly DEF cluster, vars

LEMMA QuotaStep ==
    ASSUME TypeOK, Placed, QuotaFirst, \A w \in Processes : Founded(w), [Next]_vars,
           \A j \in JobNames : JobMoves(j)
    PROVE  QuotaFirst'
<1>1. ASSUME QuotaConfigured, NEW v \in Migrations \X Disks, volumes'[v].content # "none"
      PROVE  home'[v[1]] \in quotas'
  <2>1. home' = home /\ quotas \subseteq quotas'
    BY Growth
  <2>2. CASE volumes[v].content # "none"
    BY <1>1, <2>1, <2>2 DEF QuotaFirst
  <2>3. ASSUME NEW w \in Processes, CreateVolume(w), v[1] = run[w].mig
        PROVE  home'[v[1]] \in quotas'
    BY <1>1, <2>1, <2>3 DEF CreateVolume, At, Founded
  <2> QED
    BY <1>1, <2>2, <2>3, VolumesStep
<1> QED
  BY <1>1, JobsHaveQuota DEF QuotaFirst

-----------------------------------------------------------------------------
(* The types of the rest.                                                   *)
Grounds ==
    /\ namespaces \subseteq Namespaces /\ quotas \subseteq namespaces /\ accounts \subseteq namespaces
    /\ scc \subseteq Namespaces \cup {Platform} /\ export \in Exports
Files ==
    /\ images \in [Migrations -> {"plain", "half", "fixed"}]
    /\ vms \in [Objects -> Machine \cup {None}]
Notes ==
    /\ status \in [Migrations -> Statuses] /\ named \subseteq Migrations /\ messages \subseteq Migrations
    /\ outlived \subseteq Migrations /\ misread \subseteq Migrations
    /\ shared \subseteq Migrations /\ budget \in [Kinds -> Nat]

LEMMA GroundsStep ==
    ASSUME TypeOK, Placed, \A w \in Processes : Founded(w), [Next]_vars
    PROVE  Grounds'
<1>0. Grounds /\ home \in [Migrations -> Namespaces] /\ run \in [Processes -> RunRec]
  BY DEF TypeOK, Grounds, Placed, RunRec
<1>1. CASE UNCHANGED <<namespaces, quotas, accounts, scc, export>>
  BY <1>0, <1>1 DEF Grounds
<1>2. ASSUME NEW w \in Processes, Makes(w)
      PROVE  Grounds'
  <2>1. CASE CreateNamespace(w)
    <3>1. run[w].mig \in Migrations
      BY <2>1 DEF CreateNamespace, At, Founded
    <3> QED
      BY <1>0, <2>1, <3>1 DEF CreateNamespace, Grounds, Home, Mig
  <2>2. CASE CreateQuota(w) \/ CreateAccount(w)
    <3>1. home[run[w].mig] \in namespaces
      BY <2>2 DEF CreateQuota, CreateAccount, At, Founded
    <3> QED
      BY <1>0, <2>2, <3>1 DEF CreateQuota, CreateAccount, Grounds, Home, Mig
  <2>3. CASE PatchScc(w)
    <3>1. run[w].mig \in Migrations /\ run[w].users \subseteq Namespaces \cup {Platform}
      BY <1>0, <2>3 DEF PatchScc, At, Founded, RunRec
    <3> QED
      BY <1>0, <2>3, <3>1 DEF PatchScc, Grounds, Home, Mig
  <2>4. CASE SubmitAdapter(w) \/ DeleteStale(w) \/ Recreate(w) \/ CreateVolume(w)
             \/ SubmitPopulator(w) \/ CreateVm(w) \/ StartVm(w)
    BY <1>1, <2>4 DEF SubmitAdapter, DeleteStale, Recreate, CreateVolume, SubmitPopulator, CreateVm,
                      StartVm, Create
  <2> QED
    BY <1>2, <2>1, <2>2, <2>3, <2>4 DEF Makes
<1>3. CASE Redeploy
  BY <1>0, <1>3 DEF Redeploy, Grounds
<1>4. ASSUME Outside, ~Redeploy
      PROVE  UNCHANGED <<namespaces, quotas, accounts, scc, export>>
  <2>1. ASSUME \/ \E m \in Migrations : Cancel(m)
               \/ CleanupVm \/ CleanupJob \/ CleanupVolume \/ CleanupFault
               \/ \E v \in Migrations \X Disks : Released(v)
        PROVE  export' = export
    BY <2>1 DEF Cancel, CleanupVm, CleanupJob, CleanupVolume, CleanupFault, cluster, Released
  <2>2. ASSUME \/ \E j \in JobNames : PodStart(j) \/ PodSucceeds(j) \/ JobFails(j) \/ Reaped(j)
               \/ \E o \in Objects : \/ VmiRuns(o) \/ VmiFails(o) \/ DeleteVm(o)
                                     \/ \E on \in BOOLEAN : Operate(o, on)
        PROVE  export' = export
    BY <2>2 DEF PodStart, PodSucceeds, JobFails, Reaped, VmiRuns, VmiFails, DeleteVm, Operate
  <2> QED
    BY <1>4, <2>1, <2>2, OutsideOnly DEF Outside, CleanupStep, ClusterNext
<1> QED
  BY <1>1, <1>2, <1>3, <1>4, StepKinds, StopsOnly, LooksOnly DEF cluster, vars

LEMMA FilesStep ==
    ASSUME TypeOK, Placed, \A w \in Processes : Founded(w), [Next]_vars
    PROVE  Files'
<1>0. Files /\ object \in [Migrations -> Objects]
  BY DEF TypeOK, Files, Placed
<1>1. CASE UNCHANGED <<images, vms>>
  BY <1>0, <1>1 DEF Files
<1>2. ASSUME images' = images, NEW o \in Objects, NEW r \in Machine \cup {None},
             vms' = [vms EXCEPT ![o] = r]
      PROVE  Files'
  BY <1>0, <1>2 DEF Files
<1>3. ASSUME NEW w \in Processes, CreateVm(w)
      PROVE  Files'
  <2>1. run[w].mig \in Migrations
    BY <1>3 DEF CreateVm, At, Founded
  <2>2. [owner |-> run[w].mig, on |-> FALSE, vmi |-> "none"] \in Machine
    BY <2>1 DEF Machine
  <2>3. Target(w) \in Objects
    BY <1>0, <2>1 DEF Target, Mig
  <2> QED
    BY <1>2, <1>3, <2>2, <2>3 DEF CreateVm, Mig
<1>4. ASSUME NEW w \in Processes, StartVm(w)
      PROVE  Files'
  <2>1. run[w].mig \in Migrations
    BY <1>4 DEF StartVm, At, Founded
  <2>2. Target(w) \in Objects /\ vms[Target(w)] \in Machine
    BY <1>0, <1>4, <2>1 DEF Target, Mig, StartVm, Files
  <2>3. [vms[Target(w)] EXCEPT !.on = TRUE] \in Machine
    BY <2>2 DEF Machine
  <2> QED
    BY <1>2, <1>4, <2>2, <2>3 DEF StartVm
<1>5. ASSUME NEW o \in Objects, VmiRuns(o) \/ VmiFails(o)
      PROVE  Files'
  <2>1. vms[o] \in Machine
    BY <1>0, <1>5 DEF VmiRuns, VmiFails, Files
  <2>2. PICK i \in {"running", "failed"} :
            images' = images /\ vms' = [vms EXCEPT ![o] = [vms[o] EXCEPT !.vmi = i]]
    BY <1>5 DEF VmiRuns, VmiFails
  <2>3. [vms[o] EXCEPT !.vmi = i] \in Machine
    BY <2>1 DEF Machine
  <2> QED
    BY <1>2, <2>2, <2>3
<1>6. ASSUME NEW o \in Objects, NEW on \in BOOLEAN, Operate(o, on)
      PROVE  Files'
  <2>1. vms[o] \in Machine
    BY <1>0, <1>6 DEF Operate, Files
  <2>2. PICK i \in {"none", "running", "failed"} :
            images' = images /\ vms' = [vms EXCEPT ![o] = [vms[o] EXCEPT !.on = on, !.vmi = i]]
    <3>1. vms[o].vmi \in {"none", "running", "failed"}
      BY <2>1 DEF Machine
    <3> QED
      BY <1>6, <3>1 DEF Operate
  <2>3. [vms[o] EXCEPT !.on = on, !.vmi = i] \in Machine
    BY <2>1 DEF Machine
  <2> QED
    BY <1>2, <2>2, <2>3
<1>7. ASSUME NEW o \in Objects, DeleteVm(o) PROVE Files'
  BY <1>2, <1>7 DEF DeleteVm
<1>8. CASE CleanupVm
  <2>1. images' = images /\ (vms' = vms \/ vms' = [vms EXCEPT ![object[request.mig]] = None])
    BY <1>8 DEF CleanupVm
  <2>2. object[request.mig] \in Objects
    BY <1>0, <1>8 DEF CleanupVm, Placed
  <2> QED
    BY <1>1, <1>2, <2>1, <2>2
<1>9. ASSUME NEW j \in JobNames, PodStart(j) \/ PodSucceeds(j)
      PROVE  Files'
  <2>1. vms' = vms /\ \/ images' = images
                      \/ \E i \in {"half", "fixed"} : images' = [images EXCEPT ![j[2]] = i]
    BY <1>9 DEF PodStart, PodSucceeds
  <2> QED
    BY <1>0, <2>1 DEF Files
<1>10. ASSUME NEW w \in Processes, Makes(w), ~CreateVm(w), ~StartVm(w)
       PROVE  UNCHANGED <<images, vms>>
  BY <1>10 DEF Makes, CreateNamespace, CreateQuota, CreateAccount, PatchScc, SubmitAdapter,
               DeleteStale, Recreate, CreateVolume, SubmitPopulator, Create
<1>11. ASSUME \/ \E m \in Migrations : Cancel(m)
              \/ CleanupJob \/ CleanupVolume \/ CleanupFault \/ Redeploy
              \/ \E j \in JobNames : JobFails(j) \/ Reaped(j)
              \/ \E v \in Migrations \X Disks : Released(v)
       PROVE  UNCHANGED <<images, vms>>
  BY <1>11 DEF Cancel, CleanupJob, CleanupVolume, CleanupFault, cluster, Redeploy, JobFails, Reaped,
               Released
<1>12. CASE Outside
  BY <1>1, <1>5, <1>6, <1>7, <1>8, <1>9, <1>11, <1>12 DEF Outside, CleanupStep, ClusterNext
<1> QED
  BY <1>1, <1>3, <1>4, <1>10, <1>12, StepKinds, StopsOnly, LooksOnly DEF cluster, vars

LEMMA CacheStep ==
    ASSUME TypeOK, [Next]_vars
    PROVE  cache' \in [Processes -> Exports \cup {None}]
<1>0. cache \in [Processes -> Exports \cup {None}] /\ export \in Exports
  BY DEF TypeOK
<1>1. ASSUME NEW w \in Processes, Stops(w) \/ Looks(w) \/ Makes(w)
      PROVE  \/ cache' = cache
             \/ \E c \in {None, Located(w)} : cache' = [cache EXCEPT ![w] = c]
  <2>1. CASE Stops(w)
    BY <2>1 DEF Stops, ReapTimeout, RecreateConflict, AdapterFails, PopulatorFails, NameConflict,
         StartMissing, NeverRan, Complete, ApiFault, Crash, Revoked, Fail
  <2>2. CASE Looks(w)
    BY <2>2 DEF Looks, ReadNamespace, ReadQuota, ReadScc, AdapterExists, Recheck, RecheckFault,
         Reap, Adapted, WriteName, PopulatorExists, Populated, Reauthenticate, Redeliver, Expire,
         Receive
  <2>3. CASE Makes(w)
    BY <2>3 DEF Makes, CreateNamespace, CreateQuota, CreateAccount, PatchScc, SubmitAdapter,
         DeleteStale, Recreate, CreateVolume, SubmitPopulator, CreateVm, StartVm, Create
  <2> QED
    BY <1>1, <2>1, <2>2, <2>3
<1>2. ASSUME NEW w \in Processes PROVE Located(w) \in Exports
  BY <1>0 DEF Located
<1>3. ASSUME Outside PROVE cache' = cache
  <2>1. ASSUME \/ \E m \in Migrations : Cancel(m)
               \/ CleanupVm \/ CleanupJob \/ CleanupVolume \/ CleanupFault
               \/ \E v \in Migrations \X Disks : Released(v)
        PROVE  cache' = cache
    BY <2>1 DEF Cancel, CleanupVm, CleanupJob, CleanupVolume, CleanupFault, cluster, Released
  <2>2. ASSUME \/ \E j \in JobNames : PodStart(j) \/ PodSucceeds(j) \/ JobFails(j) \/ Reaped(j)
               \/ \E o \in Objects : \/ VmiRuns(o) \/ VmiFails(o) \/ DeleteVm(o)
                                     \/ \E on \in BOOLEAN : Operate(o, on)
               \/ Redeploy
        PROVE  cache' = cache
    BY <2>2 DEF PodStart, PodSucceeds, JobFails, Reaped, VmiRuns, VmiFails, DeleteVm, Operate, Redeploy
  <2> QED
    BY <1>3, <2>1, <2>2 DEF Outside, CleanupStep, ClusterNext
<1> QED
  BY <1>0, <1>1, <1>2, <1>3, StepKinds DEF vars

LEMMA RequestStep ==
    ASSUME TypeOK, Placed, [Next]_vars
    PROVE  request' \in Ask /\ Placed' /\ cleaned' \subseteq Migrations
<1>0. request \in Ask /\ cleaned \subseteq Migrations
  BY DEF TypeOK, Ask
<1>1. home' = home /\ object' = object
  BY Growth
<1>2. CASE UNCHANGED <<request, cleaned>>
  BY <1>0, <1>1, <1>2 DEF Placed
<1>3. ASSUME NEW m \in Migrations, Cancel(m)
      PROVE  request' \in Ask /\ Placed' /\ cleaned' = cleaned
  <2>1. request' = [at |-> "vm", mig |-> m, disk |-> 0, clean |-> TRUE] /\ cleaned' = cleaned
    BY <1>3 DEF Cancel, NoRequest
  <2>2. 0 \in Disks
    BY ClusterAssumption DEF Disks
  <2> QED
    BY <1>1, <2>1, <2>2 DEF Ask, Placed
<1>4. ASSUME CleanupStep \/ CleanupFault
      PROVE  request' \in Ask /\ Placed' /\ cleaned' \subseteq Migrations
  <2>0. request.at # "idle" /\ request.mig \in Migrations
    BY <1>4 DEF CleanupStep, CleanupVm, CleanupJob, CleanupVolume, CleanupFault, Placed
  <2>1. ASSUME NEW clean \in BOOLEAN, NextDisk(clean)
        PROVE  request' \in Ask /\ Placed' /\ cleaned' \subseteq Migrations
    <3>1. CASE request.disk = Last
      <4>1. request' = NoRequest /\ cleaned' \subseteq Migrations
        BY <1>0, <2>0, <2>1, <3>1 DEF NextDisk
      <4>2. 0 \in Disks
        BY ClusterAssumption DEF Disks
      <4> QED
        BY <1>1, <4>1, <4>2 DEF NoRequest, Ask, Placed
    <3>2. CASE request.disk # Last
      <4>1. request' = [request EXCEPT !.at = "job", !.disk = request.disk + 1, !.clean = clean]
            /\ cleaned' = cleaned
        BY <2>1, <3>2 DEF NextDisk
      <4>2. request.disk + 1 \in Disks
        BY <1>0, <3>2, ClusterAssumption DEF Ask, Disks
      <4>3. request' \in Ask /\ request'.mig = request.mig
        BY <1>0, <4>1, <4>2 DEF Ask
      <4> QED
        BY <1>0, <1>1, <2>0, <4>1, <4>3 DEF Placed
    <3> QED
      BY <3>1, <3>2
  <2>2. ASSUME NEW stage \in {"job", "volume"}, NEW clean \in BOOLEAN,
               request' = [request EXCEPT !.at = stage, !.clean = clean], cleaned' = cleaned
        PROVE  request' \in Ask /\ Placed' /\ cleaned' \subseteq Migrations
    <3>1. request' \in Ask /\ request'.mig = request.mig
      BY <1>0, <2>2 DEF Ask
    <3> QED
      BY <1>0, <1>1, <2>0, <2>2, <3>1 DEF Placed
  <2>3. CASE CleanupVm \/ CleanupJob
    <3>1. PICK stage \in {"job", "volume"} : Then(stage)
      BY <2>3 DEF CleanupVm, CleanupJob
    <3>2. request' \in Ask /\ request'.mig = request.mig
      BY <1>0, <3>1 DEF Then, Ask
    <3>3. cleaned' = cleaned
      BY <2>3 DEF CleanupVm, CleanupJob, history
    <3> QED
      BY <1>0, <1>1, <2>0, <3>2, <3>3 DEF Placed
  <2>4. CASE CleanupVolume
    BY <1>0, <2>1, <2>4 DEF CleanupVolume, Ask
  <2>5. CASE CleanupFault
    <3>1. CASE request.at = "volume"
      BY <2>1, <2>5, <3>1 DEF CleanupFault
    <3>2. CASE request.at # "volume"
      <4>1. PICK stage \in {"job", "volume"} :
                /\ request' = [request EXCEPT !.clean = FALSE, !.at = stage]
                /\ cleaned' = cleaned
        BY <2>5, <3>2 DEF CleanupFault
      <4>2. request' \in Ask /\ request'.mig = request.mig
        BY <1>0, <4>1 DEF Ask
      <4> QED
        BY <1>0, <1>1, <2>0, <4>1, <4>2 DEF Placed
    <3> QED
      BY <3>1, <3>2
  <2> QED
    BY <1>4, <2>3, <2>4, <2>5 DEF CleanupStep
<1>5. ASSUME ClusterNext PROVE UNCHANGED <<request, cleaned>>
  BY <1>5 DEF ClusterNext, PodStart, PodSucceeds, JobFails, Reaped, Released, VmiRuns, VmiFails,
              DeleteVm, Operate, Redeploy, history
<1>6. ASSUME NEW w \in Processes, Stops(w) \/ Looks(w) \/ Makes(w)
      PROVE  UNCHANGED <<request, cleaned>>
  <2>1. CASE Looks(w)
    BY <2>1 DEF Looks, ReadNamespace, ReadQuota, ReadScc, AdapterExists, Recheck, RecheckFault,
         Reap, Adapted, WriteName, PopulatorExists, Populated, Reauthenticate, Redeliver, Expire,
         Receive, Steps, history
  <2> QED
    BY <1>6, <2>1, StopsOnly, MakesOnly DEF history
<1> QED
  BY <1>0, <1>2, <1>3, <1>4, <1>5, <1>6, StepKinds DEF Outside, vars, history

LEMMA NotesStep ==
    ASSUME TypeOK, \A w \in Processes : Founded(w), [Next]_vars
    PROVE  Notes'
<1>0. Notes
  BY DEF TypeOK, Notes
<1>1. ASSUME NEW kind \in Kinds, Spend(kind) PROVE budget' \in [Kinds -> Nat]
  BY <1>0, <1>1 DEF Spend, Notes
<1>2. {"crash", "redeliver", "fault", "readfault", "podfail", "cancel", "operator", "move",
       "expire"} \subseteq Kinds
  BY DEF Kinds
<1>3. CASE UNCHANGED <<rows, history, budget>>
  BY <1>0, <1>3 DEF rows, history, Notes
<1>4. ASSUME UNCHANGED <<rows, history>>, NEW kind \in Kinds, Spend(kind) PROVE Notes'
  BY <1>0, <1>1, <1>4 DEF rows, history, Notes
<1>5. ASSUME NEW w \in Processes, run[w].at # "idle", Fail(w) PROVE Notes'
  BY <1>0, <1>5 DEF Fail, history, Notes, Statuses
<1>6. ASSUME NEW w \in Processes, Stops(w)
      PROVE  Notes'
  <2>1. CASE \/ ReapTimeout(w) \/ RecreateConflict(w) \/ AdapterFails(w) \/ PopulatorFails(w)
             \/ NameConflict(w) \/ StartMissing(w) \/ NeverRan(w)
    BY <1>5, <2>1 DEF ReapTimeout, RecreateConflict, AdapterFails, PopulatorFails, NameConflict,
                      StartMissing, NeverRan, Verifying, At
  <2>2. CASE Complete(w)
    BY <1>0, <2>2 DEF Complete, history, Notes, Statuses
  <2>3. CASE ApiFault(w)
    BY <1>0, <1>1, <1>2, <2>3 DEF ApiFault, history, Notes, Statuses
  <2>4. CASE Crash(w)
    <3>1. Mig(w) \in Migrations
      BY <2>4 DEF Crash, At, Founded, Mig
    <3> QED
      BY <1>0, <1>1, <1>2, <2>4, <3>1 DEF Crash, history, Notes
  <2>5. CASE Revoked(w)
    BY <1>3, <2>5 DEF Revoked
  <2> QED
    BY <1>6, <2>1, <2>2, <2>3, <2>4, <2>5 DEF Stops
<1>7. ASSUME NEW w \in Processes, Looks(w)
      PROVE  Notes'
  <2>1. CASE \/ ReadNamespace(w) \/ ReadQuota(w) \/ ReadScc(w) \/ AdapterExists(w) \/ Recheck(w)
             \/ Reap(w) \/ Adapted(w) \/ PopulatorExists(w) \/ Populated(w)
    BY <1>3, <2>1 DEF ReadNamespace, ReadQuota, ReadScc, AdapterExists, Recheck, Reap, Adapted,
                      PopulatorExists, Populated, Steps
  <2>2. CASE Reauthenticate(w) \/ Expire(w)
    BY <1>2, <1>4, <2>2 DEF Reauthenticate, Expire
  <2>3. CASE RecheckFault(w) \/ WriteName(w) \/ Redeliver(w)
    <3>1. Mig(w) \in Migrations
      BY <2>3 DEF RecheckFault, WriteName, Redeliver, At, Founded, Mig
    <3> QED
      BY <1>0, <1>1, <1>2, <2>3, <3>1
         DEF RecheckFault, WriteName, Redeliver, rows, history, Notes
  <2>4. ASSUME NEW m \in Migrations, Receive(w, m) PROVE Notes'
    <3>1. /\ messages' \subseteq Migrations /\ UNCHANGED <<named, outlived, misread, budget>>
          /\ shared' = shared \/ shared' = shared \cup {m}
          /\ status' = status \/ status' = [status EXCEPT ![m] = "running"]
      BY <1>0, <2>4 DEF Receive, Notes
    <3> QED
      BY <1>0, <3>1 DEF Notes, Statuses
  <2> QED
    BY <1>7, <2>1, <2>2, <2>3, <2>4 DEF Looks
<1>8. ASSUME NEW m \in Migrations, Cancel(m) PROVE Notes'
  <2>1. /\ UNCHANGED <<named, messages, misread, shared>> /\ status' = [status EXCEPT ![m] = "cancelled"]
        /\ outlived' = outlived \/ outlived' = outlived \cup {m}
        /\ Spend("cancel")
    BY <1>8 DEF Cancel
  <2> QED
    BY <1>0, <1>1, <1>2, <2>1 DEF Notes, Statuses
<1>9. CASE CleanupStep
  BY <1>0, <1>9 DEF CleanupStep, CleanupVm, CleanupJob, CleanupVolume, rows, history, Notes
<1>10. CASE CleanupFault
  BY <1>0, <1>1, <1>2, <1>10 DEF CleanupFault, rows, Notes
<1>11. CASE ClusterNext
  <2>1. \/ UNCHANGED <<rows, history, budget>>
        \/ UNCHANGED <<rows, history>> /\ \E kind \in Kinds : Spend(kind)
    <3> DEFINE Quiet == UNCHANGED <<rows, history, budget>>
               Paid == UNCHANGED <<rows, history>> /\ \E kind \in Kinds : Spend(kind)
    <3>1. ASSUME NEW j \in JobNames, PodStart(j) \/ PodSucceeds(j) \/ JobFails(j) \/ Reaped(j)
          PROVE  Quiet \/ Paid
      BY <1>2, <3>1 DEF PodStart, PodSucceeds, JobFails, Reaped
    <3>2. ASSUME NEW v \in Migrations \X Disks, Released(v) PROVE Quiet \/ Paid
      BY <1>2, <3>2 DEF Released
    <3>3. ASSUME NEW o \in Objects,
                 VmiRuns(o) \/ VmiFails(o) \/ DeleteVm(o) \/ \E on \in BOOLEAN : Operate(o, on)
          PROVE  Quiet \/ Paid
      BY <1>2, <3>3 DEF VmiRuns, VmiFails, DeleteVm, Operate
    <3>4. CASE Redeploy
      BY <1>2, <3>4 DEF Redeploy
    <3> QED
      BY <1>11, <3>1, <3>2, <3>3, <3>4 DEF ClusterNext
  <2> QED
    BY <1>3, <1>4, <2>1
<1> QED
  BY <1>3, <1>6, <1>7, <1>8, <1>9, <1>10, <1>11, StepKinds, MakesOnly DEF Outside, vars

-----------------------------------------------------------------------------
(* What holds in every state: the types, what each process has behind it,   *)
(* and what follows from it for quotas, grants and Jobs.                    *)
Inv ==
    /\ TypeOK /\ Placed /\ \A w \in Processes : Founded(w)
    /\ QuotaFirst /\ GrantsStay /\ PodsMatch /\ NoStaleFailure

LEMMA InitInv == Init => Inv
<1> SUFFICES ASSUME Init PROVE Inv
  OBVIOUS
<1>1. 0 \in Disks /\ Idle \in RunRec /\ NoRequest \in Ask
  BY IdleType, ClusterAssumption DEF Disks, NoRequest, Ask
<1>2. PICK s \in Scenarios : home = s.home /\ object = s.object /\ budget = s.budget /\ messages = s.sent
  BY DEF Init
<1>3. s \in [sent : SUBSET Migrations, home : [Migrations -> Namespaces],
             object : [Migrations -> Objects], budget : [Kinds -> Nat]]
  BY ClusterAssumption
<1>4. Notes /\ cleaned \subseteq Migrations
  BY <1>2, <1>3 DEF Init, Notes, Statuses
<1>5. Grounds /\ Files /\ cache \in [Processes -> Exports \cup {None}]
  BY ClusterAssumption DEF Init, Grounds, Files
<1>6. run \in [Processes -> RunRec] /\ request \in Ask
  BY <1>1 DEF Init
<1>7. jobs \in [JobNames -> Job] /\ pods \in [JobNames -> Nat]
  BY DEF Init, NoJob, Job
<1>8. volumes \in [Migrations \X Disks -> Volume]
  BY DEF Init, NoVolume, Volume
<1>9. TypeOK
  BY <1>4, <1>5, <1>6, <1>7, <1>8 DEF TypeOK, Notes, Grounds, Files, RunRec, Ask
<1>10. Placed
  BY <1>2, <1>3 DEF Init, Placed, NoRequest
<1>11. \A w \in Processes : Founded(w)
  BY DEF Init, Founded, Idle
<1>12. QuotaFirst /\ GrantsStay /\ PodsMatch /\ NoStaleFailure
  BY DEF Init, QuotaFirst, GrantsStay, PodsMatch, NoStaleFailure, NoJob, NoVolume, At, Idle
<1> QED
  BY <1>9, <1>10, <1>11, <1>12 DEF Inv

LEMMA StepInv == Inv /\ [Next]_vars => Inv'
<1> SUFFICES ASSUME Inv, [Next]_vars PROVE Inv'
  OBVIOUS
<1>1. /\ TypeOK /\ Placed /\ \A w \in Processes : Founded(w)
      /\ QuotaFirst /\ GrantsStay /\ PodsMatch /\ NoStaleFailure
  BY DEF Inv
<1>2. run' \in [Processes -> RunRec] /\ \A w \in Processes : Founded(w)'
  BY <1>1, FoundedStep
<1>3. \A j \in JobNames : JobMoves(j)
  BY <1>1, JobsStep
<1>4. GrantsStay' /\ QuotaFirst' /\ NoStaleFailure'
  BY <1>1, <1>3, GrantsStep, QuotaStep, NoStaleStep
<1>5. jobs' \in [JobNames -> Job] /\ pods' \in [JobNames -> Nat] /\ PodsMatch'
  BY <1>1, <1>3, PodsStep
<1>6. Grounds' /\ Files' /\ Notes' /\ cache' \in [Processes -> Exports \cup {None}]
  BY <1>1, GroundsStep, FilesStep, NotesStep, CacheStep
<1>7. request' \in Ask /\ Placed' /\ cleaned' \subseteq Migrations
  BY <1>1, RequestStep
<1>8. volumes' \in [Migrations \X Disks -> Volume]
  BY <1>1, VolumesStep
<1>9. TypeOK'
  BY <1>2, <1>5, <1>6, <1>7, <1>8 DEF TypeOK, Notes, Grounds, Files, RunRec, Ask
<1> QED
  BY <1>2, <1>4, <1>5, <1>7, <1>9 DEF Inv

(* A namespace is set up before anything runs in it and stays so, however   *)
(* many processes set up one namespace, whoever dies between two calls, and *)
(* however the read-modify-write cycles of the SCC's list overlap           *)
(* (ensure_tenant_namespace and ensure_populator_scc).                      *)
THEOREM TenantsAreSetUp == Spec => []NamespacesReady
<1>1. Inv => NamespacesReady
  BY DEF Inv, NamespacesReady
<1> QED
  BY <1>1, InitInv, StepInv, PTL DEF Spec

(* No name ever has two pods, whatever Jobs are found, deleted and made     *)
(* again under it; and an Adapter failure that a run reports happened while *)
(* the run had the migration (submit_adapter_job, _delete_job_and_wait).    *)
THEOREM JobsAreReusedSafely == Spec => []JobsReusedSafely
<1>1. Inv => JobsReusedSafely
  <2>1. ASSUME Inv PROVE OneWriter
    BY <2>1 DEF Inv, PodsMatch, OneWriter
  <2> QED
    BY <2>1 DEF Inv, JobsReusedSafely
<1> QED
  BY <1>1, InitInv, StepInv, PTL DEF Spec

-----------------------------------------------------------------------------
(* What is under a machine.  Three histories excuse a migration: it was     *)
(* cancelled while a process had it, two processes had it, or its Adapter   *)
(* Job could not be read.                                                   *)
Alone == Migrations \ (shared \cup misread)
Undisturbed == Alone \ outlived

Adapter(m) == <<"adapt", m, BootDisk>>
Populator(m, d) == <<"populate", m, d>>
Copied(m, d) == jobs[Populator(m, d)].phase = "succeeded"
Owns(m) == \E o \in Objects : vms[o] # None /\ vms[o].owner = m

CopyStages == {"volume", "populate", "copying"}
LastStages == {"createvm", "startvm", "verifying", "reverifying"}

(* A migration has one process, and none any more once it is cancelled.     *)
Held ==
    /\ \A w \in Processes : run[w].at = "idle" => run[w].mig = None
    /\ \A m \in Migrations \ shared, u, w \in Processes :
           run[u].mig = m /\ run[w].mig = m => u = w
    /\ \A m \in Migrations \ outlived, w \in Processes :
           status[m] = "cancelled" => run[w].mig # m
    /\ request.at # "idle" /\ request.mig \notin outlived => status[request.mig] = "cancelled"

(* Only a teardown dooms populator Jobs and volumes.                        *)
Untouched ==
    \A m \in Migrations \ outlived, d \in Disks :
        status[m] # "cancelled" => ~jobs[Populator(m, d)].going /\ ~volumes[<<m, d>>].going

(* What a process has done to its migration when it is at a stage.          *)
Behind(w) ==
    /\ run[w].at \in {"name"} \cup CopyStages \cup LastStages => run[w].again
    /\ run[w].at \in CopyStages \cup LastStages => run[w].mig \in named
    /\ run[w].mig \in Alone =>
           /\ run[w].at = "delete" => jobs[AdaptJob(w)].phase \in {"none", "failed"}
           /\ run[w].again => jobs[AdaptJob(w)].phase = "succeeded"
    /\ run[w].mig \in Undisturbed =>
           /\ run[w].at \in CopyStages =>
                  \A d \in Disks : d < run[w].disk => Copied(run[w].mig, d)
           /\ run[w].at \in LastStages => \A d \in Disks : Copied(run[w].mig, d)

(* The image is edited once, and copied after that.                         *)
Edited ==
    /\ \A m \in Migrations : jobs[Adapter(m)].phase = "succeeded" => images[m] = "fixed"
    /\ \A m \in Alone :
           /\ jobs[Adapter(m)].going => jobs[Adapter(m)].phase = "failed"
           /\ \A d \in Disks : jobs[Populator(m, d)].phase # "none" =>
                  jobs[Adapter(m)].phase = "succeeded"

(* A volume holds what its populator Job has done, until a teardown.        *)
Filled(m, d) ==
    /\ jobs[Populator(m, d)].phase = "active" /\ jobs[Populator(m, d)].started =>
           volumes[<<m, d>>].content = "partial"
    /\ Copied(m, d) => \/ volumes[<<m, d>>].content = "whole"
                       \/ status[m] = "cancelled" /\ volumes[<<m, d>>].content = "none"
    /\ Owns(m) => /\ jobs[Populator(m, d)].phase \in {"succeeded", "none"}
                  /\ volumes[<<m, d>>].content \in {"whole", "none"}
                  /\ status[m] # "cancelled" => Copied(m, d)
Disked == \A m \in Undisturbed, d \in Disks : Filled(m, d)

(* A machine has the name its migration wrote on the row.                   *)
Labelled == \A o \in Objects : vms[o] # None => object[vms[o].owner] = o /\ vms[o].owner \in named

(* How far a teardown has come.                                             *)
JobCleared(m, d) == jobs[Populator(m, d)].phase # "none" => jobs[Populator(m, d)].going
VolumeCleared(m, d) == volumes[<<m, d>>].content # "none" => volumes[<<m, d>>].going
Cleaning ==
    /\ request.at = "vm" => request.disk = 0
    /\ request.at \in {"job", "volume"} /\ request.clean /\ request.mig \notin outlived =>
           /\ ~Owns(request.mig)
           /\ \A d \in Disks : d < request.disk =>
                  JobCleared(request.mig, d) /\ VolumeCleared(request.mig, d)
           /\ request.at = "volume" => JobCleared(request.mig, request.disk)
    /\ \A m \in cleaned \ outlived : status[m] = "cancelled"

Order == Held /\ Untouched /\ (\A w \in Processes : Behind(w)) /\ Edited /\ Disked
         /\ VmDisksWhole /\ Labelled /\ Cleaning /\ CleanedLeavesNothing

-----------------------------------------------------------------------------
(* How a process with a migration moves on.                                 *)
SetupStages == {"create", "quota", "newquota", "account", "readscc", "patchscc", "adapt",
                "recheck", "reap", "recreate", "adapting"}

Takes(w, m) ==
    /\ run[w].at = "idle" /\ status[m] \in {"ready", "running"}
    /\ run'[w] = [Idle EXCEPT !.at = "namespace", !.mig = m]
    /\ \A u \in Processes \ {w} : run'[u] = run[u]
    /\ Holders(m) # {} => m \in shared'
Prepares(w) == run'[w].at \in SetupStages /\ run'[w].again = run[w].again
Discards(w) ==
    /\ run'[w].at = "delete" /\ run'[w].again = run[w].again /\ UNCHANGED jobs
    /\ jobs[AdaptJob(w)].phase \in {"active", "succeeded"} => Mig(w) \in misread'
Adapts(w) == run'[w].at = "namespace" /\ Succeeded(AdaptJob(w)) /\ UNCHANGED jobs
Resolves(w) == run'[w].at = "name" /\ run[w].again /\ run'[w].again
Labels(w) ==
    /\ run[w].at = "name" /\ run'[w].at = "volume" /\ run'[w].again = run[w].again
    /\ run'[w].disk = 0 /\ Mig(w) \in named'
Advances(w) ==
    /\ run[w].at = "copying" /\ run'[w].again = run[w].again
    /\ Succeeded(PopulateJob(w)) /\ UNCHANGED jobs
    /\ \/ run[w].disk = Last /\ run'[w].at = "createvm"
       \/ run[w].disk # Last /\ run'[w].at = "volume" /\ run'[w].disk = run[w].disk + 1
Proceeds(w) ==
    /\ run'[w].again = run[w].again /\ run'[w].disk = run[w].disk
    /\ {run[w].at, run'[w].at} \subseteq CopyStages \/ {run[w].at, run'[w].at} \subseteq LastStages
Onward(w) ==
    /\ run[w].at # "idle" /\ run'[w].at # "idle" /\ run'[w].mig = run[w].mig
    /\ \/ Prepares(w) \/ Discards(w) \/ Adapts(w) \/ Resolves(w) \/ Labels(w)
       \/ Advances(w) \/ Proceeds(w)

RunMoves(w) ==
    run'[w] = run[w] \/ run'[w] = Idle \/ Onward(w) \/ \E m \in Migrations : Takes(w, m)

LEMMA RunSteps ==
    ASSUME TypeOK, [Next]_vars, NEW w \in Processes
    PROVE  RunMoves(w)
<1>1. run \in [Processes -> RunRec] /\ run[w] \in RunRec
  BY DEF TypeOK, RunRec
<1>2. ASSUME NEW u \in Processes \ {w}, Stops(u) \/ Looks(u) \/ Makes(u)
      PROVE  run'[w] = run[w]
  BY <1>1, <1>2 DEF Stops, ReapTimeout, RecreateConflict, AdapterFails, PopulatorFails,
     NameConflict, StartMissing, NeverRan, Complete, ApiFault, Crash, Revoked, Fail,
     Looks, ReadNamespace, ReadQuota, ReadScc, AdapterExists, Recheck, RecheckFault,
     Reap, Adapted, WriteName, PopulatorExists, Populated, Reauthenticate, Redeliver, Expire,
     Receive, Goto, Makes, CreateNamespace, CreateQuota, CreateAccount, PatchScc, SubmitAdapter,
     DeleteStale, Recreate, CreateVolume, SubmitPopulator, CreateVm, StartVm, Create, RunRec
<1>3. CASE Stops(w)
  BY <1>1, <1>3, StopsOnly DEF RunMoves
<1>4. ASSUME NEW stage \in SetupStages, run[w].at # "idle", Goto(w, stage)
      PROVE  Onward(w)
  <2>1. run'[w] = [run[w] EXCEPT !.at = stage]
    BY <1>1, <1>4 DEF Goto
  <2>2. run'[w].at = stage /\ run'[w].mig = run[w].mig /\ run'[w].again = run[w].again
    BY <1>1, <2>1 DEF RunRec
  <2> QED
    BY <1>4, <2>2 DEF Onward, Prepares, SetupStages
<1>5. ASSUME NEW stage, <<run[w].at, stage>> \in
                 {<<"volume", "populate">>, <<"populate", "copying">>, <<"createvm", "startvm">>,
                  <<"startvm", "verifying">>, <<"verifying", "reverifying">>}, Goto(w, stage)
      PROVE  Onward(w)
  <2>1. run'[w] = [run[w] EXCEPT !.at = stage]
    BY <1>1, <1>5 DEF Goto
  <2>2. /\ run'[w].at = stage /\ run'[w].mig = run[w].mig /\ run'[w].again = run[w].again
        /\ run'[w].disk = run[w].disk
    BY <1>1, <2>1 DEF RunRec
  <2> QED
    BY <1>5, <2>2 DEF Onward, Proceeds, CopyStages, LastStages
<1>6. ASSUME NEW stage \in {"name", "adapt"}, NEW users, run[w].at # "idle",
             run[w].again = (stage = "name"),
             run'[w] = [run[w] EXCEPT !.at = stage, !.users = users]
      PROVE  Onward(w)
  <2>1. run'[w].at = stage /\ run'[w].mig = run[w].mig /\ run'[w].again = run[w].again
    BY <1>1, <1>6 DEF RunRec
  <2> QED
    BY <1>6, <2>1 DEF Onward, Prepares, Resolves, SetupStages
<1>7. CASE Looks(w)
  <2>1. CASE ReadNamespace(w) \/ ReadQuota(w) \/ AdapterExists(w) \/ Reap(w)
    <3>1. \E stage \in SetupStages : Goto(w, stage)
      BY <2>1 DEF ReadNamespace, ReadQuota, AdapterExists, Reap, SetupStages
    <3>2. run[w].at # "idle"
      BY <2>1 DEF ReadNamespace, ReadQuota, AdapterExists, Reap, At
    <3> QED
      BY <1>4, <3>1, <3>2 DEF RunMoves
  <2>2. CASE ReadScc(w)
    <3>1. CASE Home(w) \in scc
      <4>1. run'[w] = [run[w] EXCEPT !.at = Ensured(w)]
        BY <1>1, <2>2, <3>1 DEF ReadScc
      <4>2. [run[w] EXCEPT !.at = Ensured(w)] = [run[w] EXCEPT !.at = Ensured(w), !.users = run[w].users]
        BY <1>1 DEF RunRec
      <4>3. run[w].again \in BOOLEAN /\ run[w].at # "idle"
        BY <1>1, <2>2 DEF RunRec, ReadScc, At
      <4>4. Ensured(w) \in {"name", "adapt"} /\ run[w].again = (Ensured(w) = "name")
        BY <4>3 DEF Ensured
      <4> QED
        BY <1>6, <4>1, <4>2, <4>3, <4>4 DEF RunMoves
    <3>2. CASE Home(w) \notin scc
      <4>1. run'[w] = [run[w] EXCEPT !.at = "patchscc", !.users = scc] /\ run[w].at # "idle"
        BY <1>1, <2>2, <3>2 DEF ReadScc, At
      <4>2. run'[w].at = "patchscc" /\ run'[w].mig = run[w].mig /\ run'[w].again = run[w].again
        BY <1>1, <4>1 DEF RunRec
      <4> QED
        BY <4>1, <4>2 DEF RunMoves, Onward, Prepares, SetupStages
    <3> QED
      BY <3>1, <3>2
  <2>3. CASE Recheck(w)
    <3>1. CASE Reusable(AdaptJob(w))
      <4>1. Goto(w, "adapting") /\ run[w].at # "idle"
        BY <2>3, <3>1 DEF Recheck, At
      <4> QED
        BY <1>4, <4>1 DEF RunMoves, SetupStages
    <3>2. CASE ~Reusable(AdaptJob(w))
      <4>1. run'[w] = [run[w] EXCEPT !.at = "delete"] /\ run[w].at # "idle" /\ UNCHANGED jobs
        BY <1>1, <2>3, <3>2 DEF Recheck, At, Goto, cluster
      <4>2. run'[w].at = "delete" /\ run'[w].mig = run[w].mig /\ run'[w].again = run[w].again
        BY <1>1, <4>1 DEF RunRec
      <4> QED
        BY <3>2, <4>1, <4>2 DEF RunMoves, Onward, Discards, Reusable
    <3> QED
      BY <3>1, <3>2
  <2>4. CASE RecheckFault(w)
    <3>1. run'[w] = [run[w] EXCEPT !.at = "delete"] /\ run[w].at # "idle" /\ UNCHANGED jobs
      BY <1>1, <2>4 DEF RecheckFault, At, Goto, cluster
    <3>2. run'[w].at = "delete" /\ run'[w].mig = run[w].mig /\ run'[w].again = run[w].again
      BY <1>1, <3>1 DEF RunRec
    <3>3. Mig(w) \in misread'
      BY <2>4 DEF RecheckFault
    <3> QED
      BY <3>1, <3>2, <3>3 DEF RunMoves, Onward, Discards
  <2>5. CASE Adapted(w)
    <3>1. /\ run'[w] = [run[w] EXCEPT !.at = "namespace", !.again = TRUE]
          /\ run[w].at # "idle" /\ UNCHANGED jobs /\ Succeeded(AdaptJob(w))
      BY <1>1, <2>5 DEF Adapted, At, cluster
    <3>2. run'[w].at = "namespace" /\ run'[w].mig = run[w].mig
      BY <1>1, <3>1 DEF RunRec
    <3> QED
      BY <3>1, <3>2 DEF RunMoves, Onward, Adapts
  <2>6. CASE WriteName(w)
    <3>1. /\ run'[w] = [run[w] EXCEPT !.at = "volume", !.disk = 0]
          /\ run[w].at = "name" /\ Mig(w) \in named'
      BY <1>1, <2>6 DEF WriteName, At, BootDisk
    <3>2. /\ run'[w].at = "volume" /\ run'[w].mig = run[w].mig /\ run'[w].disk = 0
          /\ run'[w].again = run[w].again
      BY <1>1, <3>1 DEF RunRec
    <3> QED
      BY <3>1, <3>2 DEF RunMoves, Onward, Labels
  <2>7. CASE PopulatorExists(w) \/ Reauthenticate(w)
    BY <1>5, <2>7 DEF PopulatorExists, Reauthenticate, At, RunMoves
  <2>8. CASE Populated(w)
    <3>0. run[w].at = "copying" /\ Succeeded(PopulateJob(w)) /\ UNCHANGED jobs
      BY <2>8 DEF Populated, At, cluster
    <3>1. CASE run[w].disk = Last
      <4>1. run'[w] = [run[w] EXCEPT !.at = "createvm"]
        BY <1>1, <2>8, <3>1 DEF Populated
      <4>2. run'[w].at = "createvm" /\ run'[w].mig = run[w].mig /\ run'[w].again = run[w].again
        BY <1>1, <4>1 DEF RunRec
      <4> QED
        BY <3>0, <3>1, <4>2 DEF RunMoves, Onward, Advances
    <3>2. CASE run[w].disk # Last
      <4>1. run'[w] = [run[w] EXCEPT !.at = "volume", !.disk = run[w].disk + 1]
        BY <1>1, <2>8, <3>2 DEF Populated
      <4>2. /\ run'[w].at = "volume" /\ run'[w].mig = run[w].mig /\ run'[w].again = run[w].again
            /\ run'[w].disk = run[w].disk + 1
        BY <1>1, <4>1 DEF RunRec
      <4> QED
        BY <3>0, <3>2, <4>2 DEF RunMoves, Onward, Advances
    <3> QED
      BY <3>1, <3>2
  <2>9. CASE Redeliver(w) \/ Expire(w)
    BY <2>9 DEF Redeliver, Expire, RunMoves
  <2>10. ASSUME NEW m \in Migrations, Receive(w, m) PROVE RunMoves(w)
    <3>1. CASE status[m] \in {"ready", "running"}
      <4>1. /\ run' = [run EXCEPT ![w] = [Idle EXCEPT !.at = "namespace", !.mig = m]]
            /\ run[w].at = "idle" /\ (Holders(m) # {} => m \in shared')
        BY <2>10, <3>1 DEF Receive, At
      <4>2. Takes(w, m)
        BY <1>1, <3>1, <4>1 DEF Takes
      <4> QED
        BY <4>2 DEF RunMoves
    <3>2. CASE status[m] \notin {"ready", "running"}
      BY <2>10, <3>2 DEF Receive, RunMoves
    <3> QED
      BY <3>1, <3>2
  <2> QED
    BY <1>7, <2>1, <2>2, <2>3, <2>4, <2>5, <2>6, <2>7, <2>8, <2>9, <2>10 DEF Looks
<1>8. CASE Makes(w)
  <2>1. CASE CreateNamespace(w) \/ CreateQuota(w) \/ CreateAccount(w) \/ SubmitAdapter(w)
             \/ DeleteStale(w) \/ Recreate(w)
    <3>1. \E stage \in SetupStages : Goto(w, stage)
      BY <2>1 DEF CreateNamespace, CreateQuota, CreateAccount, SubmitAdapter, DeleteStale, Recreate,
                  Create, SetupStages
    <3>2. run[w].at # "idle"
      BY <2>1 DEF CreateNamespace, CreateQuota, CreateAccount, SubmitAdapter, DeleteStale, Recreate, At
    <3> QED
      BY <1>4, <3>1, <3>2 DEF RunMoves
  <2>2. CASE PatchScc(w)
    <3>1. run'[w] = [run[w] EXCEPT !.at = Ensured(w), !.users = {}]
      BY <1>1, <2>2 DEF PatchScc
    <3>2. run[w].again \in BOOLEAN /\ run[w].at # "idle"
      BY <1>1, <2>2 DEF RunRec, PatchScc, At
    <3>3. Ensured(w) \in {"name", "adapt"} /\ run[w].again = (Ensured(w) = "name")
      BY <3>2 DEF Ensured
    <3> QED
      BY <1>6, <3>1, <3>2, <3>3 DEF RunMoves
  <2>3. CASE CreateVolume(w) \/ SubmitPopulator(w) \/ CreateVm(w) \/ StartVm(w)
    BY <1>5, <2>3 DEF CreateVolume, SubmitPopulator, CreateVm, StartVm, Create, At, RunMoves
  <2> QED
    BY <1>8, <2>1, <2>2, <2>3 DEF Makes
<1> QED
  BY <1>2, <1>3, <1>7, <1>8, StepKinds, OutsideOnly DEF vars, RunMoves

-----------------------------------------------------------------------------
(* What a step does to a volume, to a machine, to an image and to a status. *)
LEMMA Jobnames ==
    /\ \A m \in Migrations : Adapter(m) \in JobNames /\ <<m, BootDisk>> \in Migrations \X Disks
    /\ \A m \in Migrations, d \in Disks : Populator(m, d) \in JobNames
    /\ \A j \in JobNames : \E m \in Migrations :
           \/ j = Adapter(m) \/ \E d \in Disks : j = Populator(m, d)
<1>1. BootDisk \in Disks
  BY ClusterAssumption DEF Disks, BootDisk
<1>2. ASSUME NEW j \in JobNames
      PROVE  \E m \in Migrations : j = Adapter(m) \/ \E d \in Disks : j = Populator(m, d)
  <2>1. CASE j \in {"adapt"} \X Migrations \X {BootDisk}
    <3>1. PICK m \in Migrations : j = <<"adapt", m, BootDisk>>
      BY <2>1
    <3> QED
      BY <3>1 DEF Adapter
  <2>2. CASE j \in {"populate"} \X Migrations \X Disks
    <3>1. PICK m \in Migrations, d \in Disks : j = <<"populate", m, d>>
      BY <2>2
    <3> QED
      BY <3>1 DEF Populator
  <2> QED
    BY <2>1, <2>2 DEF JobNames
<1> QED
  BY <1>1, <1>2 DEF JobNames, Adapter, Populator

Puts(m, d, c) == volumes'[<<m, d>>] = [volumes[<<m, d>>] EXCEPT !.content = c]

VolumeMoves(m, d) ==
    \/ volumes'[<<m, d>>] = volumes[<<m, d>>]
    \/ /\ \E w \in Processes : run[w].at = "volume" /\ run[w].mig = m
       /\ volumes[<<m, d>>].content = "none" /\ Puts(m, d, "empty")
    \/ /\ CleanupVolume /\ request.mig = m /\ request.disk = d
       /\ IF Mounted(<<m, d>>) THEN volumes'[<<m, d>>] = [volumes[<<m, d>>] EXCEPT !.going = TRUE]
                               ELSE volumes'[<<m, d>>] = NoVolume
    \/ volumes[<<m, d>>].going /\ ~Mounted(<<m, d>>) /\ volumes'[<<m, d>>] = NoVolume
    \/ /\ PodStart(Populator(m, d))
       /\ volumes[<<m, d>>].content # "none" /\ ~volumes[<<m, d>>].going
       /\ Puts(m, d, IF d = BootDisk /\ images[m] # "fixed" THEN "spoilt" ELSE "partial")
    \/ /\ PodStart(Adapter(m)) /\ jobs[Adapter(m)].phase = "active"
       /\ volumes[<<m, d>>].content = "partial" /\ Puts(m, d, "spoilt")
    \/ /\ PodSucceeds(Populator(m, d)) /\ volumes[<<m, d>>].content = "partial"
       /\ Puts(m, d, "whole")

LEMMA VolumeSteps ==
    ASSUME TypeOK, Placed, \A w \in Processes : Founded(w), [Next]_vars,
           NEW m \in Migrations, NEW d \in Disks
    PROVE  VolumeMoves(m, d)
<1>1. volumes \in [Migrations \X Disks -> Volume] /\ <<m, d>> \in Migrations \X Disks
  BY DEF TypeOK
<1>2. CASE UNCHANGED volumes
  BY <1>2 DEF VolumeMoves
<1>3. ASSUME NEW n \in Migrations, NEW e \in Disks, NEW r, volumes' = [volumes EXCEPT ![<<n, e>>] = r]
      PROVE  IF n = m /\ e = d THEN volumes'[<<m, d>>] = r ELSE volumes'[<<m, d>>] = volumes[<<m, d>>]
  BY <1>1, <1>3
<1>4. ASSUME NEW w \in Processes, CreateVolume(w)
      PROVE  VolumeMoves(m, d)
  <2>1. run[w].mig \in Migrations /\ run[w].disk \in Disks /\ run[w].at = "volume"
    BY <1>4 DEF CreateVolume, At, Founded, TypeOK
  <2> DEFINE v == <<run[w].mig, run[w].disk>>
  <2>2. \/ volumes' = volumes
        \/ /\ volumes[v].content = "none"
           /\ volumes' = [volumes EXCEPT ![v] = [volumes[v] EXCEPT !.content = "empty"]]
    BY <1>4 DEF CreateVolume, Mig
  <2>3. CASE /\ volumes[v].content = "none"
             /\ volumes' = [volumes EXCEPT ![v] = [volumes[v] EXCEPT !.content = "empty"]]
    <3>1. CASE run[w].mig = m /\ run[w].disk = d
      <4>1. volumes'[<<m, d>>] = [volumes[<<m, d>>] EXCEPT !.content = "empty"]
        BY <1>1, <2>3, <3>1
      <4> QED
        BY <2>1, <2>3, <3>1, <4>1 DEF VolumeMoves, Puts
    <3>2. CASE ~(run[w].mig = m /\ run[w].disk = d)
      <4>1. volumes'[<<m, d>>] = volumes[<<m, d>>]
        BY <1>1, <2>1, <2>3, <3>2
      <4> QED
        BY <4>1 DEF VolumeMoves
    <3> QED
      BY <3>1, <3>2
  <2> QED
    BY <1>2, <2>2, <2>3
<1>5. CASE CleanupVolume
  <2>1. request.mig \in Migrations /\ request.disk \in Disks
    BY <1>5 DEF CleanupVolume, Placed, TypeOK
  <2> DEFINE v == <<request.mig, request.disk>>
             r == IF Mounted(v) THEN [volumes[v] EXCEPT !.going = TRUE] ELSE NoVolume
  <2>2. volumes' = [volumes EXCEPT ![v] = r]
    BY <1>5 DEF CleanupVolume
  <2>3. CASE request.mig = m /\ request.disk = d
    <3>1. volumes'[<<m, d>>] = IF Mounted(<<m, d>>) THEN [volumes[<<m, d>>] EXCEPT !.going = TRUE]
                                                     ELSE NoVolume
      BY <1>1, <2>2, <2>3
    <3> QED
      BY <1>5, <2>3, <3>1 DEF VolumeMoves
  <2>4. CASE ~(request.mig = m /\ request.disk = d)
    BY <1>1, <2>1, <2>2, <2>4 DEF VolumeMoves
  <2> QED
    BY <2>3, <2>4
<1>6. ASSUME NEW n \in Migrations, NEW j \in JobNames, j = Adapter(n), PodStart(j) \/ PodSucceeds(j)
      PROVE  VolumeMoves(m, d)
  <2>1. j[1] = "adapt" /\ <<j[2], j[3]>> = <<n, BootDisk>> /\ BootDisk \in Disks
    BY <1>6, Jobnames DEF Adapter
  <2> DEFINE v == <<n, BootDisk>>
  <2>2. CASE PodStart(j)
    <3>1. /\ jobs[j].phase = "active"
          /\ volumes' = [volumes EXCEPT ![v] = [volumes[v] EXCEPT !.content =
                            IF volumes[v].content = "partial" THEN "spoilt" ELSE volumes[v].content]]
      BY <2>1, <2>2 DEF PodStart
    <3>2. CASE volumes[v].content = "partial"
      BY <1>1, <1>3, <1>6, <2>1, <2>2, <3>1, <3>2 DEF VolumeMoves, Puts
    <3>3. CASE volumes[v].content # "partial"
      <4>1. [volumes[v] EXCEPT !.content = volumes[v].content] = volumes[v]
        BY <1>1, <2>1 DEF Volume
      <4> QED
        BY <1>1, <1>3, <2>1, <3>1, <3>3, <4>1 DEF VolumeMoves
    <3> QED
      BY <3>2, <3>3
  <2>3. CASE PodSucceeds(j)
    <3>1. volumes' = [volumes EXCEPT ![v] = [volumes[v] EXCEPT !.content = volumes[v].content]]
      BY <2>1, <2>3 DEF PodSucceeds
    <3>2. [volumes[v] EXCEPT !.content = volumes[v].content] = volumes[v]
      BY <1>1, <2>1 DEF Volume
    <3> QED
      BY <1>1, <1>3, <2>1, <3>1, <3>2 DEF VolumeMoves
  <2> QED
    BY <1>6, <2>2, <2>3
<1>7. ASSUME NEW n \in Migrations, NEW e \in Disks, NEW j \in JobNames, j = Populator(n, e),
             PodStart(j) \/ PodSucceeds(j)
      PROVE  VolumeMoves(m, d)
  <2>1. j[1] = "populate" /\ j[1] # "adapt" /\ j[2] = n /\ j[3] = e
    BY <1>7 DEF Populator
  <2> DEFINE v == <<n, e>>
  <2>2. CASE PodStart(j)
    <3> DEFINE c == IF e = BootDisk /\ images[n] # "fixed" THEN "spoilt" ELSE "partial"
    <3>1. /\ volumes[v].content # "none" /\ ~volumes[v].going
          /\ volumes' = [volumes EXCEPT ![v] = [volumes[v] EXCEPT !.content = c]]
      BY <2>1, <2>2 DEF PodStart
    <3>2. CASE n = m /\ e = d
      <4>1. PodStart(Populator(m, d))
        BY <1>7, <2>2, <3>2
      <4>2. volumes'[<<m, d>>] = [volumes[<<m, d>>] EXCEPT !.content = c]
        BY <1>3, <3>1, <3>2
      <4> QED
        BY <3>1, <3>2, <4>1, <4>2 DEF VolumeMoves, Puts
    <3>3. CASE ~(n = m /\ e = d)
      <4>1. volumes'[<<m, d>>] = volumes[<<m, d>>]
        BY <1>3, <3>1, <3>3
      <4> QED
        BY <4>1 DEF VolumeMoves
    <3> QED
      BY <3>2, <3>3
  <2>3. CASE PodSucceeds(j)
    <3>1. volumes' = [volumes EXCEPT ![v] = [volumes[v] EXCEPT !.content =
                         IF volumes[v].content = "partial" THEN "whole" ELSE volumes[v].content]]
      BY <2>1, <2>3 DEF PodSucceeds
    <3>2. CASE volumes[v].content = "partial"
      BY <1>1, <1>3, <1>7, <2>1, <2>3, <3>1, <3>2 DEF VolumeMoves, Puts
    <3>3. CASE volumes[v].content # "partial"
      <4>1. [volumes[v] EXCEPT !.content = volumes[v].content] = volumes[v]
        BY <1>1 DEF Volume
      <4> QED
        BY <1>1, <1>3, <3>1, <3>3, <4>1 DEF VolumeMoves
    <3> QED
      BY <3>2, <3>3
  <2> QED
    BY <1>7, <2>2, <2>3
<1>8. ASSUME NEW v \in Migrations \X Disks, Released(v) PROVE VolumeMoves(m, d)
  <2>1. PICK n \in Migrations, e \in Disks : v = <<n, e>>
    OBVIOUS
  <2>2. volumes[v].going /\ ~Mounted(v) /\ volumes' = [volumes EXCEPT ![<<n, e>>] = NoVolume]
    BY <1>8, <2>1 DEF Released
  <2> QED
    BY <1>3, <2>1, <2>2 DEF VolumeMoves
<1>9. ASSUME NEW w \in Processes, Makes(w), ~CreateVolume(w) PROVE UNCHANGED volumes
  BY <1>9 DEF Makes, CreateNamespace, CreateQuota, CreateAccount, PatchScc, SubmitAdapter,
              DeleteStale, Recreate, SubmitPopulator, CreateVm, StartVm, Create
<1>10. ASSUME \/ \E n \in Migrations : Cancel(n)
              \/ CleanupVm \/ CleanupJob \/ CleanupFault \/ Redeploy
              \/ \E j \in JobNames : JobFails(j) \/ Reaped(j)
              \/ \E o \in Objects : \/ VmiRuns(o) \/ VmiFails(o) \/ DeleteVm(o)
                                    \/ \E on \in BOOLEAN : Operate(o, on)
       PROVE  UNCHANGED volumes
  BY <1>10 DEF Cancel, CleanupVm, CleanupJob, CleanupFault, cluster, Redeploy, JobFails, Reaped,
               VmiRuns, VmiFails, DeleteVm, Operate
<1>11. ASSUME NEW j \in JobNames, PodStart(j) \/ PodSucceeds(j) PROVE VolumeMoves(m, d)
  BY <1>6, <1>7, <1>11, Jobnames
<1>12. CASE Outside
  BY <1>2, <1>5, <1>8, <1>10, <1>11, <1>12 DEF Outside, CleanupStep, ClusterNext
<1> QED
  BY <1>2, <1>4, <1>9, <1>12, StepKinds, StopsOnly, LooksOnly DEF cluster, vars

VmMoves(o) ==
    \/ vms'[o] = vms[o] \/ vms'[o] = None
    \/ /\ vms[o] = None /\ vms'[o].vmi = "none"
       /\ \E w \in Processes : run[w].at = "createvm" /\ run[w].mig = vms'[o].owner /\ Target(w) = o
    \/ /\ vms[o] # None /\ vms'[o].owner = vms[o].owner
       /\ vms'[o].vmi = "running" /\ vms[o].vmi # "running" =>
              /\ UNCHANGED volumes
              /\ \A d \in Disks : volumes[<<vms[o].owner, d>>].content # "none"

LEMMA VmSteps ==
    ASSUME TypeOK, Placed, \A w \in Processes : Founded(w), [Next]_vars, NEW o \in Objects
    PROVE  VmMoves(o)
<1>1. vms \in [Objects -> Machine \cup {None}]
  BY DEF TypeOK
<1>2. CASE UNCHANGED vms
  BY <1>2 DEF VmMoves
<1>3. ASSUME NEW p \in Objects, NEW r, vms' = [vms EXCEPT ![p] = r]
      PROVE  IF p = o THEN vms'[o] = r ELSE vms'[o] = vms[o]
  BY <1>1, <1>3
<1>4. ASSUME NEW p \in Objects, vms' = [vms EXCEPT ![p] = None]
      PROVE  VmMoves(o)
  BY <1>3, <1>4 DEF VmMoves
<1>5. ASSUME NEW w \in Processes, CreateVm(w)
      PROVE  VmMoves(o)
  <2> DEFINE r == [owner |-> run[w].mig, on |-> FALSE, vmi |-> "none"]
  <2>1. /\ run[w].at = "createvm" /\ vms[Target(w)] = None
        /\ vms' = [vms EXCEPT ![Target(w)] = r]
    BY <1>5 DEF CreateVm, At, Mig
  <2>2. Target(w) \in Objects
    BY <2>1 DEF Founded, Placed, Target, Mig
  <2>3. CASE Target(w) = o
    <3>1. vms'[o] = r /\ r.owner = run[w].mig /\ r.vmi = "none"
      BY <1>3, <2>1, <2>2, <2>3
    <3> QED
      BY <2>1, <2>3, <3>1 DEF VmMoves
  <2>4. CASE Target(w) # o
    <3>1. vms'[o] = vms[o]
      BY <1>3, <2>1, <2>2, <2>4
    <3> QED
      BY <3>1 DEF VmMoves
  <2> QED
    BY <2>3, <2>4
<1>6. ASSUME NEW p \in Objects, NEW r, vms' = [vms EXCEPT ![p] = r], vms[p] # None,
             r.owner = vms[p].owner, r.vmi = "running" => vms[p].vmi = "running"
      PROVE  VmMoves(o)
  <2>1. CASE p = o
    BY <1>3, <1>6, <2>1 DEF VmMoves
  <2>2. CASE p # o
    BY <1>3, <1>6, <2>2 DEF VmMoves
  <2> QED
    BY <2>1, <2>2
<1>7. ASSUME NEW w \in Processes, StartVm(w)
      PROVE  VmMoves(o)
  <2>1. /\ vms[Target(w)] # None /\ run[w].at = "startvm"
        /\ vms' = [vms EXCEPT ![Target(w)] = [vms[Target(w)] EXCEPT !.on = TRUE]]
    BY <1>7 DEF StartVm, At
  <2>2. Target(w) \in Objects
    BY <2>1 DEF Founded, Placed, Target, Mig
  <2>3. vms[Target(w)] \in Machine
    BY <1>1, <2>1, <2>2
  <2>4. /\ [vms[Target(w)] EXCEPT !.on = TRUE].owner = vms[Target(w)].owner
        /\ [vms[Target(w)] EXCEPT !.on = TRUE].vmi = vms[Target(w)].vmi
    BY <2>3 DEF Machine
  <2> QED
    BY <1>6, <2>1, <2>2, <2>4
<1>8. ASSUME NEW p \in Objects, VmiRuns(p)
      PROVE  VmMoves(o)
  <2>1. /\ vms[p] # None /\ UNCHANGED volumes
        /\ vms' = [vms EXCEPT ![p] = [vms[p] EXCEPT !.vmi = "running"]]
        /\ \A d \in Disks : volumes[<<vms[p].owner, d>>].content # "none"
    BY <1>8 DEF VmiRuns
  <2>2. vms[p] \in Machine
    BY <1>1, <2>1
  <2>3. [vms[p] EXCEPT !.vmi = "running"].owner = vms[p].owner
    BY <2>2 DEF Machine
  <2>4. CASE p = o
    BY <1>3, <2>1, <2>3, <2>4 DEF VmMoves
  <2>5. CASE p # o
    BY <1>3, <2>1, <2>5 DEF VmMoves
  <2> QED
    BY <2>4, <2>5
<1>9. ASSUME NEW p \in Objects, VmiFails(p)
      PROVE  VmMoves(o)
  <2>1. vms[p] # None /\ vms' = [vms EXCEPT ![p] = [vms[p] EXCEPT !.vmi = "failed"]]
    BY <1>9 DEF VmiFails
  <2>2. vms[p] \in Machine
    BY <1>1, <2>1
  <2>3. /\ [vms[p] EXCEPT !.vmi = "failed"].owner = vms[p].owner
        /\ [vms[p] EXCEPT !.vmi = "failed"].vmi # "running"
    BY <2>2 DEF Machine
  <2> QED
    BY <1>6, <2>1, <2>3
<1>10. ASSUME NEW p \in Objects, NEW on \in BOOLEAN, Operate(p, on)
       PROVE  VmMoves(o)
  <2> DEFINE r == [vms[p] EXCEPT !.on = on, !.vmi = IF on THEN vms[p].vmi ELSE "none"]
  <2>1. vms[p] # None /\ vms' = [vms EXCEPT ![p] = r]
    BY <1>10 DEF Operate
  <2>2. vms[p] \in Machine
    BY <1>1, <2>1
  <2>3. r.owner = vms[p].owner /\ (r.vmi = "running" => vms[p].vmi = "running")
    BY <2>2 DEF Machine
  <2> QED
    BY <1>6, <2>1, <2>3
<1>11. ASSUME NEW p \in Objects, DeleteVm(p) PROVE VmMoves(o)
  BY <1>4, <1>11 DEF DeleteVm
<1>12. CASE CleanupVm
  <2>1. vms' = vms \/ vms' = [vms EXCEPT ![object[request.mig]] = None]
    BY <1>12 DEF CleanupVm
  <2>2. object[request.mig] \in Objects
    BY <1>12 DEF CleanupVm, Placed
  <2> QED
    BY <1>2, <1>4, <2>1, <2>2
<1>13. ASSUME NEW w \in Processes, Makes(w), ~CreateVm(w), ~StartVm(w)
       PROVE  UNCHANGED vms
  BY <1>13 DEF Makes, CreateNamespace, CreateQuota, CreateAccount, PatchScc, SubmitAdapter,
               DeleteStale, Recreate, CreateVolume, SubmitPopulator, Create
<1>14. ASSUME \/ \E m \in Migrations : Cancel(m)
              \/ CleanupJob \/ CleanupVolume \/ CleanupFault \/ Redeploy
              \/ \E j \in JobNames : PodStart(j) \/ PodSucceeds(j) \/ JobFails(j) \/ Reaped(j)
              \/ \E v \in Migrations \X Disks : Released(v)
       PROVE  UNCHANGED vms
  BY <1>14 DEF Cancel, CleanupJob, CleanupVolume, CleanupFault, cluster, Redeploy, PodStart,
               PodSucceeds, JobFails, Reaped, Released
<1>15. CASE Outside
  BY <1>2, <1>8, <1>9, <1>10, <1>11, <1>12, <1>14, <1>15 DEF Outside, CleanupStep, ClusterNext
<1> QED
  BY <1>2, <1>5, <1>7, <1>13, <1>15, StepKinds, StopsOnly, LooksOnly DEF cluster, vars

(* The image is edited by the pod of the Adapter Job only.                  *)
LEMMA ImageSteps ==
    ASSUME TypeOK, [Next]_vars, NEW m \in Migrations
    PROVE  \/ images'[m] = images[m]
           \/ PodStart(Adapter(m)) /\ jobs[Adapter(m)].phase = "active"
           \/ PodSucceeds(Adapter(m)) /\ images'[m] = "fixed"
<1> DEFINE Goal == \/ images'[m] = images[m]
                   \/ PodStart(Adapter(m)) /\ jobs[Adapter(m)].phase = "active"
                   \/ PodSucceeds(Adapter(m)) /\ images'[m] = "fixed"
<1>1. images \in [Migrations -> {"plain", "half", "fixed"}]
  BY DEF TypeOK
<1>2. ASSUME NEW n \in Migrations, NEW j \in JobNames, j = Adapter(n), PodStart(j) \/ PodSucceeds(j)
      PROVE  Goal
  <2>1. j[1] = "adapt" /\ j[2] = n
    BY <1>2 DEF Adapter
  <2>2. CASE PodStart(j)
    <3>1. images' = [images EXCEPT ![n] = "half"] /\ jobs[j].phase = "active"
      BY <2>1, <2>2 DEF PodStart
    <3> QED
      BY <1>1, <1>2, <2>2, <3>1
  <2>3. CASE PodSucceeds(j)
    <3>1. images' = [images EXCEPT ![n] = "fixed"]
      BY <2>1, <2>3 DEF PodSucceeds
    <3> QED
      BY <1>1, <1>2, <2>3, <3>1
  <2> QED
    BY <1>2, <2>2, <2>3
<1>3. ASSUME NEW n \in Migrations, NEW d \in Disks, NEW j \in JobNames, j = Populator(n, d),
             PodStart(j) \/ PodSucceeds(j)
      PROVE  images' = images
  <2>1. j[1] # "adapt"
    BY <1>3 DEF Populator
  <2> QED
    BY <1>3, <2>1 DEF PodStart, PodSucceeds
<1>4. ASSUME NEW w \in Processes, Makes(w) PROVE images' = images
  BY <1>4 DEF Makes, CreateNamespace, CreateQuota, CreateAccount, PatchScc, SubmitAdapter,
              DeleteStale, Recreate, CreateVolume, SubmitPopulator, CreateVm, StartVm, Create
<1>5. ASSUME \/ \E n \in Migrations : Cancel(n)
             \/ CleanupVm \/ CleanupJob \/ CleanupVolume \/ CleanupFault \/ Redeploy
             \/ \E j \in JobNames : JobFails(j) \/ Reaped(j)
             \/ \E v \in Migrations \X Disks : Released(v)
             \/ \E o \in Objects : \/ VmiRuns(o) \/ VmiFails(o) \/ DeleteVm(o)
                                   \/ \E on \in BOOLEAN : Operate(o, on)
      PROVE  images' = images
  BY <1>5 DEF Cancel, CleanupVm, CleanupJob, CleanupVolume, CleanupFault, cluster, Redeploy, JobFails,
              Reaped, Released, VmiRuns, VmiFails, DeleteVm, Operate
<1>6. CASE Outside
  BY <1>2, <1>3, <1>5, <1>6, Jobnames DEF Outside, CleanupStep, ClusterNext
<1> QED
  BY <1>4, <1>6, StepKinds, StopsOnly, LooksOnly DEF cluster, vars

(* The histories and the names on the rows only grow.                       *)
LEMMA HistoriesGrow ==
    ASSUME [Next]_vars
    PROVE  /\ outlived \subseteq outlived' /\ misread \subseteq misread' /\ shared \subseteq shared'
           /\ named \subseteq named'
<1> DEFINE Goal == /\ outlived \subseteq outlived' /\ misread \subseteq misread'
                   /\ shared \subseteq shared' /\ named \subseteq named'
<1>1. CASE UNCHANGED <<history, named>>
  BY <1>1 DEF history
<1>2. ASSUME NEW w \in Processes, Looks(w) PROVE Goal
  <2>1. ASSUME NEW m \in Migrations, Receive(w, m) PROVE Goal
    BY <2>1 DEF Receive
  <2>2. CASE RecheckFault(w) \/ WriteName(w)
    BY <2>2 DEF RecheckFault, WriteName, rows, history
  <2>3. CASE \/ ReadNamespace(w) \/ ReadQuota(w) \/ ReadScc(w) \/ AdapterExists(w) \/ Recheck(w)
             \/ Reap(w) \/ Adapted(w) \/ PopulatorExists(w) \/ Populated(w) \/ Reauthenticate(w)
             \/ Redeliver(w) \/ Expire(w)
    BY <1>1, <2>3 DEF ReadNamespace, ReadQuota, ReadScc, AdapterExists, Recheck, Reap, Adapted,
       PopulatorExists, Populated, Reauthenticate, Redeliver, Expire, Steps, rows
  <2> QED
    BY <1>2, <2>1, <2>2, <2>3 DEF Looks
<1>3. ASSUME NEW m \in Migrations, Cancel(m) PROVE Goal
  BY <1>3 DEF Cancel
<1>4. CASE CleanupStep \/ CleanupFault
  BY <1>4 DEF CleanupStep, CleanupVm, CleanupJob, CleanupVolume, CleanupFault, rows, history
<1>5. CASE ClusterNext
  BY <1>1, <1>5 DEF ClusterNext, PodStart, PodSucceeds, JobFails, Reaped, Released, VmiRuns, VmiFails,
     DeleteVm, Operate, Redeploy, rows
<1> QED
  BY <1>1, <1>2, <1>3, <1>4, <1>5, StepKinds, StopsOnly, MakesOnly DEF Outside, vars, rows

LEMMA StatusSteps ==
    ASSUME TypeOK, \A w \in Processes : Founded(w), [Next]_vars, NEW m \in Migrations
    PROVE  \/ status'[m] = status[m]
           \/ status[m] # "cancelled" /\ status'[m] # "cancelled"
           \/ Cancel(m) /\ status'[m] = "cancelled"
           \/ status'[m] # "cancelled" /\ \E w \in Processes : run[w].mig = m
<1> DEFINE Goal == \/ status'[m] = status[m]
                   \/ status[m] # "cancelled" /\ status'[m] # "cancelled"
                   \/ Cancel(m) /\ status'[m] = "cancelled"
                   \/ status'[m] # "cancelled" /\ \E w \in Processes : run[w].mig = m
<1>1. status \in [Migrations -> Statuses]
  BY DEF TypeOK
<1>2. ASSUME NEW w \in Processes, NEW s, s # "cancelled" \/ s = status[Mig(w)],
             status' = [status EXCEPT ![Mig(w)] = s]
      PROVE  Goal
  BY <1>1, <1>2 DEF Mig
<1>3. ASSUME NEW w \in Processes, Stops(w) PROVE Goal
  <2> DEFINE f == IF status[Mig(w)] = "running" THEN "failed" ELSE status[Mig(w)]
  <2>1. \/ status' = status
        \/ status' = [status EXCEPT ![Mig(w)] = f]
        \/ status' = [status EXCEPT ![Mig(w)] = "completed"]
    BY <1>3 DEF Stops, ReapTimeout, RecreateConflict, AdapterFails, PopulatorFails, NameConflict,
       StartMissing, NeverRan, Complete, ApiFault, Crash, Revoked, Fail, rows
  <2>2. f # "cancelled" \/ f = status[Mig(w)]
    OBVIOUS
  <2> QED
    BY <1>2, <2>1, <2>2
<1>4. ASSUME NEW w \in Processes, Looks(w) PROVE Goal
  <2>1. ASSUME NEW n \in Migrations, Receive(w, n) PROVE Goal
    <3>1. CASE status[n] \in {"ready", "running"}
      BY <1>1, <2>1, <3>1 DEF Receive
    <3>2. CASE status[n] \notin {"ready", "running"}
      BY <2>1, <3>2 DEF Receive
    <3> QED
      BY <3>1, <3>2
  <2>2. CASE \/ ReadNamespace(w) \/ ReadQuota(w) \/ ReadScc(w) \/ AdapterExists(w) \/ Recheck(w)
             \/ RecheckFault(w) \/ Reap(w) \/ Adapted(w) \/ WriteName(w) \/ PopulatorExists(w)
             \/ Populated(w) \/ Reauthenticate(w) \/ Redeliver(w) \/ Expire(w)
    BY <2>2 DEF ReadNamespace, ReadQuota, ReadScc, AdapterExists, Recheck, RecheckFault, Reap, Adapted,
       WriteName, PopulatorExists, Populated, Reauthenticate, Redeliver, Expire, Steps, rows
  <2> QED
    BY <1>4, <2>1, <2>2 DEF Looks
<1>5. ASSUME NEW n \in Migrations, Cancel(n) PROVE Goal
  BY <1>1, <1>5 DEF Cancel
<1>6. CASE CleanupStep \/ CleanupFault \/ ClusterNext
  BY <1>6 DEF CleanupStep, CleanupVm, CleanupJob, CleanupVolume, CleanupFault, rows,
     ClusterNext, PodStart, PodSucceeds, JobFails, Reaped, Released, VmiRuns, VmiFails,
     DeleteVm, Operate, Redeploy
<1> QED
  BY <1>3, <1>4, <1>5, <1>6, StepKinds, MakesOnly DEF Outside, vars, rows

(* A request goes on with the migration it was made for.                    *)
LEMMA RequestFollows ==
    ASSUME TypeOK, Placed, [Next]_vars, request'.at # "idle"
    PROVE  \/ request.at # "idle" /\ request'.mig = request.mig
           \/ Cancel(request'.mig) /\ request'.mig \in Migrations
<1> DEFINE Goal == \/ request.at # "idle" /\ request'.mig = request.mig
                   \/ Cancel(request'.mig) /\ request'.mig \in Migrations
<1>0. request \in Ask
  BY DEF TypeOK, Ask
<1>1. CASE request' = request
  BY <1>1
<1>2. ASSUME NEW m \in Migrations, Cancel(m) PROVE Goal
  BY <1>2 DEF Cancel, NoRequest
<1>3. ASSUME NEW clean \in BOOLEAN, NextDisk(clean), request.at # "idle" PROVE Goal
  <2>1. CASE request.disk = Last
    BY <1>3, <2>1 DEF NextDisk, NoRequest
  <2>2. CASE request.disk # Last
    BY <1>0, <1>3, <2>2 DEF NextDisk, Ask
  <2> QED
    BY <2>1, <2>2
<1>4. CASE CleanupVm \/ CleanupJob
  BY <1>0, <1>4 DEF CleanupVm, CleanupJob, Then, Ask
<1>5. CASE CleanupVolume
  BY <1>0, <1>3, <1>5 DEF CleanupVolume, Ask
<1>6. CASE CleanupFault
  <2>1. CASE request.at = "volume"
    BY <1>3, <1>6, <2>1 DEF CleanupFault
  <2>2. CASE request.at # "volume"
    <3>1. PICK stage \in {"job", "volume"} : request' = [request EXCEPT !.clean = FALSE, !.at = stage]
      BY <1>6, <2>2 DEF CleanupFault
    <3> QED
      BY <1>0, <1>6, <3>1 DEF Ask, CleanupFault
  <2> QED
    BY <2>1, <2>2
<1>7. ASSUME ClusterNext PROVE request' = request
  BY <1>7 DEF ClusterNext, PodStart, PodSucceeds, JobFails, Reaped, Released, VmiRuns, VmiFails,
     DeleteVm, Operate, Redeploy
<1>8. CASE Outside
  BY <1>1, <1>2, <1>4, <1>5, <1>6, <1>7, <1>8 DEF Outside, CleanupStep
<1> QED
  BY <1>1, <1>8, StepKinds, StopsOnly, LooksOnly, MakesOnly DEF vars

-----------------------------------------------------------------------------
(* Who has which migration.                                                 *)
LEMMA HolderBefore ==
    ASSUME TypeOK, [Next]_vars, NEW w \in Processes, NEW m \in Migrations, run'[w].mig = m
    PROVE  run[w].mig = m \/ Takes(w, m)
<1>1. m # None
  BY ClusterAssumption
<1>2. ASSUME NEW n \in Migrations, Takes(w, n) PROVE Takes(w, m)
  <2>1. run'[w].mig = n
    BY <1>2 DEF Takes, Idle
  <2> QED
    BY <1>2, <2>1
<1> QED
  BY <1>1, <1>2, RunSteps DEF RunMoves, Onward, Idle

LEMMA CancelledStays ==
    ASSUME TypeOK, \A w \in Processes : Founded(w), Held, [Next]_vars,
           NEW m \in Migrations, m \notin outlived', status[m] = "cancelled"
    PROVE  status'[m] = "cancelled"
<1>1. m \notin outlived
  BY HistoriesGrow
<1>2. ~ \E w \in Processes : run[w].mig = m
  BY <1>1 DEF Held
<1> QED
  BY <1>2, StatusSteps

LEMMA HeldStep ==
    ASSUME TypeOK, Placed, \A w \in Processes : Founded(w), Held, [Next]_vars
    PROVE  Held'
<1>1. ASSUME NEW w \in Processes, run'[w].at = "idle" PROVE run'[w].mig = None
  <2>1. ASSUME NEW m \in Migrations, Takes(w, m) PROVE FALSE
    BY <1>1, <2>1 DEF Takes, Idle
  <2>2. CASE run'[w] = run[w]
    BY <1>1, <2>2 DEF Held
  <2>3. CASE run'[w] = Idle
    BY <2>3 DEF Idle
  <2> QED
    BY <1>1, <2>1, <2>2, <2>3, RunSteps DEF RunMoves, Onward
<1>2. ASSUME NEW m \in Migrations \ shared', NEW u \in Processes, NEW w \in Processes,
             run'[u].mig = m, run'[w].mig = m
      PROVE  u = w
  <2>1. m \notin shared
    BY HistoriesGrow
  <2>2. ASSUME NEW x \in Processes, NEW y \in Processes, x # y, Takes(x, m), run'[y].mig = m
        PROVE  FALSE
    <3>1. run[y].mig = m
      BY <2>2 DEF Takes
    <3> QED
      BY <2>2, <3>1 DEF Takes, Holders
  <2>3. CASE Takes(u, m) \/ Takes(w, m)
    BY <1>2, <2>2, <2>3
  <2>4. CASE run[u].mig = m /\ run[w].mig = m
    BY <2>1, <2>4 DEF Held
  <2> QED
    BY <1>2, <2>3, <2>4, HolderBefore
<1>3. ASSUME NEW m \in Migrations \ outlived', NEW w \in Processes, status'[m] = "cancelled",
             run'[w].mig = m
      PROVE  FALSE
  <2>1. m \notin outlived
    BY HistoriesGrow
  <2>2. CASE status[m] = "cancelled"
    <3>1. run[w].mig # m
      BY <2>1, <2>2 DEF Held
    <3> QED
      BY <1>3, <2>2, <3>1, HolderBefore DEF Takes
  <2>3. CASE Cancel(m)
    <3>1. run' = run /\ (Holders(m) # {} => m \in outlived')
      BY <2>3 DEF Cancel
    <3> QED
      BY <1>3, <3>1 DEF Holders
  <2> QED
    BY <1>3, <2>2, <2>3, StatusSteps
<1>4. ASSUME request'.at # "idle", request'.mig \notin outlived'
      PROVE  status'[request'.mig] = "cancelled"
  <2>1. CASE request.at # "idle" /\ request'.mig = request.mig
    <3>1. request.mig \in Migrations /\ request.mig \notin outlived
      BY <1>4, <2>1, HistoriesGrow DEF Placed
    <3>2. status[request.mig] = "cancelled"
      BY <2>1, <3>1 DEF Held
    <3> QED
      BY <1>4, <2>1, <3>1, <3>2, CancelledStays
  <2>2. CASE Cancel(request'.mig) /\ request'.mig \in Migrations
    BY <2>2 DEF Cancel, TypeOK
  <2> QED
    BY <1>4, <2>1, <2>2, RequestFollows
<1> QED
  BY <1>1, <1>2, <1>3, <1>4 DEF Held

-----------------------------------------------------------------------------
(* Who does what to the Job of a name.                                      *)
Becoming(j, phase, started, going) ==
    jobs'[j].phase = phase /\ jobs'[j].started = started /\ jobs'[j].going = going

(* What happens to a Job whoever it belongs to.                             *)
JobRuns(j) ==
    \/ jobs'[j] = jobs[j]
    \/ /\ PodStart(j) /\ jobs[j].phase = "active" /\ ~jobs[j].started /\ ~jobs[j].going
       /\ Becoming(j, "active", TRUE, FALSE)
    \/ /\ PodSucceeds(j) /\ jobs[j].phase = "active" /\ jobs[j].started /\ ~jobs[j].going
       /\ Becoming(j, "succeeded", TRUE, FALSE)
    \/ jobs[j].phase = "active" /\ ~jobs[j].going /\ Becoming(j, "failed", jobs[j].started, FALSE)
    \/ jobs[j].going /\ jobs'[j] = NoJob

AdapterMoves(m) ==
    LET j == Adapter(m) IN
    \/ JobRuns(j)
    \/ /\ \E w \in Processes : run[w].mig = m /\ run[w].at \in {"adapt", "recreate"}
       /\ jobs[j].phase = "none" /\ Becoming(j, "active", FALSE, FALSE)
    \/ /\ \E w \in Processes : run[w].mig = m /\ run[w].at = "delete"
       /\ jobs[j].phase # "none" /\ Becoming(j, jobs[j].phase, jobs[j].started, TRUE)

PopulatorMoves(m, d) ==
    LET j == Populator(m, d) IN
    \/ JobRuns(j)
    \/ /\ \E w \in Processes : run[w].mig = m /\ run[w].at = "populate"
       /\ jobs[j].phase = "none" /\ Becoming(j, "active", FALSE, FALSE)
    \/ /\ CleanupJob /\ request.mig = m /\ request.disk = d
       /\ jobs[j].phase # "none" /\ Becoming(j, jobs[j].phase, jobs[j].started, TRUE)

LEMMA JobSteps ==
    ASSUME TypeOK, NEW j \in JobNames, JobMoves(j)
    PROVE  \/ JobRuns(j)
           \/ /\ jobs[j].phase = "none" /\ Becoming(j, "active", FALSE, FALSE)
              /\ \E w \in Processes : Appears(w, j)
           \/ /\ jobs[j].phase # "none" /\ Becoming(j, jobs[j].phase, jobs[j].started, TRUE)
              /\ \/ \E w \in Processes : DeleteStale(w) /\ j = AdaptJob(w)
                 \/ CleanupJob /\ j = <<"populate", request.mig, request.disk>>
<1>1. jobs[j] \in Job
  BY DEF TypeOK
<1>2. CASE jobs'[j] = jobs[j] /\ pods'[j] = pods[j]
  BY <1>2 DEF JobRuns
<1>3. CASE Made(j)
  <2>1. PICK w \in Processes : Appears(w, j) /\ jobs'[j] = NewJobAt(w, j)
    BY <1>3 DEF Made
  <2>2. Becoming(j, "active", FALSE, FALSE)
    BY <2>1 DEF NewJobAt, NoJob, Becoming
  <2> QED
    BY <1>3, <2>1, <2>2 DEF Made
<1>4. CASE Doomed(j)
  <2>1. Becoming(j, jobs[j].phase, jobs[j].started, TRUE)
    BY <1>1, <1>4 DEF Doomed, Becoming, Job
  <2> QED
    BY <1>4, <2>1 DEF Doomed
<1>5. CASE Started(j)
  <2>1. Becoming(j, "active", TRUE, FALSE)
    BY <1>1, <1>5 DEF Started, Becoming, Job
  <2> QED
    BY <1>5, <2>1 DEF Started, JobRuns
<1>6. CASE Finished(j)
  <2>1. Becoming(j, "succeeded", TRUE, FALSE)
    BY <1>1, <1>6 DEF Finished, Becoming, Job
  <2> QED
    BY <1>6, <2>1 DEF Finished, JobRuns
<1>7. CASE Broken(j)
  <2>1. Becoming(j, "failed", jobs[j].started, FALSE)
    BY <1>1, <1>7 DEF Broken, Becoming, Job
  <2> QED
    BY <1>7, <2>1 DEF Broken, JobRuns
<1>8. CASE Gone(j)
  BY <1>8 DEF Gone, JobRuns
<1> QED
  BY <1>2, <1>3, <1>4, <1>5, <1>6, <1>7, <1>8 DEF JobMoves

LEMMA AdapterSteps ==
    ASSUME TypeOK, Placed, \A w \in Processes : Founded(w), [Next]_vars, NEW m \in Migrations
    PROVE  AdapterMoves(m)
<1> DEFINE j == Adapter(m)
<1>1. j \in JobNames /\ JobMoves(j)
  BY Jobnames, JobsStep
<1>2. ASSUME NEW w \in Processes, Appears(w, j)
      PROVE  run[w].mig = m /\ run[w].at \in {"adapt", "recreate"}
  BY <1>2 DEF Appears, AdaptJob, PopulateJob, Adapter, Mig, SubmitAdapter, Recreate, At
<1>3. ASSUME NEW w \in Processes, DeleteStale(w), j = AdaptJob(w)
      PROVE  run[w].mig = m /\ run[w].at = "delete"
  BY <1>3 DEF AdaptJob, Adapter, Mig, DeleteStale, At
<1>4. j # <<"populate", request.mig, request.disk>>
  BY DEF Adapter
<1> HIDE DEF j
<1>5. \/ JobRuns(j)
      \/ /\ \E w \in Processes : run[w].mig = m /\ run[w].at \in {"adapt", "recreate"}
         /\ jobs[j].phase = "none" /\ Becoming(j, "active", FALSE, FALSE)
      \/ /\ \E w \in Processes : run[w].mig = m /\ run[w].at = "delete"
         /\ jobs[j].phase # "none" /\ Becoming(j, jobs[j].phase, jobs[j].started, TRUE)
  BY <1>1, <1>2, <1>3, <1>4, JobSteps
<1> QED
  BY <1>5 DEF AdapterMoves, j

LEMMA PopulatorSteps ==
    ASSUME TypeOK, Placed, \A w \in Processes : Founded(w), [Next]_vars,
           NEW m \in Migrations, NEW d \in Disks
    PROVE  PopulatorMoves(m, d)
<1> DEFINE j == Populator(m, d)
<1>1. j \in JobNames /\ JobMoves(j)
  BY Jobnames, JobsStep
<1>2. ASSUME NEW w \in Processes, Appears(w, j)
      PROVE  run[w].mig = m /\ run[w].at = "populate"
  BY <1>2 DEF Appears, AdaptJob, PopulateJob, Populator, Mig, SubmitPopulator, At
<1>3. ASSUME NEW w \in Processes PROVE j # AdaptJob(w)
  BY DEF AdaptJob, Populator
<1>4. j = <<"populate", request.mig, request.disk>> => request.mig = m /\ request.disk = d
  BY DEF Populator
<1> HIDE DEF j
<1>5. \/ JobRuns(j)
      \/ /\ \E w \in Processes : run[w].mig = m /\ run[w].at = "populate"
         /\ jobs[j].phase = "none" /\ Becoming(j, "active", FALSE, FALSE)
      \/ /\ CleanupJob /\ request.mig = m /\ request.disk = d
         /\ jobs[j].phase # "none" /\ Becoming(j, jobs[j].phase, jobs[j].started, TRUE)
  BY <1>1, <1>2, <1>3, <1>4, JobSteps
<1> QED
  BY <1>5 DEF PopulatorMoves, j

(* A teardown works on a migration that is cancelled.                       *)
LEMMA TearsDown ==
    ASSUME Held, Placed, CleanupJob \/ CleanupVolume \/ CleanupVm, request.mig \notin outlived
    PROVE  status[request.mig] = "cancelled" /\ request.mig \in Migrations
BY DEF Held, Placed, CleanupJob, CleanupVolume, CleanupVm

LEMMA UntouchedStep ==
    ASSUME TypeOK, Placed, \A w \in Processes : Founded(w), Held, Untouched, [Next]_vars
    PROVE  Untouched'
<1> SUFFICES ASSUME NEW m \in Migrations \ outlived', NEW d \in Disks, status'[m] # "cancelled"
             PROVE  ~jobs'[Populator(m, d)].going /\ ~volumes'[<<m, d>>].going
  BY DEF Untouched, Populator
<1>1. m \notin outlived /\ status[m] # "cancelled"
  BY HistoriesGrow, CancelledStays
<1>2. ~jobs[Populator(m, d)].going /\ ~volumes[<<m, d>>].going
  BY <1>1 DEF Untouched
<1>3. ~jobs'[Populator(m, d)].going
  <2>1. PopulatorMoves(m, d)
    BY PopulatorSteps
  <2>2. ~(CleanupJob /\ request.mig = m)
    BY <1>1, TearsDown
  <2> QED
    BY <1>2, <2>1, <2>2 DEF PopulatorMoves, JobRuns, Becoming
<1>4. ~volumes'[<<m, d>>].going
  <2>1. VolumeMoves(m, d)
    BY VolumeSteps
  <2>2. ~(CleanupVolume /\ request.mig = m)
    BY <1>1, TearsDown
  <2>3. volumes[<<m, d>>] \in Volume
    BY DEF TypeOK
  <2>4. ASSUME NEW c, Puts(m, d, c) PROVE volumes'[<<m, d>>].going = volumes[<<m, d>>].going
    BY <2>3, <2>4 DEF Puts, Volume
  <2> QED
    BY <1>2, <2>1, <2>2, <2>4 DEF VolumeMoves
<1> QED
  BY <1>3, <1>4

-----------------------------------------------------------------------------
(* An image that is edited stays so, and so does a disk that is copied.     *)
LEMMA AloneBefore ==
    ASSUME [Next]_vars
    PROVE  Alone' \subseteq Alone /\ Undisturbed' \subseteq Undisturbed
BY HistoriesGrow DEF Alone, Undisturbed

LEMMA AdapterStays ==
    ASSUME TypeOK, Placed, \A w \in Processes : Founded(w), \A w \in Processes : Behind(w), Edited,
           [Next]_vars, NEW m \in Alone, jobs[Adapter(m)].phase = "succeeded"
    PROVE  jobs'[Adapter(m)] = jobs[Adapter(m)]
<1>1. AdapterMoves(m) /\ m \in Migrations
  BY AdapterSteps DEF Alone
<1>2. ~jobs[Adapter(m)].going
  BY DEF Edited
<1>3. ASSUME NEW w \in Processes, run[w].mig = m, run[w].at = "delete" PROVE FALSE
  <2>1. AdaptJob(w) = Adapter(m)
    BY <1>3 DEF AdaptJob, Adapter, Mig
  <2> QED
    BY <1>3, <2>1 DEF Behind
<1> QED
  BY <1>1, <1>2, <1>3 DEF AdapterMoves, JobRuns

LEMMA CopiedStays ==
    ASSUME TypeOK, Placed, \A w \in Processes : Founded(w), Held, Untouched, [Next]_vars,
           NEW m \in Migrations \ outlived, NEW d \in Disks, status[m] # "cancelled", Copied(m, d)
    PROVE  jobs'[Populator(m, d)] = jobs[Populator(m, d)]
<1>1. PopulatorMoves(m, d) /\ ~jobs[Populator(m, d)].going
  BY PopulatorSteps DEF Untouched
<1>2. ~(CleanupJob /\ request.mig = m)
  BY TearsDown
<1> QED
  BY <1>1, <1>2 DEF PopulatorMoves, JobRuns, Copied

LEMMA BehindStep ==
    ASSUME TypeOK, Placed, \A w \in Processes : Founded(w), Held, Untouched,
           \A w \in Processes : Behind(w), Edited, [Next]_vars, NEW w \in Processes
    PROVE  Behind(w)'
<1>1. run[w] \in RunRec /\ RunMoves(w)
  BY RunSteps DEF TypeOK, RunRec
<1>2. named \subseteq named' /\ Alone' \subseteq Alone /\ Undisturbed' \subseteq Undisturbed
  BY HistoriesGrow, AloneBefore
<1>3. ASSUME NEW m \in Migrations, Takes(w, m)
      PROVE  run'[w].at = "namespace" /\ run'[w].again = FALSE
  BY <1>3 DEF Takes, Idle
<1>4. run'[w] = Idle => run'[w].at = "idle" /\ run'[w].again = FALSE
  BY DEF Idle
<1>5. ASSUME run'[w].at \in {"name"} \cup CopyStages \cup LastStages PROVE run'[w].again
  <2>1. CASE run'[w] = run[w]
    BY <1>5, <2>1 DEF Behind
  <2>2. CASE Onward(w)
    <3>1. CASE Prepares(w) \/ Discards(w) \/ Adapts(w)
      BY <1>5, <3>1 DEF Prepares, Discards, Adapts, SetupStages, CopyStages, LastStages
    <3>2. CASE Resolves(w)
      BY <3>2 DEF Resolves
    <3>3. CASE Labels(w) \/ Advances(w) \/ Proceeds(w)
      BY <3>3 DEF Labels, Advances, Proceeds, CopyStages, LastStages, Behind
    <3> QED
      BY <2>2, <3>1, <3>2, <3>3 DEF Onward
  <2> QED
    BY <1>1, <1>3, <1>4, <1>5, <2>1, <2>2 DEF RunMoves, CopyStages, LastStages
<1>6. ASSUME run'[w].at \in CopyStages \cup LastStages PROVE run'[w].mig \in named'
  <2>1. CASE run'[w] = run[w]
    BY <1>2, <1>6, <2>1 DEF Behind
  <2>2. CASE Onward(w)
    <3>1. CASE Prepares(w) \/ Discards(w) \/ Adapts(w) \/ Resolves(w)
      BY <1>6, <3>1 DEF Prepares, Discards, Adapts, Resolves, SetupStages, CopyStages, LastStages
    <3>2. CASE Labels(w)
      BY <2>2, <3>2 DEF Onward, Labels, Mig
    <3>3. CASE Advances(w) \/ Proceeds(w)
      BY <1>2, <2>2, <3>3 DEF Onward, Advances, Proceeds, CopyStages, LastStages, Behind
    <3> QED
      BY <2>2, <3>1, <3>2, <3>3 DEF Onward
  <2> QED
    BY <1>1, <1>3, <1>4, <1>6, <2>1, <2>2 DEF RunMoves, CopyStages, LastStages
<1>7. ASSUME run'[w].mig \in Alone', run'[w].at = "delete"
      PROVE  jobs'[AdaptJob(w)'].phase \in {"none", "failed"}
  <2> DEFINE m == run'[w].mig
  <2>1. m \in Alone /\ m \in Migrations /\ m \notin misread'
    BY <1>2, <1>7 DEF Alone
  <2>2. AdaptJob(w)' = Adapter(m)
    BY DEF AdaptJob, Adapter, Mig
  <2>3. CASE run'[w] = run[w]
    <3>1. run[w].mig = m /\ run[w].at = "delete" /\ AdaptJob(w) = Adapter(m)
      BY <1>7, <2>3 DEF AdaptJob, Adapter, Mig
    <3>2. jobs[Adapter(m)].phase \in {"none", "failed"}
      BY <2>1, <3>1 DEF Behind
    <3>3. ASSUME NEW u \in Processes, run[u].mig = m PROVE run[u].at = "delete"
      BY <2>1, <3>1, <3>3 DEF Held, Alone
    <3>4. AdapterMoves(m)
      BY <2>1, AdapterSteps
    <3>5. jobs'[Adapter(m)].phase \in {"none", "failed"}
      BY <3>2, <3>3, <3>4 DEF AdapterMoves, JobRuns, Becoming, NoJob
    <3> QED
      BY <2>2, <3>5
  <2>4. CASE Onward(w)
    <3>1. Discards(w)
      BY <1>7, <2>4 DEF Onward, Prepares, Adapts, Resolves, Labels, Advances, Proceeds, SetupStages,
                        CopyStages, LastStages
    <3>2. run[w].mig = m
      BY <2>4 DEF Onward
    <3>3. AdaptJob(w) = Adapter(m) /\ Mig(w) = m
      BY <3>2 DEF AdaptJob, Adapter, Mig
    <3>4. jobs[Adapter(m)].phase \in {"none", "active", "succeeded", "failed"}
      BY <2>1, Jobnames DEF TypeOK, Job
    <3>5. jobs'[Adapter(m)].phase \in {"none", "failed"}
      BY <2>1, <3>1, <3>3, <3>4 DEF Discards
    <3> QED
      BY <2>2, <3>5
  <2> QED
    BY <1>1, <1>3, <1>4, <1>7, <2>3, <2>4 DEF RunMoves
<1>8. ASSUME run'[w].mig \in Alone', run'[w].again
      PROVE  jobs'[AdaptJob(w)'].phase = "succeeded"
  <2> DEFINE m == run'[w].mig
  <2>1. m \in Alone
    BY <1>2, <1>8
  <2>2. AdaptJob(w)' = Adapter(m)
    BY DEF AdaptJob, Adapter, Mig
  <2>3. run[w].mig = m
    BY <1>1, <1>3, <1>4, <1>8 DEF RunMoves, Onward
  <2>4. AdaptJob(w) = Adapter(m)
    BY <2>3 DEF AdaptJob, Adapter, Mig
  <2>5. CASE run[w].again
    <3>1. jobs[Adapter(m)].phase = "succeeded"
      BY <2>1, <2>3, <2>4, <2>5 DEF Behind
    <3>2. jobs'[Adapter(m)] = jobs[Adapter(m)]
      BY <2>1, <3>1, AdapterStays
    <3> QED
      BY <2>2, <3>1, <3>2
  <2>6. CASE ~run[w].again
    <3>1. Onward(w)
      BY <1>1, <1>3, <1>4, <1>8, <2>6 DEF RunMoves
    <3>2. Adapts(w)
      BY <1>8, <2>6, <3>1 DEF Onward, Prepares, Discards, Resolves, Labels, Advances, Proceeds
    <3> QED
      BY <2>2, <2>4, <3>2 DEF Adapts, Succeeded
  <2> QED
    BY <2>5, <2>6
<1>9. ASSUME run'[w].mig \in Undisturbed', run'[w].at \in CopyStages \cup LastStages
      PROVE  /\ run'[w].mig \in Migrations \ outlived /\ run[w].mig = run'[w].mig
             /\ status[run'[w].mig] # "cancelled"
             /\ run'[w].mig \in Undisturbed
  <2>1. run[w].mig = run'[w].mig
    BY <1>1, <1>3, <1>4, <1>9 DEF RunMoves, Onward, CopyStages, LastStages
  <2> QED
    BY <1>2, <1>9, <2>1 DEF Undisturbed, Alone, Held
<1>10. ASSUME run'[w].mig \in Undisturbed', run'[w].at \in CopyStages, NEW d \in Disks,
              d < run'[w].disk
       PROVE  jobs'[Populator(run'[w].mig, d)].phase = "succeeded"
  <2> DEFINE m == run'[w].mig
  <2>1. /\ m \in Migrations \ outlived /\ run[w].mig = m /\ status[m] # "cancelled"
        /\ m \in Undisturbed
    BY <1>9, <1>10
  <2>2. CASE Copied(m, d)
    BY <2>1, <2>2, CopiedStays DEF Copied
  <2>3. CASE run'[w] = run[w]
    BY <1>10, <2>1, <2>2, <2>3 DEF Behind
  <2>4. CASE Onward(w)
    <3>1. CASE Labels(w)
      BY <1>10, <3>1, ClusterAssumption DEF Labels, Disks
    <3>2. CASE Advances(w)
      <4>1. run[w].at = "copying" /\ run'[w].disk = run[w].disk + 1 /\ Succeeded(PopulateJob(w))
        BY <1>10, <3>2 DEF Advances, CopyStages
      <4>2. d < run[w].disk \/ d = run[w].disk
        BY <1>1, <1>10, <4>1, ClusterAssumption DEF RunRec, Disks
      <4>3. CASE d = run[w].disk
        BY <2>1, <2>2, <4>1, <4>3 DEF Succeeded, PopulateJob, Copied, Populator, Mig
      <4>4. CASE d < run[w].disk
        BY <2>1, <2>2, <4>1, <4>4 DEF Behind, CopyStages
      <4> QED
        BY <4>2, <4>3, <4>4
    <3>3. CASE Proceeds(w)
      BY <1>10, <2>1, <2>2, <3>3 DEF Proceeds, Behind, CopyStages, LastStages
    <3>4. CASE Prepares(w) \/ Discards(w) \/ Adapts(w) \/ Resolves(w)
      BY <1>10, <3>4 DEF Prepares, Discards, Adapts, Resolves, SetupStages, CopyStages
    <3> QED
      BY <2>4, <3>1, <3>2, <3>3, <3>4 DEF Onward
  <2> QED
    BY <1>1, <1>3, <1>4, <1>10, <2>3, <2>4 DEF RunMoves, CopyStages
<1>11. ASSUME run'[w].mig \in Undisturbed', run'[w].at \in LastStages, NEW d \in Disks
       PROVE  jobs'[Populator(run'[w].mig, d)].phase = "succeeded"
  <2> DEFINE m == run'[w].mig
  <2>1. /\ m \in Migrations \ outlived /\ run[w].mig = m /\ status[m] # "cancelled"
        /\ m \in Undisturbed
    BY <1>9, <1>11
  <2>2. CASE Copied(m, d)
    BY <2>1, <2>2, CopiedStays DEF Copied
  <2>3. CASE run'[w] = run[w]
    BY <1>11, <2>1, <2>2, <2>3 DEF Behind
  <2>4. CASE Onward(w)
    <3>1. CASE Advances(w)
      <4>1. run[w].at = "copying" /\ run[w].disk = Last /\ Succeeded(PopulateJob(w))
        BY <1>11, <3>1 DEF Advances, LastStages
      <4>2. d < run[w].disk \/ d = run[w].disk
        BY <4>1, ClusterAssumption DEF Disks
      <4>3. CASE d = run[w].disk
        BY <2>1, <2>2, <4>1, <4>3 DEF Succeeded, PopulateJob, Copied, Populator, Mig
      <4>4. CASE d < run[w].disk
        BY <2>1, <2>2, <4>1, <4>4 DEF Behind, CopyStages
      <4> QED
        BY <4>2, <4>3, <4>4
    <3>2. CASE Proceeds(w)
      BY <1>11, <2>1, <2>2, <3>2 DEF Proceeds, Behind, CopyStages, LastStages
    <3>3. CASE Prepares(w) \/ Discards(w) \/ Adapts(w) \/ Resolves(w) \/ Labels(w)
      BY <1>11, <3>3 DEF Prepares, Discards, Adapts, Resolves, Labels, SetupStages, LastStages
    <3> QED
      BY <2>4, <3>1, <3>2, <3>3 DEF Onward
  <2> QED
    BY <1>1, <1>3, <1>4, <1>11, <2>3, <2>4 DEF RunMoves, LastStages
<1> QED
  BY <1>5, <1>6, <1>7, <1>8, <1>10, <1>11 DEF Behind, Copied, Populator

LEMMA EditedStep ==
    ASSUME TypeOK, Placed, \A w \in Processes : Founded(w), \A w \in Processes : Behind(w), Edited,
           [Next]_vars
    PROVE  Edited'
<1>1. ASSUME NEW m \in Migrations, jobs'[Adapter(m)].phase = "succeeded"
      PROVE  images'[m] = "fixed"
  <2>1. CASE PodSucceeds(Adapter(m))
    <3>1. images' = [images EXCEPT ![m] = "fixed"]
      BY <2>1 DEF PodSucceeds, Adapter
    <3> QED
      BY <3>1 DEF TypeOK
  <2>2. CASE ~PodSucceeds(Adapter(m))
    <3>0. AdapterMoves(m)
      BY AdapterSteps
    <3>1. jobs[Adapter(m)].phase = "succeeded"
      BY <1>1, <2>2, <3>0 DEF AdapterMoves, JobRuns, Becoming, NoJob
    <3> QED
      BY <2>2, <3>1, ImageSteps DEF Edited
  <2> QED
    BY <2>1, <2>2
<1>2. ASSUME NEW m \in Alone', jobs'[Adapter(m)].going
      PROVE  jobs'[Adapter(m)].phase = "failed"
  <2>1. m \in Alone /\ m \in Migrations
    BY AloneBefore DEF Alone
  <2>2. ASSUME NEW w \in Processes, run[w].mig = m, run[w].at = "delete"
        PROVE  jobs[Adapter(m)].phase \in {"none", "failed"}
    <3>1. AdaptJob(w) = Adapter(m)
      BY <2>2 DEF AdaptJob, Adapter, Mig
    <3> QED
      BY <2>1, <2>2, <3>1 DEF Behind
  <2>3. AdapterMoves(m)
    BY <2>1, AdapterSteps
  <2> QED
    BY <1>2, <2>1, <2>2, <2>3 DEF AdapterMoves, JobRuns, Becoming, NoJob, Edited
<1>3. ASSUME NEW m \in Alone', NEW d \in Disks, jobs'[Populator(m, d)].phase # "none"
      PROVE  jobs'[Adapter(m)].phase = "succeeded"
  <2>1. m \in Alone /\ m \in Migrations
    BY AloneBefore DEF Alone
  <2>2. CASE jobs[Adapter(m)].phase = "succeeded"
    BY <2>1, <2>2, AdapterStays
  <2>3. CASE jobs[Populator(m, d)].phase # "none"
    BY <2>1, <2>2, <2>3 DEF Edited
  <2>4. CASE jobs[Populator(m, d)].phase = "none"
    <3>0. PopulatorMoves(m, d)
      BY <2>1, PopulatorSteps
    <3>1. PICK w \in Processes : run[w].mig = m /\ run[w].at = "populate"
      BY <1>3, <2>4, <3>0 DEF PopulatorMoves, JobRuns, Becoming, NoJob
    <3>2. AdaptJob(w) = Adapter(m) /\ run[w].again
      BY <3>1 DEF AdaptJob, Adapter, Mig, Behind, CopyStages
    <3> QED
      BY <2>1, <2>2, <3>1, <3>2 DEF Behind
  <2> QED
    BY <2>3, <2>4
<1> QED
  BY <1>1, <1>2, <1>3 DEF Edited, Adapter, Populator

-----------------------------------------------------------------------------
(* What a volume holds.                                                     *)
LEMMA PodWrites ==
    ASSUME TypeOK, NEW m \in Migrations, NEW d \in Disks
    PROVE  /\ PodStart(Populator(m, d)) =>
                  /\ jobs[Populator(m, d)].phase = "active"
                  /\ jobs'[Populator(m, d)].phase = "active"
                  /\ Puts(m, d, IF d = BootDisk /\ images[m] # "fixed" THEN "spoilt" ELSE "partial")
           /\ PodSucceeds(Populator(m, d)) =>
                  /\ jobs[Populator(m, d)].phase = "active" /\ jobs[Populator(m, d)].started
                  /\ jobs'[Populator(m, d)].phase = "succeeded"
                  /\ Puts(m, d, IF volumes[<<m, d>>].content = "partial" THEN "whole"
                                ELSE volumes[<<m, d>>].content)
<1> DEFINE j == Populator(m, d)
<1>1. j \in JobNames /\ j[1] = "populate" /\ j[1] # "adapt" /\ j[2] = m /\ j[3] = d
  BY Jobnames DEF Populator
<1>2. jobs[j] \in Job /\ jobs \in [JobNames -> Job] /\ volumes \in [Migrations \X Disks -> Volume]
  BY <1>1 DEF TypeOK
<1> HIDE DEF j
<1>3. ASSUME PodStart(j)
      PROVE  /\ jobs[j].phase = "active" /\ jobs'[j].phase = "active"
             /\ Puts(m, d, IF d = BootDisk /\ images[m] # "fixed" THEN "spoilt" ELSE "partial")
  <2>1. jobs' = [jobs EXCEPT ![j] = [jobs[j] EXCEPT !.started = TRUE]] /\ jobs[j].phase = "active"
    BY <1>3 DEF PodStart
  <2>2. volumes' = [volumes EXCEPT ![<<m, d>>] = [volumes[<<m, d>>] EXCEPT !.content =
            IF d = BootDisk /\ images[m] # "fixed" THEN "spoilt" ELSE "partial"]]
    BY <1>1, <1>3 DEF PodStart
  <2>3. jobs'[j].phase = "active"
    BY <1>1, <1>2, <2>1 DEF Job
  <2> QED
    BY <1>2, <2>1, <2>2, <2>3 DEF Puts
<1>4. ASSUME PodSucceeds(j)
      PROVE  /\ jobs[j].phase = "active" /\ jobs[j].started /\ jobs'[j].phase = "succeeded"
             /\ Puts(m, d, IF volumes[<<m, d>>].content = "partial" THEN "whole"
                           ELSE volumes[<<m, d>>].content)
  <2>1. /\ jobs' = [jobs EXCEPT ![j] = [jobs[j] EXCEPT !.phase = "succeeded"]]
        /\ jobs[j].phase = "active" /\ jobs[j].started
    BY <1>4 DEF PodSucceeds
  <2>2. volumes' = [volumes EXCEPT ![<<m, d>>] = [volumes[<<m, d>>] EXCEPT !.content =
            IF volumes[<<m, d>>].content = "partial" THEN "whole" ELSE volumes[<<m, d>>].content]]
    BY <1>1, <1>4 DEF PodSucceeds
  <2>3. jobs'[j].phase = "succeeded"
    BY <1>1, <1>2, <2>1 DEF Job
  <2> QED
    BY <1>2, <2>1, <2>2, <2>3 DEF Puts
<1> QED
  BY <1>3, <1>4 DEF j

LEMMA PutsContent ==
    ASSUME TypeOK, NEW m \in Migrations, NEW d \in Disks, NEW c, Puts(m, d, c)
    PROVE  volumes'[<<m, d>>].content = c
<1>1. volumes[<<m, d>>] \in Volume
  BY DEF TypeOK
<1> QED
  BY <1>1 DEF Puts, Volume

(* The volume of an undisturbed migration changes with its populator's pod, *)
(* or when a teardown takes what nobody has mounted.                        *)
LEMMA ContentSteps ==
    ASSUME TypeOK, Placed, \A w \in Processes : Founded(w), Held, Untouched, [Next]_vars,
           NEW m \in Undisturbed, NEW d \in Disks,
           ~PodStart(Populator(m, d)), ~PodSucceeds(Populator(m, d))
    PROVE  \/ volumes'[<<m, d>>].content = volumes[<<m, d>>].content
           \/ volumes[<<m, d>>].content = "none" /\ status[m] # "cancelled"
           \/ /\ volumes'[<<m, d>>].content = "none" /\ ~Mounted(<<m, d>>)
              /\ status[m] = "cancelled"
           \/ volumes[<<m, d>>].content = "partial" /\ jobs[Adapter(m)].phase = "active"
<1>1. m \in Migrations \ outlived
  BY DEF Undisturbed, Alone
<1>2. VolumeMoves(m, d) /\ volumes[<<m, d>>] \in Volume
  BY <1>1, VolumeSteps DEF TypeOK
<1>3. ASSUME NEW w \in Processes, run[w].mig = m PROVE status[m] # "cancelled"
  BY <1>1, <1>3 DEF Held
<1>4. CleanupVolume /\ request.mig = m => status[m] = "cancelled"
  BY <1>1, TearsDown
<1>5. volumes[<<m, d>>].going => status[m] = "cancelled"
  BY <1>1 DEF Untouched
<1>6. NoVolume.content = "none"
  BY DEF NoVolume
<1>7. [volumes[<<m, d>>] EXCEPT !.going = TRUE].content = volumes[<<m, d>>].content
  BY <1>2 DEF Volume
<1>8. CASE /\ CleanupVolume /\ request.mig = m /\ request.disk = d
           /\ IF Mounted(<<m, d>>) THEN volumes'[<<m, d>>] = [volumes[<<m, d>>] EXCEPT !.going = TRUE]
                                   ELSE volumes'[<<m, d>>] = NoVolume
  BY <1>4, <1>6, <1>7, <1>8
<1>9. CASE volumes[<<m, d>>].going /\ ~Mounted(<<m, d>>) /\ volumes'[<<m, d>>] = NoVolume
  BY <1>5, <1>6, <1>9
<1> QED
  BY <1>2, <1>3, <1>8, <1>9 DEF VolumeMoves

LEMMA LabelledStep ==
    ASSUME TypeOK, Placed, \A w \in Processes : Founded(w), \A w \in Processes : Behind(w), Labelled,
           [Next]_vars
    PROVE  Labelled'
<1> SUFFICES ASSUME NEW o \in Objects, vms'[o] # None
             PROVE  object'[vms'[o].owner] = o /\ vms'[o].owner \in named'
  BY DEF Labelled
<1>1. object' = object /\ named \subseteq named' /\ VmMoves(o)
  BY Growth, HistoriesGrow, VmSteps
<1>2. ASSUME vms[o] # None, vms'[o].owner = vms[o].owner
      PROVE  object'[vms'[o].owner] = o /\ vms'[o].owner \in named'
  BY <1>1, <1>2 DEF Labelled
<1>3. ASSUME NEW w \in Processes, run[w].at = "createvm", run[w].mig = vms'[o].owner, Target(w) = o
      PROVE  object'[vms'[o].owner] = o /\ vms'[o].owner \in named'
  BY <1>1, <1>3 DEF Target, Mig, Behind, LastStages
<1> QED
  BY <1>1, <1>2, <1>3 DEF VmMoves

(* A pod copies into the volume of its Job, until the Job has succeeded.    *)
LEMMA CopyStep ==
    ASSUME TypeOK, Placed, PodsMatch, \A w \in Processes : Founded(w), Held, Untouched, Edited, Disked,
           [Next]_vars, NEW m \in Undisturbed', NEW d \in Disks
    PROVE  /\ jobs'[Populator(m, d)].phase = "active" /\ jobs'[Populator(m, d)].started =>
                  volumes'[<<m, d>>].content = "partial"
           /\ jobs'[Populator(m, d)].phase = "succeeded" =>
                  \/ volumes'[<<m, d>>].content = "whole"
                  \/ status'[m] = "cancelled" /\ volumes'[<<m, d>>].content = "none"
<1> DEFINE j == Populator(m, d)
<1>1. m \in Undisturbed /\ m \in Alone /\ m \in Migrations /\ m \notin outlived'
  BY AloneBefore DEF Undisturbed, Alone
<1>2. Filled(m, d) /\ PopulatorMoves(m, d) /\ j \in JobNames
  BY <1>1, PopulatorSteps, Jobnames DEF Disked
<1>3. jobs[j].phase # "none" => jobs[Adapter(m)].phase = "succeeded" /\ images[m] = "fixed"
  BY <1>1 DEF Edited
<1>4. CASE PodStart(j)
  <2>1. jobs'[j].phase = "active" /\ jobs[j].phase = "active" /\ Puts(m, d, "partial")
    BY <1>1, <1>3, <1>4, PodWrites
  <2>2. volumes'[<<m, d>>].content = "partial"
    BY <1>1, <2>1, PutsContent
  <2> QED
    BY <2>1, <2>2
<1>5. CASE PodSucceeds(j)
  <2>1. /\ jobs'[j].phase = "succeeded" /\ jobs[j].phase = "active" /\ jobs[j].started
        /\ Puts(m, d, IF volumes[<<m, d>>].content = "partial" THEN "whole"
                      ELSE volumes[<<m, d>>].content)
    BY <1>1, <1>5, PodWrites
  <2>2. volumes[<<m, d>>].content = "partial"
    BY <1>2, <2>1 DEF Filled
  <2>3. Puts(m, d, "whole")
    BY <2>1, <2>2
  <2>4. volumes'[<<m, d>>].content = "whole"
    BY <1>1, <2>3, PutsContent
  <2> QED
    BY <2>1, <2>4
<1>6. CASE ~PodStart(j) /\ ~PodSucceeds(j)
  <2>1. ASSUME jobs'[j].phase = "active", jobs'[j].started
        PROVE  volumes'[<<m, d>>].content = "partial"
    <3>1. jobs[j].phase = "active" /\ jobs[j].started
      <4>1. CASE JobRuns(j)
        BY <1>6, <2>1, <4>1 DEF JobRuns, Becoming, NoJob
      <4>2. CASE Becoming(j, "active", FALSE, FALSE)
        BY <2>1, <4>2 DEF Becoming
      <4>3. CASE Becoming(j, jobs[j].phase, jobs[j].started, TRUE)
        BY <2>1, <4>3 DEF Becoming
      <4> QED
        BY <1>2, <4>1, <4>2, <4>3 DEF PopulatorMoves
    <3>2. volumes[<<m, d>>].content = "partial"
      BY <1>2, <3>1 DEF Filled
    <3>3. Mounted(<<m, d>>)
      <4>1. pods[j] = 1
        BY <1>2, <3>1 DEF PodsMatch
      <4> QED
        BY <4>1 DEF Mounted, Populator
    <3> QED
      BY <1>1, <1>3, <1>6, <3>1, <3>2, <3>3, ContentSteps
  <2>2. ASSUME jobs'[j].phase = "succeeded"
        PROVE  \/ volumes'[<<m, d>>].content = "whole"
               \/ status'[m] = "cancelled" /\ volumes'[<<m, d>>].content = "none"
    <3>1. jobs[j].phase = "succeeded"
      BY <1>2, <1>6, <2>2 DEF PopulatorMoves, JobRuns, Becoming, NoJob
    <3>2. \/ volumes[<<m, d>>].content = "whole"
          \/ status[m] = "cancelled" /\ volumes[<<m, d>>].content = "none"
      BY <1>2, <3>1 DEF Filled, Copied
    <3>3. status[m] = "cancelled" => status'[m] = "cancelled"
      BY <1>1, CancelledStays
    <3> QED
      BY <1>1, <1>6, <3>2, <3>3, ContentSteps
  <2> QED
    BY <2>1, <2>2
<1> QED
  BY <1>4, <1>5, <1>6

(* Under a machine that is there, disks are whole, or a teardown took them. *)
LEMMA OwnedStep ==
    ASSUME TypeOK, Placed, \A w \in Processes : Founded(w), Held, Untouched,
           \A w \in Processes : Behind(w), Edited, Disked, [Next]_vars,
           NEW m \in Undisturbed', NEW d \in Disks, Owns(m)'
    PROVE  /\ jobs'[Populator(m, d)].phase \in {"succeeded", "none"}
           /\ volumes'[<<m, d>>].content \in {"whole", "none"}
           /\ status'[m] # "cancelled" => jobs'[Populator(m, d)].phase = "succeeded"
<1> DEFINE j == Populator(m, d)
<1>1. m \in Undisturbed /\ m \in Migrations /\ m \notin outlived /\ m \notin outlived'
  BY AloneBefore DEF Undisturbed, Alone
<1>2. Filled(m, d) /\ PopulatorMoves(m, d) /\ j \in JobNames
  BY <1>1, PopulatorSteps, Jobnames DEF Disked
<1>3. ASSUME NEW w \in Processes, run[w].mig = m PROVE status[m] # "cancelled"
  BY <1>1, <1>3 DEF Held
<1>4. /\ jobs[j].phase \in {"succeeded", "none"} /\ volumes[<<m, d>>].content \in {"whole", "none"}
      /\ status[m] # "cancelled" => Copied(m, d)
  <2>1. PICK o \in Objects : vms'[o] # None /\ vms'[o].owner = m
    BY DEF Owns
  <2>2. VmMoves(o)
    BY VmSteps
  <2>3. CASE vms[o] # None /\ vms[o].owner = m
    BY <1>2, <2>3 DEF Filled, Owns
  <2>4. ASSUME NEW w \in Processes, run[w].at = "createvm", run[w].mig = m
        PROVE  /\ jobs[j].phase \in {"succeeded", "none"}
               /\ volumes[<<m, d>>].content \in {"whole", "none"}
               /\ status[m] # "cancelled" => Copied(m, d)
    <3>1. Copied(m, d)
      BY <1>1, <2>4 DEF Behind, LastStages
    <3> QED
      BY <1>2, <1>3, <2>4, <3>1 DEF Filled, Copied
  <2> QED
    BY <2>1, <2>2, <2>3, <2>4 DEF VmMoves
<1>5. ~PodStart(j) /\ ~PodSucceeds(j)
  BY <1>1, <1>4, PodWrites
<1>6. volumes[<<m, d>>].content = "none" => status[m] = "cancelled"
  BY <1>2, <1>4 DEF Filled
<1>7. volumes'[<<m, d>>].content \in {"whole", "none"}
  BY <1>1, <1>4, <1>5, <1>6, ContentSteps
<1>8. jobs'[j].phase \in {"succeeded", "none"}
  <2>1. ASSUME NEW w \in Processes, run[w].mig = m PROVE jobs[j].phase # "none"
    BY <1>3, <1>4, <2>1 DEF Copied
  <2> QED
    BY <1>2, <1>4, <1>5, <2>1 DEF PopulatorMoves, JobRuns, Becoming, NoJob
<1>9. ASSUME status'[m] # "cancelled" PROVE jobs'[j].phase = "succeeded"
  <2>1. status[m] # "cancelled"
    BY <1>1, <1>9, CancelledStays
  <2>2. jobs'[j] = jobs[j]
    BY <1>1, <1>4, <2>1, CopiedStays
  <2> QED
    BY <1>4, <2>1, <2>2 DEF Copied
<1> QED
  BY <1>7, <1>8, <1>9

LEMMA DiskedStep ==
    ASSUME TypeOK, Placed, PodsMatch, \A w \in Processes : Founded(w), Held, Untouched,
           \A w \in Processes : Behind(w), Edited, Disked, [Next]_vars
    PROVE  Disked'
<1> SUFFICES ASSUME NEW m \in Undisturbed', NEW d \in Disks PROVE Filled(m, d)'
  BY DEF Disked
<1> QED
  BY CopyStep, OwnedStep DEF Filled, Copied, Populator, Owns

LEMMA WholeStep ==
    ASSUME TypeOK, Placed, PodsMatch, \A w \in Processes : Founded(w), Held, Untouched,
           \A w \in Processes : Behind(w), Edited, Disked, VmDisksWhole, [Next]_vars
    PROVE  VmDisksWhole'
<1> SUFFICES ASSUME NEW m \in Undisturbed', NEW o \in Objects, RunsOn(m, o)', NEW d \in Disks
             PROVE  volumes'[<<m, d>>].content = "whole"
  BY DEF VmDisksWhole, Undisturbed, Alone, DisksWhole
<1>1. m \in Undisturbed /\ m \in Migrations
  BY AloneBefore DEF Undisturbed, Alone
<1>2. vms'[o] # None /\ vms'[o].owner = m /\ vms'[o].vmi = "running" /\ VmMoves(o)
  BY VmSteps DEF RunsOn
<1>3. Owns(m)'
  BY <1>2 DEF Owns
<1>4. volumes'[<<m, d>>].content \in {"whole", "none"}
  BY <1>3, OwnedStep
<1>5. CASE RunsOn(m, o)
  <2>1. Mounted(<<m, d>>)
    BY <1>5 DEF Mounted, RunsOn
  <2>2. volumes[<<m, d>>].content = "whole"
    BY <1>1, <1>5 DEF VmDisksWhole, Undisturbed, Alone, DisksWhole
  <2>3. ~PodStart(Populator(m, d)) /\ ~PodSucceeds(Populator(m, d))
    <3>1. Owns(m) /\ Filled(m, d)
      BY <1>1, <1>5 DEF Owns, RunsOn, Disked
    <3>2. jobs[Populator(m, d)].phase \in {"succeeded", "none"}
      BY <3>1 DEF Filled
    <3> QED
      BY <1>1, <3>2, PodWrites
  <2> QED
    BY <1>1, <1>4, <2>1, <2>2, <2>3, ContentSteps
<1>6. CASE /\ vms[o] # None /\ vms[o].owner = m /\ UNCHANGED volumes
           /\ \A e \in Disks : volumes[<<m, e>>].content # "none"
  <2>1. volumes'[<<m, d>>].content # "none"
    BY <1>6
  <2> QED
    BY <1>4, <2>1
<1> QED
  BY <1>2, <1>5, <1>6 DEF VmMoves, RunsOn

-----------------------------------------------------------------------------
(* What a teardown leaves behind.                                           *)

(* Nobody makes anything again for a migration that is cancelled.           *)
LEMMA ClearedStays ==
    ASSUME TypeOK, Placed, \A w \in Processes : Founded(w), Held, [Next]_vars,
           NEW m \in Migrations, m \notin outlived', status[m] = "cancelled"
    PROVE  /\ \A d \in Disks : /\ JobCleared(m, d) => JobCleared(m, d)'
                               /\ VolumeCleared(m, d) => VolumeCleared(m, d)'
           /\ ~Owns(m) => ~Owns(m)'
<1>1. \A w \in Processes : run[w].mig # m
  BY HistoriesGrow DEF Held
<1>2. ASSUME NEW d \in Disks, JobCleared(m, d) PROVE JobCleared(m, d)'
  <2> DEFINE j == Populator(m, d)
  <2>1. PopulatorMoves(m, d)
    BY PopulatorSteps
  <2>2. jobs[j].phase # "none" => jobs[j].going
    BY <1>2 DEF JobCleared
  <2>3. jobs'[j].phase # "none" => jobs'[j].going
    <3>1. CASE JobRuns(j)
      <4>1. jobs'[j] = jobs[j] \/ jobs'[j] = NoJob
        BY <2>2, <3>1 DEF JobRuns
      <4> QED
        BY <2>2, <4>1 DEF NoJob
    <3>2. CASE Becoming(j, jobs[j].phase, jobs[j].started, TRUE)
      BY <3>2 DEF Becoming
    <3> QED
      BY <1>1, <2>1, <3>1, <3>2 DEF PopulatorMoves
  <2> QED
    BY <2>3 DEF JobCleared, Populator
<1>3. ASSUME NEW d \in Disks, VolumeCleared(m, d) PROVE VolumeCleared(m, d)'
  <2> DEFINE v == volumes[<<m, d>>]
  <2>1. VolumeMoves(m, d) /\ v \in Volume
    BY VolumeSteps DEF TypeOK
  <2>2. v.content # "none" => v.going
    BY <1>3 DEF VolumeCleared
  <2>3. ASSUME NEW c, Puts(m, d, c) PROVE volumes'[<<m, d>>].going = v.going
    BY <2>1, <2>3 DEF Puts, Volume
  <2>4. [v EXCEPT !.going = TRUE].going /\ NoVolume.content = "none"
    BY <2>1 DEF Volume, NoVolume
  <2>5. \/ volumes'[<<m, d>>] = v
        \/ volumes'[<<m, d>>] = [v EXCEPT !.going = TRUE]
        \/ volumes'[<<m, d>>] = NoVolume
        \/ v.content # "none" /\ \E c \in {"spoilt", "partial", "whole"} : Puts(m, d, c)
    BY <1>1, <2>1 DEF VolumeMoves
  <2>6. volumes'[<<m, d>>].content # "none" => volumes'[<<m, d>>].going
    BY <2>2, <2>3, <2>4, <2>5
  <2> QED
    BY <2>6 DEF VolumeCleared
<1>4. ASSUME Owns(m)' PROVE Owns(m)
  <2>1. PICK o \in Objects : vms'[o] # None /\ vms'[o].owner = m
    BY <1>4 DEF Owns
  <2>2. VmMoves(o)
    BY VmSteps
  <2> QED
    BY <1>1, <2>1, <2>2 DEF VmMoves, Owns
<1> QED
  BY <1>2, <1>3, <1>4

(* How a teardown goes on.                                                  *)
RequestMoves ==
    \/ UNCHANGED <<request, cleaned>>
    \/ request'.at \in {"idle", "vm"} /\ request'.disk = 0 /\ cleaned' = cleaned
    \/ request'.at # "vm" /\ ~request'.clean /\ cleaned' = cleaned
    \/ CleanupVm /\ request' = [request EXCEPT !.at = "job"] /\ cleaned' = cleaned
    \/ CleanupJob /\ request' = [request EXCEPT !.at = "volume"] /\ cleaned' = cleaned
    \/ /\ CleanupVolume /\ request.disk = Last /\ request' = NoRequest
       /\ cleaned' = IF request.clean THEN cleaned \cup {request.mig} ELSE cleaned
    \/ /\ CleanupVolume /\ request.disk # Last /\ cleaned' = cleaned
       /\ request' = [request EXCEPT !.at = "job", !.disk = request.disk + 1,
                                     !.clean = request.clean]

LEMMA RequestSteps ==
    ASSUME TypeOK, [Next]_vars
    PROVE  RequestMoves
<1>0. request \in Ask
  BY DEF TypeOK, Ask
<1>1. CASE UNCHANGED <<request, cleaned>>
  BY <1>1 DEF RequestMoves
<1>2. ASSUME NEW m \in Migrations, Cancel(m) PROVE RequestMoves
  <2>1. request' = [at |-> "vm", mig |-> m, disk |-> 0, clean |-> TRUE] /\ cleaned' = cleaned
    BY <1>2 DEF Cancel, NoRequest
  <2> QED
    BY <2>1 DEF RequestMoves
<1>3. CASE CleanupVm
  BY <1>3 DEF CleanupVm, Then, history, RequestMoves
<1>4. CASE CleanupJob
  BY <1>4 DEF CleanupJob, Then, history, RequestMoves
<1>5. CASE CleanupVolume
  BY <1>5 DEF CleanupVolume, NextDisk, RequestMoves
<1>6. CASE CleanupFault
  <2>1. CASE request.at = "volume" /\ request.disk = Last
    <3>1. request' = NoRequest /\ cleaned' = cleaned
      BY <1>6, <2>1 DEF CleanupFault, NextDisk
    <3> QED
      BY <3>1 DEF NoRequest, RequestMoves
  <2>2. CASE request.at = "volume" /\ request.disk # Last
    <3>1. request' = [request EXCEPT !.at = "job", !.disk = request.disk + 1, !.clean = FALSE]
          /\ cleaned' = cleaned
      BY <1>6, <2>2 DEF CleanupFault, NextDisk
    <3>2. request'.at = "job" /\ ~request'.clean
      BY <1>0, <3>1 DEF Ask
    <3> QED
      BY <3>1, <3>2 DEF RequestMoves
  <2>3. CASE request.at # "volume"
    <3>1. PICK stage \in {"job", "volume"} :
              request' = [request EXCEPT !.clean = FALSE, !.at = stage] /\ cleaned' = cleaned
      BY <1>6, <2>3 DEF CleanupFault
    <3>2. request'.at # "vm" /\ ~request'.clean
      BY <1>0, <3>1 DEF Ask
    <3> QED
      BY <3>1, <3>2 DEF RequestMoves
  <2> QED
    BY <2>1, <2>2, <2>3
<1>7. ASSUME ClusterNext PROVE UNCHANGED <<request, cleaned>>
  BY <1>7 DEF ClusterNext, PodStart, PodSucceeds, JobFails, Reaped, Released, VmiRuns, VmiFails,
              DeleteVm, Operate, Redeploy, history
<1>8. ASSUME NEW w \in Processes, Stops(w) \/ Looks(w) \/ Makes(w)
      PROVE  UNCHANGED <<request, cleaned>>
  <2>1. CASE Looks(w)
    BY <2>1 DEF Looks, ReadNamespace, ReadQuota, ReadScc, AdapterExists, Recheck, RecheckFault,
         Reap, Adapted, WriteName, PopulatorExists, Populated, Reauthenticate, Redeliver, Expire,
         Receive, Steps, history
  <2> QED
    BY <1>8, <2>1, StopsOnly, MakesOnly DEF history
<1> QED
  BY <1>1, <1>2, <1>3, <1>4, <1>5, <1>6, <1>7, <1>8, StepKinds DEF Outside, CleanupStep, vars, history

(* What each call of a teardown has deleted when it is over.                *)
LEMMA TeardownSteps ==
    ASSUME TypeOK, Placed, Labelled
    PROVE  /\ CleanupVm => \A m \in Migrations : request.mig = m => ~Owns(m)'
           /\ CleanupJob => \A m \in Migrations, d \in Disks :
                  request.mig = m /\ request.disk = d => JobCleared(m, d)'
           /\ CleanupVolume => \A m \in Migrations, d \in Disks :
                  request.mig = m /\ request.disk = d => VolumeCleared(m, d)'
<1>1. ASSUME CleanupVm, NEW m \in Migrations, request.mig = m PROVE ~Owns(m)'
  <2> SUFFICES ASSUME NEW o \in Objects, vms'[o] # None, vms'[o].owner = m PROVE FALSE
    BY DEF Owns
  <2>1. vms' = IF m \in named THEN [vms EXCEPT ![object[m]] = None] ELSE vms
    BY <1>1 DEF CleanupVm
  <2>2. vms \in [Objects -> Machine \cup {None}] /\ object[m] \in Objects
    BY DEF TypeOK, Placed
  <2>3. vms[o] # None /\ vms[o].owner = m
    BY <2>1, <2>2
  <2>4. object[m] = o /\ m \in named
    BY <2>3 DEF Labelled
  <2> QED
    BY <2>1, <2>2, <2>4
<1>2. ASSUME CleanupJob, NEW m \in Migrations, NEW d \in Disks, request.mig = m, request.disk = d
      PROVE  JobCleared(m, d)'
  <2> DEFINE j == Populator(m, d)
  <2>1. j \in JobNames /\ jobs[j] \in Job /\ jobs \in [JobNames -> Job]
    BY Jobnames DEF TypeOK
  <2>2. jobs' = IF jobs[j].phase = "none" THEN jobs ELSE [jobs EXCEPT ![j].going = TRUE]
    BY <1>2 DEF CleanupJob, Populator
  <2> HIDE DEF j
  <2>3. jobs'[j].phase # "none" => jobs'[j].going
    BY <2>1, <2>2 DEF Job
  <2> QED
    BY <2>3 DEF JobCleared, j, Populator
<1>3. ASSUME CleanupVolume, NEW m \in Migrations, NEW d \in Disks, request.mig = m, request.disk = d
      PROVE  VolumeCleared(m, d)'
  <2>1. volumes[<<m, d>>] \in Volume /\ volumes \in [Migrations \X Disks -> Volume]
    BY DEF TypeOK
  <2>2. volumes' = [volumes EXCEPT ![<<m, d>>] =
            IF Mounted(<<m, d>>) THEN [volumes[<<m, d>>] EXCEPT !.going = TRUE] ELSE NoVolume]
    BY <1>3 DEF CleanupVolume
  <2>3. volumes'[<<m, d>>] = [volumes[<<m, d>>] EXCEPT !.going = TRUE]
        \/ volumes'[<<m, d>>] = NoVolume
    BY <2>1, <2>2
  <2> QED
    BY <2>1, <2>3 DEF VolumeCleared, Volume, NoVolume
<1> QED
  BY <1>1, <1>2, <1>3

(* A teardown that has met no error has deleted what is before its place.   *)
LEMMA ProgressStep ==
    ASSUME TypeOK, Placed, \A w \in Processes : Founded(w), Held, Labelled, Cleaning, [Next]_vars,
           request'.at \in {"job", "volume"}, request'.clean, NEW m \in Migrations,
           request'.mig = m, m \notin outlived'
    PROVE  /\ ~Owns(m)'
           /\ \A d \in Disks : d < request'.disk => JobCleared(m, d)' /\ VolumeCleared(m, d)'
           /\ \A d \in Disks : request'.at = "volume" /\ d = request'.disk => JobCleared(m, d)'
<1>0. /\ request \in Ask /\ m \notin outlived
      /\ \A d \in Disks : d \in Nat /\ ~(d < 0)
      /\ request.disk \in Disks /\ request.disk \in Nat
  BY HistoriesGrow, ClusterAssumption DEF TypeOK, Ask, Disks
<1>1. RequestMoves
  BY RequestSteps
<1>2. request.at # "idle" /\ request.mig = m
  <2>1. ~Cancel(request'.mig)
    <3> SUFFICES ASSUME Cancel(request'.mig) PROVE FALSE
      OBVIOUS
    <3>1. request'.at = "vm"
      BY DEF Cancel, NoRequest
    <3> QED
      BY <3>1
  <2> QED
    BY <2>1, RequestFollows
<1>3. status[m] = "cancelled"
  BY <1>0, <1>2 DEF Held
<1>4. /\ \A d \in Disks : /\ JobCleared(m, d) => JobCleared(m, d)'
                          /\ VolumeCleared(m, d) => VolumeCleared(m, d)'
      /\ ~Owns(m) => ~Owns(m)'
  BY <1>3, ClearedStays
<1>5. CASE UNCHANGED <<request, cleaned>>
  BY <1>0, <1>2, <1>4, <1>5 DEF Cleaning
<1>6. CASE CleanupVm /\ request' = [request EXCEPT !.at = "job"]
  <2>1. request.disk = 0 /\ request'.at = "job" /\ request'.disk = request.disk
    BY <1>0, <1>6 DEF Cleaning, CleanupVm, Ask
  <2>2. ~Owns(m)'
    BY <1>2, <1>6, TeardownSteps
  <2> QED
    BY <1>0, <2>1, <2>2
<1>7. CASE CleanupJob /\ request' = [request EXCEPT !.at = "volume"]
  <2>1. request.at = "job" /\ request.clean /\ request'.disk = request.disk
    BY <1>0, <1>7 DEF CleanupJob, Ask
  <2>2. \A d \in Disks : request.disk = d => JobCleared(m, d)'
    BY <1>2, <1>7, TeardownSteps
  <2> QED
    BY <1>0, <1>2, <1>4, <2>1, <2>2 DEF Cleaning
<1>8. CASE /\ CleanupVolume /\ request.disk # Last /\ cleaned' = cleaned
           /\ request' = [request EXCEPT !.at = "job", !.disk = request.disk + 1,
                                         !.clean = request.clean]
  <2>1. /\ request.at = "volume" /\ request.clean /\ request'.at = "job"
        /\ request'.disk = request.disk + 1
    BY <1>0, <1>8 DEF CleanupVolume, Ask
  <2>2. \A d \in Disks : request.disk = d => VolumeCleared(m, d)'
    BY <1>2, <1>8, TeardownSteps
  <2>3. /\ ~Owns(m) /\ JobCleared(m, request.disk)
        /\ \A d \in Disks : d < request.disk => JobCleared(m, d) /\ VolumeCleared(m, d)
    BY <1>0, <1>2, <2>1 DEF Cleaning
  <2>4. \A d \in Disks : d < request'.disk => d < request.disk \/ d = request.disk
    BY <1>0, <2>1
  <2> QED
    BY <1>4, <2>1, <2>2, <2>3, <2>4
<1> QED
  BY <1>0, <1>1, <1>2, <1>5, <1>6, <1>7, <1>8 DEF RequestMoves, NoRequest

LEMMA CleanedBefore ==
    ASSUME TypeOK, Placed, Held, Cleaning, [Next]_vars, NEW m \in cleaned' \ outlived'
    PROVE  /\ m \in Migrations /\ m \notin outlived /\ status[m] = "cancelled"
           /\ m \in cleaned \/ /\ CleanupVolume /\ request.mig = m /\ request.disk = Last
                               /\ request.at = "volume" /\ request.clean
<1>1. RequestMoves /\ m \notin outlived /\ cleaned \subseteq Migrations
  BY RequestSteps, HistoriesGrow DEF TypeOK
<1>2. CASE m \in cleaned
  BY <1>1, <1>2 DEF Cleaning
<1>3. CASE m \notin cleaned
  <2>1. /\ CleanupVolume /\ request.mig = m /\ request.disk = Last
        /\ request.at = "volume" /\ request.clean
    BY <1>1, <1>3 DEF RequestMoves, CleanupVolume
  <2> QED
    BY <1>1, <2>1 DEF Held, Placed
<1> QED
  BY <1>2, <1>3

LEMMA CleaningStep ==
    ASSUME TypeOK, Placed, \A w \in Processes : Founded(w), Held, Labelled, Cleaning, [Next]_vars
    PROVE  Cleaning'
<1>0. request \in Ask /\ Placed' /\ request' \in Ask
  BY RequestStep DEF TypeOK, Ask
<1>1. ASSUME request'.at = "vm" PROVE request'.disk = 0
  <2>1. request'.disk = 0 \/ UNCHANGED request
    <3>1. ASSUME NEW stage \in {"job", "volume"}, request' = [request EXCEPT !.at = stage] PROVE FALSE
      BY <1>0, <1>1, <3>1 DEF Ask
    <3>2. ASSUME request' = [request EXCEPT !.at = "job", !.disk = request.disk + 1,
                                            !.clean = request.clean]
          PROVE  FALSE
      BY <1>0, <1>1, <3>2 DEF Ask
    <3>3. ASSUME request' = NoRequest PROVE FALSE
      BY <1>1, <3>3 DEF NoRequest
    <3> QED
      BY <1>1, <3>1, <3>2, <3>3, RequestSteps DEF RequestMoves
  <2> QED
    BY <1>1, <2>1 DEF Cleaning
<1>2. ASSUME request'.at \in {"job", "volume"}, request'.clean, request'.mig \notin outlived'
      PROVE  (/\ ~Owns(request.mig)
              /\ \A d \in Disks : d < request.disk =>
                     JobCleared(request.mig, d) /\ VolumeCleared(request.mig, d)
              /\ request.at = "volume" => JobCleared(request.mig, request.disk))'
  <2>1. PICK m \in Migrations : request'.mig = m
    BY <1>0, <1>2 DEF Placed
  <2>2. /\ ~Owns(m)'
        /\ \A d \in Disks : d < request'.disk => JobCleared(m, d)' /\ VolumeCleared(m, d)'
        /\ \A d \in Disks : request'.at = "volume" /\ d = request'.disk => JobCleared(m, d)'
    BY <1>2, <2>1, ProgressStep
  <2>3. PICK e \in Disks : request'.disk = e
    BY <1>0 DEF Ask
  <2> QED
    BY <2>1, <2>2, <2>3 DEF Owns, JobCleared, VolumeCleared, Populator
<1>3. ASSUME NEW m \in cleaned' \ outlived' PROVE status'[m] = "cancelled"
  BY <1>3, CleanedBefore, CancelledStays
<1> QED
  BY <1>1, <1>2, <1>3 DEF Cleaning

LEMMA CleanedStep ==
    ASSUME TypeOK, Placed, \A w \in Processes : Founded(w), Held, Labelled, Cleaning,
           CleanedLeavesNothing, [Next]_vars
    PROVE  CleanedLeavesNothing'
<1> SUFFICES ASSUME NEW m \in cleaned' \ outlived'
             PROVE  /\ \A d \in Disks : JobCleared(m, d)' /\ VolumeCleared(m, d)'
                    /\ ~Owns(m)'
  BY DEF CleanedLeavesNothing, JobCleared, VolumeCleared, Owns, Populator
<1>1. /\ m \in Migrations /\ m \notin outlived /\ m \notin outlived' /\ status[m] = "cancelled"
      /\ m \in cleaned \/ /\ CleanupVolume /\ request.mig = m /\ request.disk = Last
                          /\ request.at = "volume" /\ request.clean
  BY CleanedBefore
<1>2. /\ \A d \in Disks : /\ JobCleared(m, d) => JobCleared(m, d)'
                          /\ VolumeCleared(m, d) => VolumeCleared(m, d)'
      /\ ~Owns(m) => ~Owns(m)'
  BY <1>1, ClearedStays
<1>3. CASE m \in cleaned
  <2>1. /\ \A d \in Disks : JobCleared(m, d) /\ VolumeCleared(m, d)
        /\ ~Owns(m)
    BY <1>1, <1>3 DEF CleanedLeavesNothing, JobCleared, VolumeCleared, Owns, Populator
  <2> QED
    BY <1>2, <2>1
<1>4. CASE /\ CleanupVolume /\ request.mig = m /\ request.disk = Last
           /\ request.at = "volume" /\ request.clean
  <2>1. /\ ~Owns(m) /\ JobCleared(m, Last)
        /\ \A d \in Disks : d < Last => JobCleared(m, d) /\ VolumeCleared(m, d)
    BY <1>1, <1>4 DEF Cleaning
  <2>2. \A d \in Disks : d < Last \/ d = Last
    BY ClusterAssumption DEF Disks
  <2>3. \A d \in Disks : d = Last => VolumeCleared(m, d)'
    BY <1>1, <1>4, TeardownSteps
  <2> QED
    BY <1>2, <2>1, <2>2, <2>3
<1> QED
  BY <1>1, <1>3, <1>4

-----------------------------------------------------------------------------
LEMMA InitOrder == Init => Order
<1> SUFFICES ASSUME Init PROVE Order
  OBVIOUS
<1>1. \A m \in Migrations, d \in Disks : jobs[Populator(m, d)] = NoJob /\ jobs[Adapter(m)] = NoJob
  BY Jobnames DEF Init
<1>2. \A m \in Migrations, d \in Disks : volumes[<<m, d>>] = NoVolume
  BY DEF Init
<1>3. NoJob.phase = "none" /\ ~NoJob.going /\ NoVolume.content = "none" /\ ~NoVolume.going
  BY DEF NoJob, NoVolume
<1>4. /\ \A w \in Processes : run[w].at = "idle" /\ run[w].mig = None /\ ~run[w].again
      /\ request.at = "idle" /\ cleaned = {} /\ \A o \in Objects : vms[o] = None
      /\ \A m \in Migrations : status[m] = "ready" /\ m # None
  BY ClusterAssumption DEF Init, Idle, NoRequest
<1>5. Held
  BY <1>4 DEF Held
<1>6. Untouched
  BY <1>1, <1>2, <1>3 DEF Untouched
<1>7. \A w \in Processes : Behind(w)
  BY <1>4 DEF Behind, CopyStages, LastStages
<1>8. 0 \in Disks
  BY ClusterAssumption DEF Disks
<1>9. Edited
  BY <1>1, <1>3, <1>8 DEF Edited, Alone
<1>10. Disked
  BY <1>1, <1>2, <1>3, <1>4 DEF Disked, Filled, Copied, Owns, Undisturbed, Alone
<1>11. VmDisksWhole /\ Labelled /\ Cleaning /\ CleanedLeavesNothing
  BY <1>4 DEF VmDisksWhole, RunsOn, Labelled, Cleaning, CleanedLeavesNothing
<1> QED
  BY <1>5, <1>6, <1>7, <1>9, <1>10, <1>11 DEF Order

LEMMA StepOrder == Inv /\ Order /\ [Next]_vars => Order'
<1> SUFFICES ASSUME Inv, Order, [Next]_vars PROVE Order'
  OBVIOUS
<1>1. TypeOK /\ Placed /\ PodsMatch /\ \A w \in Processes : Founded(w)
  BY DEF Inv
<1>2. /\ Held /\ Untouched /\ (\A w \in Processes : Behind(w)) /\ Edited /\ Disked
      /\ VmDisksWhole /\ Labelled /\ Cleaning /\ CleanedLeavesNothing
  BY DEF Order
<1>3. Held' /\ Untouched'
  BY <1>1, <1>2, HeldStep, UntouchedStep
<1>4. \A w \in Processes : Behind(w)'
  BY <1>1, <1>2, BehindStep
<1>5. Edited' /\ Disked'
  BY <1>1, <1>2, EditedStep, DiskedStep
<1>6. VmDisksWhole'
  BY <1>1, <1>2, WholeStep
<1>7. Labelled' /\ Cleaning' /\ CleanedLeavesNothing'
  BY <1>1, <1>2, LabelledStep, CleaningStep, CleanedStep
<1> QED
  BY <1>3, <1>4, <1>5, <1>6, <1>7 DEF Order

(* A machine that runs boots from volumes that were copied in full, the     *)
(* boot volume from an image the Adapter had finished, though processes     *)
(* die, Jobs outlive them and runs find what others left; the exceptions    *)
(* are a cancellation that a process outlived, two processes with one       *)
(* migration and an Adapter Job that could not be read                      *)
(* (_existing_job_is_reusable, submit_populator_job, create_target_vm).     *)
THEOREM MachinesHaveWholeDisks == Spec => []VmDisksWhole
<1>1. Inv /\ Order => VmDisksWhole
  BY DEF Order
<1> QED
  BY <1>1, InitInv, StepInv, InitOrder, StepOrder, PTL DEF Spec

(* A teardown that met no error, of a migration that no process had when it *)
(* was cancelled, leaves no populator Job, no volume and no machine, and    *)
(* nothing that runs afterwards makes one again (MigratorService.cleanup).  *)
THEOREM TeardownsAreComplete == Spec => []CleanedLeavesNothing
<1>1. Inv /\ Order => CleanedLeavesNothing
  BY DEF Order
<1> QED
  BY <1>1, InitInv, StepInv, InitOrder, StepOrder, PTL DEF Spec
=============================================================================
