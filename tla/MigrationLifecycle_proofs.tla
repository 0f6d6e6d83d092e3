---------------------- MODULE MigrationLifecycle_proofs ----------------------
(***************************************************************************)
(* What holds of MigrationLifecycle for every set of migrations, tasks,    *)
(* workers, requests and disks, and for every bound of the environment.    *)
(***************************************************************************)
EXTENDS MigrationLifecycle, SequenceTheorems, TLAPS

-----------------------------------------------------------------------------
(* Facts about the pieces the actions are built from.                       *)

(* A status write leaves both tables well typed.                            *)
LEMMA SetStatusType ==
    ASSUME TypeOK, NEW m, NEW seen \in Status \cup {None}, NEW new \in Status,
           SetStatus(m, seen, new)
    PROVE  row' \in [Migrations -> Row] /\ audit' \in [Migrations -> Event]
<1>1. CASE seen = new
  BY <1>1 DEF SetStatus, TypeOK
<1>2. CASE seen # new
  <2>1. row' = [row EXCEPT ![m].status = new]
    BY <1>2 DEF SetStatus
  <2>2. audit' = [audit EXCEPT ![m] =
                    [from |-> IF new = "FAILED" THEN None ELSE seen, to |-> new]]
    BY <1>2 DEF SetStatus
  <2>3. row' \in [Migrations -> Row]
    BY <2>1 DEF TypeOK, Row
  <2>4. audit' \in [Migrations -> Event]
    BY <2>2 DEF TypeOK, Event
  <2> QED
    BY <2>3, <2>4
<1> QED
  BY <1>1, <1>2

(* Changing a group by a group leaves a sequence of groups.                 *)
LEMMA GroupsUpdate ==
    ASSUME TypeOK, NEW g, NEW new,
           g \in DOMAIN groups => new \in Group
    PROVE  [groups EXCEPT ![g] = new] \in Seq(Group)
<1>1. CASE g \in DOMAIN groups
  BY <1>1, ExceptSeq DEF TypeOK
<1>2. CASE g \notin DOMAIN groups
  <2>1. [groups EXCEPT ![g] = new] = groups
    BY <1>2 DEF TypeOK
  <2> QED
    BY <2>1 DEF TypeOK
<1> QED
  BY <1>1, <1>2

(* The status a session shows is a status.                                  *)
LEMMA LoadedType ==
    ASSUME TypeOK, NEW w \in Workers, Mine(w) \in Migrations
    PROVE  Loaded(w) \in Status \cup {None}
  BY DEF TypeOK, Row, Orchestrator, Loaded

(* How a worker moves: each move leaves it well typed.                      *)
LEMMA WorkerMoves ==
    ASSUME TypeOK, NEW w \in Workers, NEW stage \in Stages
    PROVE  /\ Goto(w, stage) => worker' \in [Workers -> Orchestrator]
           /\ Expire(w, stage) => worker' \in [Workers -> Orchestrator]
           /\ Finish(w) => worker' \in [Workers -> Orchestrator]
           /\ Mine(w) \in Migrations /\ row' \in [Migrations -> Row] =>
                 (Reload(w, stage) => worker' \in [Workers -> Orchestrator])
<1>1. worker \in [Workers -> Orchestrator] /\ worker[w] \in Orchestrator
  BY DEF TypeOK
<1>2. ASSUME Goto(w, stage) PROVE worker' \in [Workers -> Orchestrator]
  BY <1>1, <1>2 DEF Goto, Orchestrator
<1>3. ASSUME Expire(w, stage) PROVE worker' \in [Workers -> Orchestrator]
  BY <1>1, <1>3 DEF Expire, Orchestrator
<1>4. ASSUME Finish(w) PROVE worker' \in [Workers -> Orchestrator]
  BY <1>1, <1>4 DEF Finish, IdleWorker, Orchestrator
<1>5. ASSUME Mine(w) \in Migrations, row' \in [Migrations -> Row], Reload(w, stage)
      PROVE  worker' \in [Workers -> Orchestrator]
  <2>1. row'[Mine(w)].status \in Status \cup {None}
    BY <1>5 DEF Row
  <2> QED
    BY <1>1, <1>5, <2>1 DEF Reload, Orchestrator
<1> QED
  BY <1>2, <1>3, <1>4, <1>5

(* So does an exception, which leads to "fail".                             *)
LEMMA RaiseType ==
    ASSUME TypeOK, NEW w \in Workers, Raise(w) \/ RaiseExpired(w)
    PROVE  worker' \in [Workers -> Orchestrator]
  BY WorkerMoves, "fail" \in Stages DEF Raise, RaiseExpired, Stages

(* A busy worker has a migration.                                           *)
LEMMA BusyMine ==
    ASSUME Traceable, NEW w \in Workers, worker[w].at # "idle"
    PROVE  Mine(w) \in Migrations /\ worker[w].task \in Tasks
  BY DEF Traceable

(* An orchestrator's status write keeps the types.                          *)
LEMMA AdvanceType ==
    ASSUME TypeOK, Traceable, NEW w \in Workers, NEW at \in Stages,
           NEW status \in Status, NEW next \in Stages, at # "idle",
           Advance(w, at, status, next)
    PROVE  TypeOK'
<1>1. Mine(w) \in Migrations
  BY BusyMine DEF Advance
<1>2. row' \in [Migrations -> Row] /\ audit' \in [Migrations -> Event]
  BY <1>1, LoadedType, SetStatusType DEF Advance
<1>3. worker' \in [Workers -> Orchestrator]
  BY <1>1, <1>2, WorkerMoves DEF Advance
<1> QED
  BY <1>2, <1>3 DEF Advance, TypeOK, broker

(* Any update of one worker by a well-typed record is well typed.           *)
LEMMA WorkerUpdate ==
    ASSUME TypeOK, NEW w \in Workers, NEW r \in Orchestrator
    PROVE  [worker EXCEPT ![w] = r] \in [Workers -> Orchestrator]
  BY DEF TypeOK

(* The fields an orchestrator fills on its way.                             *)
LEMMA OrchestratorFields ==
    ASSUME NEW r \in Orchestrator, NEW at \in Stages, NEW n \in Nat,
           NEW left \in SUBSET Disks, NEW seen \in Status \cup {None}
    PROVE  /\ [r EXCEPT !.at = at, !.own = n] \in Orchestrator
           /\ [r EXCEPT !.at = at, !.own = n, !.left = left, !.seen = seen]
                 \in Orchestrator
           /\ [r EXCEPT !.left = left, !.at = at] \in Orchestrator
           /\ [r EXCEPT !.left = left, !.at = at, !.seen = seen] \in Orchestrator
           /\ [r EXCEPT !.at = at, !.ctx = n, !.left = left, !.seen = seen]
                 \in Orchestrator
  BY DEF Orchestrator

(* A member of the sequence of groups is a group.                           *)
LEMMA GroupAt ==
    ASSUME TypeOK, NEW g \in DOMAIN groups
    PROVE  g \in Nat /\ groups[g] \in Group
<1>1. groups \in Seq(Group)
  BY DEF TypeOK
<1>2. DOMAIN groups = 1..Len(groups) /\ Len(groups) \in Nat
  BY <1>1, LenProperties
<1>3. groups[g] \in Group
  BY <1>1, <1>2, ElementOfSeq
<1> QED
  BY <1>2, <1>3

(* A request that answers, or goes on after it loaded a status.             *)
LEMMA ClientMoves ==
    ASSUME TypeOK, NEW c \in Clients
    PROVE  /\ Respond(c) => client' \in [Clients -> Request]
           /\ \A r \in Request : [client EXCEPT ![c] = r] \in [Clients -> Request]
<1>1. client \in [Clients -> Request]
  BY DEF TypeOK
<1>2. IdleClient \in Request
  BY DEF IdleClient, Request
<1> QED
  BY <1>1, <1>2 DEF Respond

(* Another stage of a handler.                                              *)
LEMMA ClientStage ==
    ASSUME TypeOK, NEW c \in Clients,
           NEW at \in {"insert", "publish", "stampid", "cancel", "cleanup"},
           NEW seen \in Status \cup {None}, NEW task \in Tasks \cup {None}
    PROVE  /\ [client EXCEPT ![c].at = at] \in [Clients -> Request]
           /\ [client EXCEPT ![c].at = at, ![c].seen = seen] \in [Clients -> Request]
           /\ [client EXCEPT ![c].at = at, ![c].task = task] \in [Clients -> Request]
<1> DEFINE later == [client[c] EXCEPT !.at = at]
<1>1. later \in Request /\ [later EXCEPT !.seen = seen] \in Request
         /\ [later EXCEPT !.task = task] \in Request
  BY DEF TypeOK, Request
<1>2. /\ [client EXCEPT ![c].at = at] = [client EXCEPT ![c] = later]
      /\ [client EXCEPT ![c].at = at, ![c].seen = seen]
            = [client EXCEPT ![c] = [later EXCEPT !.seen = seen]]
      /\ [client EXCEPT ![c].at = at, ![c].task = task]
            = [client EXCEPT ![c] = [later EXCEPT !.task = task]]
  BY DEF TypeOK
<1> HIDE DEF later
<1> QED
  BY <1>1, <1>2 DEF TypeOK

(* Spending keeps the books.                                                *)
LEMMA SpendType ==
    ASSUME TypeOK, NEW what \in Bounded, NEW max, Spend(what, max)
    PROVE  spent' \in [Bounded -> Nat]
  BY DEF Spend, TypeOK

LEMMA CompletedType ==
    ASSUME TypeOK, NEW g, NEW disks, Completed(g, disks)
    PROVE  spent' \in [Bounded -> Nat]
<1>1. "overlap" \in Bounded
  BY DEF Bounded
<1>2. CASE UNCHANGED spent
  BY <1>2 DEF TypeOK
<1> QED
  BY <1>1, <1>2, SpendType DEF Completed

(* The steps of the HTTP handlers keep the types.                           *)
LEMMA ClientType ==
    ASSUME TypeOK, Traceable, NEW c \in Clients, ClientNext(c)
    PROVE  TypeOK'
<1>1. ASSUME NEW m \in Migrations, CreateBegin(c, m)
      PROVE  TypeOK'
  <2>1. [IdleClient EXCEPT !.at = "create", !.mig = m] \in Request
    BY DEF TypeOK, IdleClient, Request
  <2>2. client' \in [Clients -> Request]
    BY <1>1, <2>1, ClientMoves DEF CreateBegin
  <2> QED
    BY <1>1, <2>2 DEF CreateBegin, TypeOK, data, broker
<1>2. ASSUME NEW m \in Migrations, StartBegin(c, m)
      PROVE  TypeOK'
  <2>1. row[m].status \in Status \cup {None}
    BY DEF TypeOK, Row
  <2>2. [IdleClient EXCEPT !.at = "start", !.mig = m, !.seen = row[m].status]
            \in Request
    BY <2>1 DEF IdleClient, Request
  <2>3. client' \in [Clients -> Request]
    BY <1>2, <2>2, ClientMoves DEF StartBegin
  <2> QED
    BY <1>2, <2>3 DEF StartBegin, TypeOK, data, broker
<1>3. ASSUME NEW m \in Migrations, CancelBegin(c, m)
      PROVE  TypeOK'
  <2>1. row[m].status \in Status \cup {None} /\ row[m].task \in Tasks \cup {None}
    BY DEF TypeOK, Row
  <2>2. [at |-> "revoke", mig |-> m, seen |-> row[m].status,
         task |-> row[m].task] \in Request
    BY <2>1 DEF Request
  <2>3. client' \in [Clients -> Request]
    BY <1>3, <2>2, ClientMoves DEF CancelBegin
  <2>4. spent' \in [Bounded -> Nat]
    BY <1>3 DEF CancelBegin, Spend, TypeOK, Bounded
  <2> QED
    BY <1>3, <2>3, <2>4 DEF CancelBegin, TypeOK, data, broker
<1>l. ASSUME CreateLock(c)
      PROVE  TypeOK'
  <2>1. CASE client' = [client EXCEPT ![c].at = "insert"]
    <3>1. [client EXCEPT ![c].at = "insert"] \in [Clients -> Request]
      BY ClientStage, None \in Status \cup {None}, None \in Tasks \cup {None}
    <3> QED
      BY <1>l, <2>1, <3>1 DEF CreateLock, TypeOK, data, broker
  <2>2. CASE Respond(c)
    <3>1. client' \in [Clients -> Request]
      BY <2>2, ClientMoves
    <3> QED
      BY <1>l, <3>1 DEF CreateLock, TypeOK, data, broker
  <2> QED
    BY <1>l, <2>1, <2>2 DEF CreateLock
<1>4. ASSUME NEW named \in Naming, CreateInsert(c, named)
      PROVE  TypeOK'
  <2>1. client' \in [Clients -> Request]
    BY <1>4, ClientMoves DEF CreateInsert
  <2>2. row' \in [Migrations -> Row]
    <3>1. [status |-> "PENDING", task |-> None, named |-> named] \in Row
      BY ConstantsAssumption DEF Row, Status, Active
    <3> QED
      BY <1>4, <3>1 DEF CreateInsert, TypeOK
  <2>3. audit' \in [Migrations -> Event]
    <3>1. [from |-> None, to |-> "PENDING"] \in Event
      BY DEF Event, Status, Active
    <3> QED
      BY <1>4, <3>1 DEF CreateInsert, TypeOK
  <2> QED
    BY <1>4, <2>1, <2>2, <2>3 DEF CreateInsert, TypeOK, broker
<1>5. ASSUME NEW t \in Tasks, StartPublish(c, t)
      PROVE  TypeOK'
  <2>1. client[c].mig \in Migrations
    BY <1>5 DEF StartPublish, Traceable
  <2>2. client' \in [Clients -> Request]
    <3>1. [client EXCEPT ![c].at = "stampid", ![c].task = t] \in [Clients -> Request]
      BY ClientStage, None \in Status \cup {None}, t \in Tasks \cup {None}
    <3> QED
      BY <1>5, <3>1 DEF StartPublish
  <2> QED
    BY <1>5, <2>1, <2>2 DEF StartPublish, TypeOK, data
<1>6. ASSUME StartValidate(c)
      PROVE  TypeOK'
  <2>1. client[c].seen \in Status \cup {None} /\ "VALIDATING" \in Status
    BY DEF TypeOK, Request, Status, Active, InPipeline
  <2>2. row' \in [Migrations -> Row] /\ audit' \in [Migrations -> Event]
    BY <1>6, <2>1, SetStatusType DEF StartValidate
  <2>3. client' = [client EXCEPT ![c].at = "publish", ![c].seen = "VALIDATING"]
    BY <1>6 DEF StartValidate
  <2>4. client' \in [Clients -> Request]
    <3>1. "VALIDATING" \in Status \cup {None} /\ None \in Tasks \cup {None}
      BY <2>1
    <3>2. [client EXCEPT ![c].at = "publish", ![c].seen = "VALIDATING"]
             \in [Clients -> Request]
      BY <3>1, ClientStage
    <3> QED
      BY <2>3, <3>2
  <2>5. spent' \in [Bounded -> Nat]
    <3>1. "overtaken" \in Bounded
      BY DEF Bounded
    <3>2. UNCHANGED spent \/ Spend("overtaken", MaxOvertaken)
      BY <1>6 DEF StartValidate
    <3>3. CASE UNCHANGED spent
      BY <3>3 DEF TypeOK
    <3> QED
      BY <3>1, <3>2, <3>3, SpendType
  <2> QED
    BY <1>6, <2>2, <2>4, <2>5 DEF StartValidate, TypeOK, broker
<1>7. ASSUME StartBrokerDown(c)
      PROVE  TypeOK'
  <2>1. client' \in [Clients -> Request]
    BY <1>7, ClientMoves DEF StartBrokerDown
  <2>2. row' \in [Migrations -> Row]
    BY <1>7, "PENDING" \in Status DEF StartBrokerDown, TypeOK, Row, Status, Active
  <2>3. spent' \in [Bounded -> Nat]
    BY <1>7 DEF StartBrokerDown, Spend, TypeOK, Bounded
  <2> QED
    BY <1>7, <2>1, <2>2, <2>3 DEF StartBrokerDown, TypeOK, broker
<1>8. ASSUME StartStampId(c)
      PROVE  TypeOK'
  <2>1. client' \in [Clients -> Request]
    BY <1>8, ClientMoves DEF StartStampId
  <2>2. client[c].task \in Tasks \cup {None}
    BY DEF TypeOK, Request
  <2>3. row' \in [Migrations -> Row]
    BY <1>8, <2>2 DEF StartStampId, TypeOK, Row
  <2> QED
    BY <1>8, <2>1, <2>3 DEF StartStampId, TypeOK, broker
<1>9. ASSUME CancelRevoke(c)
      PROVE  TypeOK'
  <2>1. client' \in [Clients -> Request]
    BY <1>9, ClientStage, None \in Status \cup {None}, None \in Tasks \cup {None}
       DEF CancelRevoke
  <2>2. revoked' \subseteq Tasks
    <3>1. client[c].task \in Tasks \cup {None}
      BY DEF TypeOK, Request
    <3>2. revoked \cup ({client[c].task} \ {None}) \subseteq Tasks
      BY <3>1 DEF TypeOK
    <3> QED
      BY <1>9, <3>2 DEF CancelRevoke, TypeOK
  <2> QED
    BY <1>9, <2>1, <2>2 DEF CancelRevoke, TypeOK, data
<1>10. ASSUME CancelCommit(c)
       PROVE  TypeOK'
  <2>1. client' \in [Clients -> Request]
    BY <1>10, ClientStage, None \in Status \cup {None}, None \in Tasks \cup {None}
       DEF CancelCommit
  <2>2. client[c].seen \in Status \cup {None}
    BY <1>10 DEF CancelCommit, TypeOK, Request
  <2>3. row' \in [Migrations -> Row] /\ audit' \in [Migrations -> Event]
    BY <1>10, <2>2, SetStatusType DEF CancelCommit, Status, Terminal
  <2> QED
    BY <1>10, <2>1, <2>3 DEF CancelCommit, TypeOK, broker
<1>11. ASSUME CancelCleanup(c)
       PROVE  TypeOK'
  <2>1. client' \in [Clients -> Request]
    BY <1>11, ClientMoves DEF CancelCleanup
  <2>2. cluster' \in Cluster
    <3>1. PICK kept \in SUBSET cluster.pvcs, left \in {None, cluster.vm} : \E gone :
              cluster' = [cluster EXCEPT !.vm = left, !.pvcs = (@ \ gone) \cup kept]
      BY <1>11 DEF CancelCleanup
    <3>2. PICK gone : cluster' = [cluster EXCEPT !.vm = left,
                                     !.pvcs = (@ \ gone) \cup kept]
      BY <3>1
    <3> QED
      BY <3>2 DEF TypeOK, Cluster
  <2> QED
    BY <1>11, <2>1, <2>2 DEF CancelCleanup, TypeOK, broker
<1>12. ASSUME HandlerDies(c)
       PROVE  TypeOK'
  <2>1. client' \in [Clients -> Request]
    BY <1>12, ClientMoves DEF HandlerDies
  <2>2. spent' \in [Bounded -> Nat]
    BY <1>12 DEF HandlerDies, Spend, TypeOK, Bounded
  <2> QED
    BY <1>12, <2>1, <2>2 DEF HandlerDies, TypeOK, data, broker
<1> QED
  BY <1>1, <1>2, <1>3, <1>l, <1>4, <1>5, <1>6, <1>7, <1>8, <1>9, <1>10, <1>11, <1>12
     DEF ClientNext

(* The steps of the orchestrator keep the types.                            *)
LEMMA OrchestratorType ==
    ASSUME TypeOK, Traceable, NEW w \in Workers, OrchestratorStep(w)
    PROVE  TypeOK'
<1>m. worker[w].at # "idle" => Mine(w) \in Migrations
  BY BusyMine
<1>r. UNCHANGED row => row' \in [Migrations -> Row]
  BY DEF TypeOK
<1>s. {"VALIDATING", "PREPARING", "TRANSFERRING", "CONFIGURING", "STARTING",
       "VERIFYING", "COMPLETED", "FAILED"} \subseteq Status
  BY DEF Status, Active, InPipeline, Terminal
<1>t. /\ {"eligible", "prepare", "group", "list", "jobs", "transfer", "enqueue", "wait",
           "adapt", "configure", "context", "populate", "starting", "create",
           "verifying", "running", "stamp", "complete", "cleanup", "failed",
           "validate"} \subseteq Stages
      /\ worker[w] \in Orchestrator
      /\ worker \in [Workers -> Orchestrator]
  BY DEF Stages, TypeOK
<1>1. ASSUME \/ Validate(w) \/ Prepare(w) \/ Transfer(w) \/ Configure(w)
             \/ SetVerifying(w) \/ Complete(w)
      PROVE  TypeOK'
  BY <1>1, <1>s, <1>t, AdvanceType
     DEF Validate, Prepare, Transfer, Configure, SetVerifying, Complete
<1>2. ASSUME CheckEligible(w)
      PROVE  TypeOK'
  <2>1. worker' \in [Workers -> Orchestrator]
    BY <1>2, <1>t, WorkerMoves, RaiseType DEF CheckEligible
  <2> QED
    BY <1>2, <2>1 DEF CheckEligible, TypeOK, data, broker
<1>3. ASSUME FindGroup(w)
      PROVE  TypeOK'
  <2>1. worker' \in [Workers -> Orchestrator]
    <3>1. \A g \in GroupsOf(Mine(w)) : g \in Nat
      BY GroupAt DEF GroupsOf
    <3>2. CASE \E g \in GroupsOf(Mine(w)) :
                  worker' = [worker EXCEPT ![w].at = "transfer", ![w].own = g]
      <4>1. PICK g \in GroupsOf(Mine(w)) :
                worker' = [worker EXCEPT ![w] =
                             [@ EXCEPT !.at = "transfer", !.own = g]]
        BY <1>t, <3>2
      <4> QED
        BY <1>t, <3>1, <4>1, OrchestratorFields, WorkerUpdate
    <3>3. CASE Goto(w, "list")
      BY <1>t, <3>3, WorkerMoves
    <3> QED
      BY <1>3, <3>2, <3>3 DEF FindGroup
  <2> QED
    BY <1>3, <2>1 DEF FindGroup, TypeOK, data, broker
<1>g. ASSUME CreateGroup(w)
      PROVE  TypeOK'
  <2>1. groups' \in Seq(Group)
    <3>1. NewGroup(Mine(w), "task") \in Group
      BY <1>g, <1>m DEF CreateGroup, NewGroup, Group, GroupStatus
    <3>2. Append(groups, NewGroup(Mine(w), "task")) \in Seq(Group)
      BY <3>1, AppendProperties DEF TypeOK
    <3> QED
      BY <1>g, <3>2 DEF CreateGroup, TypeOK
  <2>2. worker' \in [Workers -> Orchestrator]
    <3>1. Len(groups) + 1 \in Nat
      BY LenProperties DEF TypeOK
    <3>2. CASE worker' = [worker EXCEPT ![w].at = "jobs",
                             ![w].own = Len(groups) + 1,
                             ![w].left = Disks, ![w].seen = None]
      <4>1. worker' = [worker EXCEPT ![w] =
                [@ EXCEPT !.at = "jobs", !.own = Len(groups) + 1,
                          !.left = Disks, !.seen = None]]
        BY <1>t, <3>2
      <4> QED
        BY <1>t, <3>1, <4>1, OrchestratorFields, WorkerUpdate
    <3>3. CASE Raise(w)
      BY <3>3, RaiseType
    <3> QED
      BY <1>g, <3>2, <3>3 DEF CreateGroup
  <2> QED
    BY <1>g, <2>1, <2>2 DEF CreateGroup, TypeOK, broker
<1>4. ASSUME NEW d \in Disks, CreateJob(w, d)
      PROVE  TypeOK'
  <2> DEFINE own == worker[w].own
             more == [groups[own] EXCEPT !.jobs = @ \cup {d}]
  <2>1. groups' \in Seq(Group)
    <3>1. own \in DOMAIN groups => more \in Group
      BY GroupAt DEF Group
    <3>2. groups' = [groups EXCEPT ![own] = more]
      BY <1>4 DEF CreateJob, TypeOK
    <3> HIDE DEF own, more
    <3> QED
      BY <3>1, <3>2, GroupsUpdate
  <2>2. worker' \in [Workers -> Orchestrator]
    <3> DEFINE rest == worker[w].left \ {d}
               at == IF rest = {} THEN "transfer" ELSE "jobs"
    <3>1. rest \in SUBSET Disks /\ at \in Stages
      BY <1>t DEF Orchestrator
    <3>2. worker' = [worker EXCEPT ![w] = [@ EXCEPT !.left = rest, !.at = at]]
      BY <1>4, <1>t DEF CreateJob
    <3> HIDE DEF rest, at
    <3> QED
      BY <1>t, <3>1, <3>2, OrchestratorFields, WorkerUpdate
  <2> QED
    BY <1>4, <2>1, <2>2 DEF CreateJob, TypeOK, broker
<1>5. ASSUME NEW d \in Disks, Populate(w, d)
      PROVE  TypeOK'
  <2>1. Mine(w) \in Migrations /\ row[Mine(w)].status \in Status \cup {None}
    BY <1>5, <1>m DEF Populate, TypeOK, Row
  <2>2. cluster' \in Cluster
    <3>1. [cluster EXCEPT !.pvcs = @ \cup {<<Mine(w), d>>}] \in Cluster
      <4>1. cluster \in Cluster /\ {<<Mine(w), d>>} \subseteq Migrations \X Disks
        BY <2>1 DEF TypeOK
      <4> QED
        BY <4>1 DEF Cluster
    <3> QED
      BY <1>5, <3>1 DEF Populate, TypeOK
  <2>3. worker' \in [Workers -> Orchestrator]
    <3> DEFINE rest == worker[w].left \ {d}
               at == IF rest = {} THEN "starting" ELSE "populate"
               seen == IF rest = {} THEN None ELSE row[Mine(w)].status
    <3>1. CASE worker' = [worker EXCEPT ![w].left = rest, ![w].at = at,
                                        ![w].seen = seen]
      <4>1. rest \in SUBSET Disks /\ at \in Stages /\ seen \in Status \cup {None}
        BY <1>t, <2>1 DEF Orchestrator
      <4>2. worker' = [worker EXCEPT ![w] =
                         [@ EXCEPT !.left = rest, !.at = at, !.seen = seen]]
        BY <1>t, <3>1
      <4> HIDE DEF rest, at, seen
      <4> QED
        BY <1>t, <4>1, <4>2, OrchestratorFields, WorkerUpdate
    <3>2. CASE Raise(w) \/ RaiseExpired(w)
      BY <3>2, RaiseType
    <3> QED
      BY <1>5, <3>1, <3>2 DEF Populate
  <2> QED
    BY <1>5, <2>2, <2>3 DEF Populate, TypeOK, broker
<1>6. ASSUME Enqueue(w)
      PROVE  TypeOK'
  <2> DEFINE own == worker[w].own
             todo == {d \in Disks : IF worker[w].left = {} THEN d \in groups[own].jobs
                                                           ELSE d \in worker[w].left}
  <2>1. groups' \in Seq(Group)
    <3>1. CASE UNCHANGED groups
      BY <3>1 DEF TypeOK
    <3>2. ASSUME NEW d \in todo, groups' = [groups EXCEPT ![own].enqueued = @ \cup {d}]
          PROVE  groups' \in Seq(Group)
      <4> DEFINE sent == [groups[own] EXCEPT !.enqueued = @ \cup {d}]
      <4>1. own \in DOMAIN groups => sent \in Group
        BY <3>2, GroupAt DEF Group
      <4>2. groups' = [groups EXCEPT ![own] = sent]
        BY <3>2 DEF TypeOK
      <4> HIDE DEF own, sent
      <4> QED
        BY <4>1, <4>2, GroupsUpdate
    <3> QED
      BY <1>6, <3>1, <3>2 DEF Enqueue
  <2>2. worker' \in [Workers -> Orchestrator]
    <3>1. CASE worker' = [worker EXCEPT ![w].at = "wait", ![w].seen = None,
                                        ![w].left = {}]
      <4>1. [worker[w] EXCEPT !.left = {}, !.at = "wait", !.seen = None] \in Orchestrator
        BY <1>t, OrchestratorFields, {} \in SUBSET Disks
      <4>2. worker' = [worker EXCEPT ![w] =
                         [worker[w] EXCEPT !.left = {}, !.at = "wait", !.seen = None]]
        BY <1>t, <3>1
      <4> QED
        BY <4>1, <4>2, WorkerUpdate
    <3>2. ASSUME NEW d \in todo, worker' = [worker EXCEPT ![w].left = todo \ {d}]
          PROVE  worker' \in [Workers -> Orchestrator]
      <4> DEFINE rest == todo \ {d}
      <4>1. rest \in SUBSET Disks
        OBVIOUS
      <4>2. worker' = [worker EXCEPT ![w] = [worker[w] EXCEPT !.left = rest]]
        BY <1>t, <3>2
      <4> HIDE DEF rest
      <4>3. [worker[w] EXCEPT !.left = rest] \in Orchestrator
        BY <1>t, <4>1 DEF Orchestrator
      <4> QED
        BY <4>2, <4>3, WorkerUpdate
    <3>3. CASE Expire(w, "wait") \/ Raise(w)
      BY <3>3, <1>t, WorkerMoves, RaiseType
    <3> QED
      BY <1>6, <3>1, <3>2, <3>3 DEF Enqueue
  <2> QED
    BY <1>6, <2>1, <2>2 DEF Enqueue, TypeOK, broker
<1>7. ASSUME WaitConversions(w)
      PROVE  TypeOK'
  <2>1. worker' \in [Workers -> Orchestrator]
    BY <1>7, <1>m, <1>r, <1>t, WorkerMoves, RaiseType DEF WaitConversions, data
  <2> QED
    BY <1>7, <2>1 DEF WaitConversions, TypeOK, data, broker
<1>8. ASSUME Adapt(w)
      PROVE  TypeOK'
  <2>1. worker' \in [Workers -> Orchestrator]
    BY <1>8, <1>m, <1>r, <1>t, WorkerMoves, RaiseType DEF Adapt
  <2>2. groups' \in Seq(Group) /\ cluster' \in Cluster
    <3>1. CASE \E g \in ReadyGroups :
                  /\ groups' = [groups EXCEPT ![g].adapted = TRUE]
                  /\ cluster' = [cluster EXCEPT !.fixed = @ \cup {Mine(w)}]
      <4>1. PICK g \in ReadyGroups :
                  /\ groups' = [groups EXCEPT ![g].adapted = TRUE]
                  /\ cluster' = [cluster EXCEPT !.fixed = @ \cup {Mine(w)}]
        BY <3>1
      <4> DEFINE done == [groups[g] EXCEPT !.adapted = TRUE]
      <4>2. g \in DOMAIN groups => done \in Group
        BY GroupAt DEF Group
      <4>3. groups' = [groups EXCEPT ![g] = done]
        BY <4>1 DEF TypeOK
      <4>4. cluster' \in Cluster
        BY <1>8, <1>m, <4>1 DEF Adapt, TypeOK, Cluster
      <4> HIDE DEF done
      <4> QED
        BY <4>2, <4>3, <4>4, GroupsUpdate
    <3>2. CASE UNCHANGED <<groups, cluster>>
      BY <3>2 DEF TypeOK
    <3> QED
      BY <1>8, <3>1, <3>2 DEF Adapt
  <2>3. spent' \in [Bounded -> Nat]
    BY <1>8, CompletedType DEF Adapt, TypeOK
  <2> QED
    BY <1>8, <2>1, <2>2, <2>3 DEF Adapt, TypeOK, broker
<1>9. ASSUME LoadContext(w)
      PROVE  TypeOK'
  <2>1. row' \in [Migrations -> Row]
    <3>1. row \in [Migrations -> Row]
             /\ (UNCHANGED row \/ row' = [row EXCEPT ![Mine(w)].named = TRUE])
      BY <1>9 DEF LoadContext, TypeOK
    <3> QED
      BY <3>1 DEF Row
  <2>2. worker' \in [Workers -> Orchestrator]
    <3>1. ASSUME NEW g \in ReadyGroups, NEW disks \in SUBSET groups[g].ended,
                 worker' = [worker EXCEPT ![w].ctx = g, ![w].left = disks,
                               ![w].at = IF disks = {} THEN "fail" ELSE "populate",
                               ![w].seen = row[Mine(w)].status]
          PROVE  worker' \in [Workers -> Orchestrator]
      <4> DEFINE at == IF disks = {} THEN "fail" ELSE "populate"
      <4>1. at \in Stages
        BY DEF Stages
      <4>2. g \in Nat /\ disks \in SUBSET Disks
        BY GroupAt DEF ReadyGroups, Group
      <4>3. row[Mine(w)].status \in Status \cup {None}
        BY <1>9, <1>m DEF LoadContext, TypeOK, Row
      <4>4. worker' = [worker EXCEPT ![w] =
                [worker[w] EXCEPT !.at = at, !.ctx = g, !.left = disks,
                          !.seen = row[Mine(w)].status]]
        BY <1>t, <3>1
      <4> HIDE DEF at
      <4> QED
        BY <1>t, <4>1, <4>2, <4>3, <4>4, OrchestratorFields, WorkerUpdate
    <3>2. CASE Raise(w)
      BY <3>2, RaiseType
    <3> QED
      BY <1>9, <3>1, <3>2 DEF LoadContext
  <2>3. spent' \in [Bounded -> Nat]
    BY <1>9, CompletedType DEF LoadContext, TypeOK
  <2> QED
    BY <1>9, <2>1, <2>2, <2>3 DEF LoadContext, TypeOK, broker
<1>10. ASSUME SetStarting(w)
       PROVE  TypeOK'
  <2>1. row' \in [Migrations -> Row] /\ audit' \in [Migrations -> Event]
    BY <1>10, <1>m, <1>s, LoadedType, SetStatusType DEF SetStarting
  <2>2. worker' \in [Workers -> Orchestrator]
    BY <1>10, <1>t, WorkerMoves DEF SetStarting
  <2> QED
    BY <1>10, <2>1, <2>2 DEF SetStarting, TypeOK, broker
<1>11. ASSUME CreateVm(w)
       PROVE  TypeOK'
  <2>1. worker' \in [Workers -> Orchestrator]
    BY <1>11, <1>t, WorkerMoves, RaiseType DEF CreateVm
  <2>2. cluster' \in Cluster
    BY <1>11, <1>m DEF CreateVm, TypeOK, Cluster
  <2> QED
    BY <1>11, <2>1, <2>2 DEF CreateVm, TypeOK, broker
<1>12. ASSUME VerifyRunning(w)
       PROVE  TypeOK'
  <2>1. worker' \in [Workers -> Orchestrator]
    BY <1>12, <1>m, <1>r, <1>t, WorkerMoves, RaiseType DEF VerifyRunning, data
  <2> QED
    BY <1>12, <2>1 DEF VerifyRunning, TypeOK, data, broker
<1>13. ASSUME StampVm(w)
       PROVE  TypeOK'
  <2>1. worker' \in [Workers -> Orchestrator]
    BY <1>13, <1>t, WorkerMoves DEF StampVm
  <2>2. vm' \in VmStatus
    BY <1>13 DEF StampVm, VmStatus
  <2> QED
    BY <1>13, <2>1, <2>2 DEF StampVm, TypeOK, broker
<1>14. ASSUME CleanupTransit(w)
       PROVE  TypeOK'
  <2>1. worker' \in [Workers -> Orchestrator]
    BY <1>14, <1>t, WorkerMoves DEF CleanupTransit
  <2> QED
    BY <1>14, <2>1 DEF CleanupTransit, TypeOK, data, broker
<1>15. ASSUME FailGuard(w)
       PROVE  TypeOK'
  <2>1. worker' \in [Workers -> Orchestrator]
    BY <1>15, <1>m, <1>r, <1>t, WorkerMoves DEF FailGuard, data
  <2> QED
    BY <1>15, <2>1 DEF FailGuard, TypeOK, data, broker
<1>16. ASSUME FailCommit(w)
       PROVE  TypeOK'
  <2>1. worker' \in [Workers -> Orchestrator]
    BY <1>16, <1>t, WorkerMoves DEF FailCommit
  <2>2. worker[w].seen \in Status \cup {None}
    BY DEF TypeOK, Orchestrator
  <2>3. row' \in [Migrations -> Row] /\ audit' \in [Migrations -> Event]
    BY <1>16, <1>s, <2>2, SetStatusType DEF FailCommit
  <2> QED
    BY <1>16, <2>1, <2>3 DEF FailCommit, TypeOK, broker
<1> QED
  BY <1>1, <1>2, <1>3, <1>g, <1>4, <1>5, <1>6, <1>7, <1>8, <1>9, <1>10, <1>11,
     <1>12, <1>13, <1>14, <1>15, <1>16 DEF OrchestratorStep

(* Deliveries, time limits, signals and deaths keep the types.              *)
LEMMA DeliveryType ==
    ASSUME TypeOK, Traceable, NEW w \in Workers,
           \/ \E t \in Tasks : Receive(w, t)
           \/ SoftTimeLimit(w) \/ Terminate(w) \/ Crash(w) \/ Redeliver(w)
    PROVE  TypeOK'
<1>1. ASSUME NEW t \in Tasks, Receive(w, t)
      PROVE  TypeOK'
  <2>1. target[t] \in Migrations
    BY <1>1 DEF Receive, Traceable
  <2>2. row[target[t]].status \in Status \cup {None}
    BY <2>1 DEF TypeOK, Row
  <2>3. [IdleWorker EXCEPT !.at = "validate", !.task = t,
                           !.seen = row[target[t]].status] \in Orchestrator
    BY <2>2 DEF IdleWorker, Orchestrator, Stages
  <2>4. worker' \in [Workers -> Orchestrator]
    BY <1>1, <2>3, WorkerUpdate DEF Receive, TypeOK
  <2>5. queue' \in [Tasks -> Nat]
    <3>1. queue \in [Tasks -> Nat] /\ queue[t] > 0
             /\ queue' = [queue EXCEPT ![t] = queue[t] - 1]
      BY <1>1 DEF Receive, TypeOK
    <3>2. queue[t] - 1 \in Nat
      BY <3>1
    <3> QED
      BY <3>1, <3>2
  <2> QED
    BY <1>1, <2>4, <2>5 DEF Receive, TypeOK, data
<1>2. ASSUME SoftTimeLimit(w)
      PROVE  TypeOK'
  <2>1. worker' \in [Workers -> Orchestrator]
    BY <1>2, RaiseType DEF SoftTimeLimit
  <2>2. spent' \in [Bounded -> Nat]
    BY <1>2 DEF SoftTimeLimit, Spend, TypeOK, Bounded
  <2> QED
    BY <1>2, <2>1, <2>2 DEF SoftTimeLimit, TypeOK, data, broker
<1>3. ASSUME Terminate(w)
      PROVE  TypeOK'
  <2>1. worker' \in [Workers -> Orchestrator]
    BY <1>3, WorkerMoves, "fail" \in Stages DEF Terminate, Stages
  <2> QED
    BY <1>3, <2>1 DEF Terminate, TypeOK, data, broker
<1>4. ASSUME Crash(w)
      PROVE  TypeOK'
  <2>1. worker' \in [Workers -> Orchestrator]
    BY <1>4, WorkerMoves, "fail" \in Stages DEF Crash, Stages
  <2>2. queue' \in [Tasks -> Nat]
    BY <1>4, BusyMine, \A t \in Tasks : queue[t] + 1 \in Nat DEF Crash, TypeOK
  <2>3. spent' \in [Bounded -> Nat]
    BY <1>4 DEF Crash, Spend, TypeOK, Bounded
  <2> QED
    BY <1>4, <2>1, <2>2, <2>3 DEF Crash, TypeOK, data
<1>5. ASSUME Redeliver(w)
      PROVE  TypeOK'
  <2>1. queue' \in [Tasks -> Nat]
    BY <1>5, BusyMine, \A t \in Tasks : queue[t] + 1 \in Nat DEF Redeliver, TypeOK
  <2>2. spent' \in [Bounded -> Nat]
    BY <1>5 DEF Redeliver, Spend, TypeOK, Bounded
  <2> QED
    BY <1>5, <2>1, <2>2 DEF Redeliver, TypeOK, data
<1> QED
  BY <1>1, <1>2, <1>3, <1>4, <1>5

(* A request to convert appends a group without jobs, or changes one group: *)
(* its owner stays, and who made it.                                        *)
ConvertsGroup(g) ==
    \E new \in Group :
        /\ groups' = [groups EXCEPT ![g] = new]
        /\ groups[g].by # "task" /\ new.by # "task"
        /\ new.owner = groups[g].owner /\ new.adapted = groups[g].adapted
        /\ groups[g].jobs \subseteq new.jobs
        /\ new.enqueued # groups[g].enqueued => groups[g].by \in {"enqueue", "refuse"}
        /\ new.status = "READY" => new.status = groups[g].status /\ new.ended = groups[g].ended
        /\ new.by \in {"enqueue", "refuse", "done"} /\ groups[g].by = "jobs" => new.jobs = Disks

LEMMA ConvertEffect ==
    ASSUME TypeOK, ConvertNext
    PROVE  /\ UNCHANGED <<row, audit, vm, cluster, broker, worker, client>>
           /\ spent' \in [Bounded -> Nat]
           /\ \/ \E owner \in Migrations \cup {None} :
                    groups' = Append(groups, NewGroup(owner, "jobs"))
              \/ \E g \in DOMAIN groups : UNCHANGED spent /\ ConvertsGroup(g)
<1>1. CASE ConvertBegin
  <2>1. "convert" \in Bounded
    BY DEF Bounded
  <2> QED
    BY <1>1, <2>1, SpendType DEF ConvertBegin
<1>2. ASSUME NEW g \in DOMAIN groups, ConvertJob(g) \/ ConvertEnqueue(g) \/ ConvertRefuse(g)
      PROVE  /\ UNCHANGED <<row, audit, vm, cluster, broker, worker, client, spent>>
             /\ ConvertsGroup(g)
  <2>0. groups[g] \in Group
    BY GroupAt
  <2>1. CASE ConvertJob(g)
    <3>1. PICK d \in NextDisk(groups[g].jobs) : groups' = [groups EXCEPT ![g] =
             [groups[g] EXCEPT !.jobs = @ \cup {d},
                !.by = IF Disks \subseteq groups[g].jobs \cup {d} THEN "enqueue" ELSE @]]
      BY <2>1 DEF ConvertJob
    <3> DEFINE new == [groups[g] EXCEPT !.jobs = @ \cup {d},
                !.by = IF Disks \subseteq groups[g].jobs \cup {d} THEN "enqueue" ELSE @]
    <3>2. d \in Disks
      BY ConstantsAssumption DEF NextDisk
    <3>3. /\ new \in Group /\ new.jobs = groups[g].jobs \cup {d}
          /\ new.by \in {"jobs", "enqueue"}
          /\ new.by = "enqueue" => new.jobs = Disks
      <4>1. groups[g].by = "jobs" /\ groups[g].jobs \subseteq Disks
        BY <2>0, <2>1 DEF Group, ConvertJob
      <4>2. new \in Group
        BY <2>0, <3>2 DEF Group
      <4>3. /\ new.jobs = groups[g].jobs \cup {d}
            /\ new.by = IF Disks \subseteq groups[g].jobs \cup {d} THEN "enqueue" ELSE "jobs"
        BY <2>0, <4>1 DEF Group
      <4> HIDE DEF new
      <4> QED
        BY <3>2, <4>1, <4>2, <4>3
    <3>4. /\ new.owner = groups[g].owner /\ new.adapted = groups[g].adapted
          /\ new.enqueued = groups[g].enqueued /\ new.status = groups[g].status
          /\ new.ended = groups[g].ended
      BY <2>0 DEF Group
    <3> HIDE DEF new
    <3>5. groups' = [groups EXCEPT ![g] = new] /\ groups[g].by = "jobs"
      BY <2>1, <3>1 DEF new, ConvertJob, TypeOK
    <3>6. ConvertsGroup(g)
      <4>1. groups[g].by # "task" /\ new.by # "task"
        BY <3>3, <3>5
      <4>2. new.by \in {"enqueue", "refuse", "done"} => new.jobs = Disks
        BY <3>3
      <4> QED
        BY <3>3, <3>4, <3>5, <4>1, <4>2 DEF ConvertsGroup
    <3> QED
      BY <2>1, <3>6 DEF ConvertJob
  <2>2. CASE ConvertEnqueue(g)
    <3>1. PICK sent \in SUBSET Disks, by \in {"enqueue", "refuse", "done"} :
             groups' = [groups EXCEPT ![g] =
                          [groups[g] EXCEPT !.enqueued = sent, !.by = by]]
      <4>1. ASSUME NEW d \in groups[g].jobs \ groups[g].enqueued, NEW by,
                   groups' = [groups EXCEPT ![g].enqueued = @ \cup {d}, ![g].by = by]
            PROVE  groups' = [groups EXCEPT ![g] =
                      [groups[g] EXCEPT !.enqueued = groups[g].enqueued \cup {d}, !.by = by]]
        BY <2>0, <4>1 DEF TypeOK
      <4>2. ASSUME NEW by, groups' = [groups EXCEPT ![g].by = by]
            PROVE  groups' = [groups EXCEPT ![g] =
                      [groups[g] EXCEPT !.enqueued = groups[g].enqueued, !.by = by]]
        BY <2>0, <4>2 DEF TypeOK, Group
      <4>3. /\ groups[g].enqueued \in SUBSET Disks
            /\ \A d \in groups[g].jobs : groups[g].enqueued \cup {d} \in SUBSET Disks
        BY <2>0 DEF Group
      <4>4. groups[g].by = "enqueue"
        BY <2>2 DEF ConvertEnqueue
      <4>5. \/ \E d \in groups[g].jobs \ groups[g].enqueued, by \in {"enqueue", "done"} :
                  groups' = [groups EXCEPT ![g].enqueued = @ \cup {d}, ![g].by = by]
            \/ \E by \in {"done", "refuse"} : groups' = [groups EXCEPT ![g].by = by]
        <5>1. ASSUME NEW d \in groups[g].jobs \ groups[g].enqueued, NEW b,
                     groups' = [groups EXCEPT ![g].enqueued = @ \cup {d},
                                   ![g].by = IF b THEN "done" ELSE @]
              PROVE  \E by \in {"enqueue", "done"} :
                        groups' = [groups EXCEPT ![g].enqueued = @ \cup {d}, ![g].by = by]
          <6>1. [groups EXCEPT ![g].enqueued = @ \cup {d}][g].by = "enqueue"
            BY <2>0, <4>4 DEF TypeOK, Group
          <6> QED
            BY <5>1, <6>1
        <5> QED
          BY <2>2, <5>1 DEF ConvertEnqueue
      <4>6. CASE \E d \in groups[g].jobs \ groups[g].enqueued, by \in {"enqueue", "done"} :
                    groups' = [groups EXCEPT ![g].enqueued = @ \cup {d}, ![g].by = by]
        <5>1. PICK d \in groups[g].jobs \ groups[g].enqueued, by \in {"enqueue", "done"} :
                    groups' = [groups EXCEPT ![g].enqueued = @ \cup {d}, ![g].by = by]
          BY <4>6
        <5>2. groups' = [groups EXCEPT ![g] =
                 [groups[g] EXCEPT !.enqueued = groups[g].enqueued \cup {d}, !.by = by]]
          BY <4>1, <5>1
        <5> QED
          BY <4>3, <5>2
      <4>7. CASE \E by \in {"done", "refuse"} : groups' = [groups EXCEPT ![g].by = by]
        BY <4>2, <4>3, <4>7
      <4> QED
        BY <4>5, <4>6, <4>7
    <3> DEFINE new == [groups[g] EXCEPT !.enqueued = sent, !.by = by]
    <3>2. new \in Group /\ new.by = by
      BY <2>0 DEF Group
    <3>3. /\ new.owner = groups[g].owner /\ new.adapted = groups[g].adapted
          /\ new.jobs = groups[g].jobs /\ new.status = groups[g].status
          /\ new.ended = groups[g].ended
      BY <2>0 DEF Group
    <3> HIDE DEF new
    <3>4. groups' = [groups EXCEPT ![g] = new] /\ groups[g].by = "enqueue"
      BY <2>2, <3>1 DEF new, ConvertEnqueue
    <3>5. ConvertsGroup(g)
      BY <3>2, <3>3, <3>4 DEF ConvertsGroup
    <3> QED
      BY <2>2, <3>5 DEF ConvertEnqueue
  <2>3. CASE ConvertRefuse(g)
    <3>1. CASE \E d \in groups[g].jobs \ groups[g].enqueued :
                  groups' = [groups EXCEPT ![g].enqueued = @ \cup {d}]
      <4>1. PICK d \in groups[g].jobs : groups' = [groups EXCEPT ![g] =
                [groups[g] EXCEPT !.enqueued = @ \cup {d}]]
        BY <2>0, <3>1 DEF TypeOK
      <4> DEFINE new == [groups[g] EXCEPT !.enqueued = @ \cup {d}]
      <4>2. new \in Group /\ new.by = groups[g].by
        BY <2>0 DEF Group
      <4>3. /\ new.owner = groups[g].owner /\ new.adapted = groups[g].adapted
            /\ new.jobs = groups[g].jobs /\ new.status = groups[g].status
            /\ new.ended = groups[g].ended
        BY <2>0 DEF Group
      <4> HIDE DEF new
      <4>4. groups' = [groups EXCEPT ![g] = new] /\ groups[g].by = "refuse"
        BY <2>3, <4>1 DEF new, ConvertRefuse
      <4>5. ConvertsGroup(g)
        BY <4>2, <4>3, <4>4 DEF ConvertsGroup
      <4> QED
        BY <2>3, <4>5 DEF ConvertRefuse
    <3>2. CASE groups' = [groups EXCEPT ![g].status = "FAILED", ![g].ended = {},
                                        ![g].by = "done"]
      <4> DEFINE new == [groups[g] EXCEPT !.status = "FAILED", !.ended = {}, !.by = "done"]
      <4>1. new \in Group /\ new.by = "done" /\ new.status = "FAILED"
        BY <2>0 DEF Group, GroupStatus, FailedGroup
      <4>2. /\ new.owner = groups[g].owner /\ new.adapted = groups[g].adapted
            /\ new.jobs = groups[g].jobs /\ new.enqueued = groups[g].enqueued
        BY <2>0 DEF Group
      <4>3. groups' = [groups EXCEPT ![g] = new] /\ groups[g].by = "refuse"
        BY <2>0, <2>3, <3>2 DEF ConvertRefuse, TypeOK
      <4> HIDE DEF new
      <4>4. ConvertsGroup(g)
        BY <4>1, <4>2, <4>3 DEF ConvertsGroup
      <4> QED
        BY <2>3, <4>4 DEF ConvertRefuse
    <3> QED
      BY <2>3, <3>1, <3>2 DEF ConvertRefuse
  <2> QED
    BY <1>2, <2>1, <2>2, <2>3
<1> QED
  BY <1>1, <1>2 DEF ConvertNext, TypeOK

(* What a conversion changes of a group: READY only with all its jobs.      *)
LEMMA ConversionEffect ==
    ASSUME TypeOK, NEW g \in DOMAIN groups, ConversionStep(g)
    PROVE  /\ UNCHANGED <<row, audit, vm, cluster, broker, worker, client>>
           /\ spent' = spent \/ Spend("relapse", MaxRelapse)
           /\ \E new \in Group :
                 /\ groups' = [groups EXCEPT ![g] = new]
                 /\ groups[g].enqueued # {}
                 /\ new.owner = groups[g].owner /\ new.by = groups[g].by
                 /\ new.jobs = groups[g].jobs /\ new.enqueued = groups[g].enqueued
                 /\ new.adapted = groups[g].adapted
                 /\ new.status = "READY" => /\ new.jobs \subseteq new.enqueued
                                            /\ new.ended = new.enqueued
<1>0. groups[g] \in Group
  BY GroupAt
<1>1. PICK status \in GroupStatus, ended \in SUBSET Disks :
         /\ groups' = [groups EXCEPT ![g] =
                         [groups[g] EXCEPT !.status = status, !.ended = ended]]
         /\ status = "READY" => /\ groups[g].jobs \subseteq groups[g].enqueued
                                /\ ended = groups[g].enqueued
  <2>1. PICK status \in GroupStatus :
           /\ status = "READY" => groups[g].jobs \subseteq groups[g].enqueued
           /\ groups' = [groups EXCEPT ![g].status = status,
                 ![g].ended = IF status \in {"READY", "CANCELLED"} THEN groups[g].enqueued
                                                                  ELSE {}]
    BY DEF ConversionStep
  <2> DEFINE ended == IF status \in {"READY", "CANCELLED"} THEN groups[g].enqueued ELSE {}
  <2>2. ended \in SUBSET Disks /\ (status = "READY" => ended = groups[g].enqueued)
    BY <1>0 DEF Group
  <2>3. groups' = [groups EXCEPT ![g].status = status, ![g].ended = ended]
    BY <2>1
  <2> HIDE DEF ended
  <2>4. groups' = [groups EXCEPT ![g] =
                     [groups[g] EXCEPT !.status = status, !.ended = ended]]
    BY <2>3 DEF TypeOK
  <2>5. status = "READY" => groups[g].jobs \subseteq groups[g].enqueued
    BY <2>1
  <2> QED
    BY <2>2, <2>4, <2>5
<1> DEFINE new == [groups[g] EXCEPT !.status = status, !.ended = ended]
<1>2. new \in Group /\ new.status = status /\ new.ended = ended
  BY <1>0 DEF Group
<1>3. /\ new.owner = groups[g].owner /\ new.by = groups[g].by
      /\ new.jobs = groups[g].jobs /\ new.enqueued = groups[g].enqueued
      /\ new.adapted = groups[g].adapted
  BY <1>0 DEF Group
<1>4. groups' = [groups EXCEPT ![g] = new]
  BY <1>1
<1> HIDE DEF new
<1> QED
  BY <1>1, <1>2, <1>3, <1>4 DEF ConversionStep

LEMMA ConversionFrame ==
    ASSUME TypeOK, ConvertNext \/ \E g \in DOMAIN groups : ConversionStep(g)
    PROVE  UNCHANGED <<row, audit, vm, cluster, queue, target, revoked, worker, client>>
  BY ConvertEffect, ConversionEffect DEF broker

(* So conversions keep the types.                                           *)
LEMMA ConversionType ==
    ASSUME TypeOK, ConvertNext \/ \E g \in DOMAIN groups : ConversionStep(g)
    PROVE  TypeOK'
<1>0. ASSUME NEW g \in DOMAIN groups, NEW new \in Group,
             groups' = [groups EXCEPT ![g] = new]
      PROVE  groups' \in Seq(Group)
  BY <1>0, GroupsUpdate
<1>1. CASE ConvertNext
  <2>1. ASSUME NEW owner \in Migrations \cup {None},
               groups' = Append(groups, NewGroup(owner, "jobs"))
        PROVE  groups' \in Seq(Group)
    <3>1. NewGroup(owner, "jobs") \in Group
      BY DEF NewGroup, Group, GroupStatus
    <3> QED
      BY <2>1, <3>1, AppendProperties DEF TypeOK
  <2>2. groups' \in Seq(Group)
    BY <1>0, <1>1, <2>1, ConvertEffect DEF ConvertsGroup
  <2> QED
    BY <1>1, <2>2, ConvertEffect DEF TypeOK, broker
<1>2. ASSUME NEW g \in DOMAIN groups, ConversionStep(g)
      PROVE  TypeOK'
  <2>1. groups' \in Seq(Group)
    BY <1>0, <1>2, ConversionEffect
  <2>2. spent' \in [Bounded -> Nat]
    <3>1. "relapse" \in Bounded
      BY DEF Bounded
    <3>2. CASE spent' = spent
      BY <3>2 DEF TypeOK
    <3> QED
      BY <1>2, <3>1, <3>2, ConversionEffect, SpendType
  <2> QED
    BY <1>2, <2>1, <2>2, ConversionEffect DEF TypeOK, broker
<1> QED
  BY <1>1, <1>2

LEMMA TypeStep ==
    ASSUME TypeOK, Traceable, [Next]_vars
    PROVE  TypeOK'
<1>1. CASE Next
  BY <1>1, ClientType, OrchestratorType, DeliveryType, ConversionType
     DEF Next, WorkerNext
<1>2. CASE UNCHANGED vars
  BY <1>2 DEF TypeOK, vars, data, broker
<1> QED
  BY <1>1, <1>2

-----------------------------------------------------------------------------
(* How the actors that matter to Traceable may move.                        *)

(* A worker that moves leaves the others alone and keeps its task, or drops *)
(* it.                                                                      *)
Moved(w) ==
    /\ \A v \in Workers : v # w => worker'[v] = worker[v]
    /\ worker'[w].at # "idle" => worker'[w].task = worker[w].task

LEMMA MovesFrame ==
    ASSUME TypeOK, NEW w \in Workers
    PROVE  /\ \A stage : Goto(w, stage) \/ Expire(w, stage) \/ Reload(w, stage)
                            => Moved(w)
           /\ Raise(w) \/ RaiseExpired(w) \/ Finish(w) => Moved(w)
           /\ \A r : r.task = worker[w].task /\ worker' = [worker EXCEPT ![w] = r]
                       => Moved(w)
<1>0. worker \in [Workers -> Orchestrator] /\ worker[w] \in Orchestrator
  BY DEF TypeOK
<1>1. ASSUME NEW stage, Goto(w, stage) PROVE Moved(w)
  BY <1>0, <1>1 DEF Goto, Moved, Orchestrator
<1>2. ASSUME NEW stage, Expire(w, stage) PROVE Moved(w)
  BY <1>0, <1>2 DEF Expire, Moved, Orchestrator
<1>3. ASSUME NEW stage, Reload(w, stage) PROVE Moved(w)
  <2>1. PICK seen : worker' = [worker EXCEPT ![w].at = stage, ![w].seen = seen]
    BY <1>3 DEF Reload
  <2> QED
    BY <1>0, <2>1 DEF Moved, Orchestrator
<1>4. ASSUME Finish(w) PROVE Moved(w)
  BY <1>0, <1>4 DEF Finish, Moved, IdleWorker, Orchestrator
<1>5. ASSUME NEW r, r.task = worker[w].task, worker' = [worker EXCEPT ![w] = r]
      PROVE  Moved(w)
  BY <1>0, <1>5 DEF Moved
<1> QED
  BY <1>1, <1>2, <1>3, <1>4, <1>5 DEF Raise, RaiseExpired

(* What LoadContext looks up, or fails to.                                  *)
Loads(w, g, disks, at) ==
    worker' = [worker EXCEPT ![w].ctx = g, ![w].left = disks, ![w].at = at,
                             ![w].seen = row[Mine(w)].status]

LEMMA ContextMoves ==
    ASSUME NEW w \in Workers, LoadContext(w)
    PROVE  \/ Raise(w) /\ UNCHANGED <<row, spent>>
           \/ \E g \in ReadyGroups : \E disks \in SUBSET groups[g].ended :
                 /\ IsNewest(g, ReadyGroups) /\ Completed(g, disks)
                 /\ \/ disks = {} /\ Loads(w, g, disks, "fail")
                    \/ disks # {} /\ Loads(w, g, disks, "populate")
<1>1. CASE Raise(w) /\ UNCHANGED <<row, spent>>
  BY <1>1
<1>2. CASE \E g \in ReadyGroups : \E disks \in SUBSET groups[g].ended :
              /\ IsNewest(g, ReadyGroups) /\ Completed(g, disks)
              /\ Loads(w, g, disks, IF disks = {} THEN "fail" ELSE "populate")
  <2>1. PICK g \in ReadyGroups : \E disks \in SUBSET groups[g].ended :
              /\ IsNewest(g, ReadyGroups) /\ Completed(g, disks)
              /\ Loads(w, g, disks, IF disks = {} THEN "fail" ELSE "populate")
    BY <1>2
  <2>p. PICK disks \in SUBSET groups[g].ended :
              /\ IsNewest(g, ReadyGroups) /\ Completed(g, disks)
              /\ Loads(w, g, disks, IF disks = {} THEN "fail" ELSE "populate")
    BY <2>1
  <2>2. CASE disks = {}
    BY <2>p, <2>2
  <2>3. CASE disks # {}
    BY <2>p, <2>3
  <2> QED
    BY <2>2, <2>3
<1> QED
  BY <1>1, <1>2 DEF LoadContext, Loads

(* A step of an orchestrator moves only its worker, which keeps its task or *)
(* becomes idle, and no message.                                            *)
LEMMA OrchestratorFrame ==
    ASSUME TypeOK, NEW w \in Workers,
           OrchestratorStep(w) \/ SoftTimeLimit(w) \/ Terminate(w)
    PROVE  /\ UNCHANGED <<target, client, queue>> /\ Moved(w)
           /\ worker[w].at # "idle" \/ Terminate(w)
<1> USE MovesFrame DEF broker
<1>0. worker \in [Workers -> Orchestrator] /\ worker[w] \in Orchestrator
  BY DEF TypeOK
<1>1. CASE \/ Validate(w) \/ Prepare(w) \/ Transfer(w) \/ Configure(w)
           \/ SetVerifying(w) \/ Complete(w)
  BY <1>1 DEF Validate, Prepare, Transfer, Configure, SetVerifying, Complete, Advance
<1>2. CASE CheckEligible(w) \/ WaitConversions(w) \/ VerifyRunning(w)
  BY <1>2 DEF CheckEligible, WaitConversions, VerifyRunning
<1>e. CASE Enqueue(w)
  <2>1. \/ \E left : worker' = [worker EXCEPT ![w].at = "wait", ![w].seen = None,
                                            ![w].left = left]
        \/ \E left : worker' = [worker EXCEPT ![w].left = left]
        \/ Expire(w, "wait") \/ Raise(w)
    BY <1>e DEF Enqueue
  <2>2. ASSUME NEW left, worker' = [worker EXCEPT ![w].at = "wait", ![w].seen = None,
                                                  ![w].left = left]
        PROVE  Moved(w)
    BY <1>0, <2>2 DEF Moved, Orchestrator
  <2>3. ASSUME NEW left, worker' = [worker EXCEPT ![w].left = left]
        PROVE  Moved(w)
    BY <1>0, <2>3 DEF Moved, Orchestrator
  <2>4. Moved(w)
    BY <2>1, <2>2, <2>3
  <2> QED
    BY <1>e, <2>4 DEF Enqueue
<1>3. CASE FindGroup(w)
  <2>1. CASE \E g : worker' = [worker EXCEPT ![w].at = "transfer", ![w].own = g]
    <3>1. PICK g : worker' = [worker EXCEPT ![w].at = "transfer", ![w].own = g]
      BY <2>1
    <3>2. worker' = [worker EXCEPT ![w] = [@ EXCEPT !.at = "transfer", !.own = g]]
      BY <1>0, <3>1
    <3>3. [worker[w] EXCEPT !.at = "transfer", !.own = g].task = worker[w].task
      BY <1>0 DEF Orchestrator
    <3> QED
      BY <1>0, <1>3, <3>2, <3>3 DEF FindGroup
  <2>2. CASE Goto(w, "list")
    BY <1>3, <2>2 DEF FindGroup
  <2> QED
    BY <1>3, <2>1, <2>2 DEF FindGroup
<1>g. CASE CreateGroup(w)
  <2>1. CASE worker' = [worker EXCEPT ![w].at = "jobs",
                           ![w].own = Len(groups) + 1,
                           ![w].left = Disks, ![w].seen = None]
    <3> DEFINE r == [worker[w] EXCEPT !.at = "jobs", !.own = Len(groups) + 1,
                                      !.left = Disks, !.seen = None]
    <3>1. worker' = [worker EXCEPT ![w] = r] /\ r.task = worker[w].task
      BY <1>0, <2>1 DEF Orchestrator
    <3> HIDE DEF r
    <3> QED
      BY <1>g, <3>1 DEF CreateGroup
  <2>2. CASE Raise(w)
    BY <1>g, <2>2 DEF CreateGroup
  <2> QED
    BY <1>g, <2>1, <2>2 DEF CreateGroup
<1>4. CASE Adapt(w)
  BY <1>4 DEF Adapt
<1>5. CASE LoadContext(w)
  <2>1. ASSUME NEW g, NEW disks, NEW at, Loads(w, g, disks, at)
        PROVE  Moved(w)
    BY <1>0, <2>1 DEF Loads, Moved, Orchestrator
  <2>2. Moved(w)
    BY <1>5, <2>1, ContextMoves
  <2> QED
    BY <1>5, <2>2 DEF LoadContext
<1>6. CASE \E d \in Disks : CreateJob(w, d) \/ Populate(w, d)
  <2> PICK d \in Disks : CreateJob(w, d) \/ Populate(w, d)
    BY <1>6
  <2> DEFINE rest == worker[w].left \ {d}
  <2>1. CASE CreateJob(w, d)
    <3> DEFINE r == [worker[w] EXCEPT !.left = rest,
                        !.at = IF rest = {} THEN "transfer" ELSE "jobs"]
    <3>1. worker' = [worker EXCEPT ![w] = r] /\ r.task = worker[w].task
      BY <1>0, <2>1 DEF CreateJob, Orchestrator
    <3> HIDE DEF r
    <3> QED
      BY <2>1, <3>1 DEF CreateJob
  <2>2. CASE Populate(w, d)
    <3> DEFINE r == [worker[w] EXCEPT !.left = rest,
                        !.at = IF rest = {} THEN "starting" ELSE "populate",
                        !.seen = IF rest = {} THEN None ELSE row[Mine(w)].status]
    <3>1. (worker' = [worker EXCEPT ![w] = r] \/ Raise(w) \/ RaiseExpired(w))
             /\ r.task = worker[w].task
      BY <1>0, <2>2 DEF Populate, Orchestrator
    <3> HIDE DEF r
    <3> QED
      BY <2>2, <3>1 DEF Populate
  <2> QED
    BY <2>1, <2>2
<1>7. CASE SetStarting(w) \/ CreateVm(w) \/ StampVm(w) \/ CleanupTransit(w)
  BY <1>7 DEF SetStarting, CreateVm, StampVm, CleanupTransit
<1>8. CASE FailGuard(w) \/ FailCommit(w) \/ SoftTimeLimit(w) \/ Terminate(w)
  BY <1>8 DEF FailGuard, FailCommit, SoftTimeLimit, Terminate
<1> QED
  BY <1>1, <1>2, <1>e, <1>3, <1>g, <1>4, <1>5, <1>6, <1>7, <1>8 DEF OrchestratorStep

-----------------------------------------------------------------------------
(* Whoever acts goes on acting on a migration.                              *)
LEMMA TraceableStep ==
    ASSUME TypeOK, Traceable, [Next]_vars
    PROVE  Traceable'
<1> USE DEF data, broker
<1>0. /\ worker \in [Workers -> Orchestrator] /\ client \in [Clients -> Request]
      /\ target \in [Tasks -> Migrations \cup {None}] /\ queue \in [Tasks -> Nat]
  BY DEF TypeOK
<1>1. CASE UNCHANGED vars
  BY <1>1 DEF Traceable, Mine, vars
<1>2. CASE ConvertNext \/ \E g \in DOMAIN groups : ConversionStep(g)
  BY <1>2, ConversionFrame DEF Traceable, Mine
<1>3. ASSUME NEW w \in Workers,
             OrchestratorStep(w) \/ SoftTimeLimit(w) \/ Terminate(w)
      PROVE  Traceable'
  <2>1. UNCHANGED <<target, client, queue>> /\ Moved(w)
    BY <1>3, OrchestratorFrame
  <2>2. worker'[w].at # "idle" => worker[w].at # "idle"
    BY <1>0, <1>3, OrchestratorFrame DEF Terminate, Finish, IdleWorker
  <2> QED
    BY <2>1, <2>2 DEF Traceable, Mine, Moved
<1>4. ASSUME NEW w \in Workers, NEW t \in Tasks, Receive(w, t)
      PROVE  Traceable'
  <2>1. target[t] \in Migrations
    BY <1>4 DEF Receive, Traceable
  <2>2. \A v \in Workers : \/ worker'[v] = worker[v]
                            \/ worker'[v].task = t
    BY <1>0, <1>4 DEF Receive, IdleWorker
  <2>3. \A u \in Tasks : queue'[u] > 0 => queue[u] > 0
    BY <1>0, <1>4 DEF Receive
  <2> QED
    BY <1>4, <2>1, <2>2, <2>3 DEF Receive, Traceable, Mine
<1>5. ASSUME NEW w \in Workers, Crash(w) \/ Redeliver(w)
      PROVE  Traceable'
  <2>1. worker[w].task \in Tasks /\ target[worker[w].task] \in Migrations
    BY <1>5, BusyMine DEF Crash, Redeliver, Mine
  <2>2. \A v \in Workers : worker'[v] = worker[v] \/ worker'[v].at = "idle"
    BY <1>0, <1>5 DEF Crash, Redeliver, Finish, IdleWorker
  <2>3. \A u \in Tasks : u # worker[w].task => queue'[u] = queue[u]
    BY <1>0, <1>5 DEF Crash, Redeliver
  <2> QED
    BY <1>5, <2>1, <2>2, <2>3 DEF Crash, Redeliver, Traceable, Mine
<1>6. ASSUME NEW c \in Clients, ClientNext(c)
      PROVE  Traceable'
  <2>1. CASE \E t \in Tasks : StartPublish(c, t)
    <3>1. PICK t \in Tasks : StartPublish(c, t)
      BY <2>1
    <3>2. client[c].mig \in Migrations
      BY <3>1 DEF StartPublish, Traceable
    <3>3. /\ \A u \in Tasks : u # t => queue'[u] = queue[u] /\ target'[u] = target[u]
          /\ target'[t] = client[c].mig /\ target[t] = None
          /\ UNCHANGED worker
      BY <1>0, <3>1 DEF StartPublish
    <3>4. \A d \in Clients : client'[d].mig = client[d].mig
                              /\ (d # c => client'[d] = client[d])
      BY <1>0, <3>1 DEF StartPublish, Request
    <3>5. client[c].at # "idle"
      BY <3>1 DEF StartPublish
    <3> QED
      BY <3>2, <3>3, <3>4, <3>5 DEF Traceable, Mine
  <2>2. CASE ~ \E t \in Tasks : StartPublish(c, t)
    <3>1. UNCHANGED <<worker, queue, target>>
      BY <1>6, <2>2 DEF ClientNext, CreateBegin, StartBegin, CancelBegin, CreateLock, CreateInsert,
           StartValidate, StartBrokerDown, StartStampId, CancelRevoke, CancelCommit,
           CancelCleanup, HandlerDies
    <3>2. \A d \in Clients : d # c => client'[d] = client[d]
      BY <1>0, <1>6, <2>2 DEF ClientNext, CreateBegin, StartBegin, CancelBegin,
           CreateLock, CreateInsert, StartValidate, StartBrokerDown, StartStampId, CancelRevoke,
           CancelCommit, CancelCleanup, HandlerDies, Respond
    <3>3. client'[c].at # "idle" =>
             \/ client'[c].mig \in Migrations
             \/ client'[c].mig = client[c].mig /\ client[c].at # "idle"
      <4>1. CASE \E m \in Migrations : CreateBegin(c, m) \/ StartBegin(c, m)
                                         \/ CancelBegin(c, m)
        <5>1. ASSUME NEW m \in Migrations, CreateBegin(c, m) \/ StartBegin(c, m)
              PROVE  client'[c].mig = m
          BY <1>0, <5>1 DEF CreateBegin, StartBegin, IdleClient
        <5>2. ASSUME NEW m \in Migrations, CancelBegin(c, m)
              PROVE  client'[c].mig = m
          BY <1>0, <5>2 DEF CancelBegin
        <5> QED
          BY <4>1, <5>1, <5>2
      <4>2. CASE CreateLock(c) \/ StartValidate(c) \/ CancelRevoke(c) \/ CancelCommit(c)
        BY <1>0, <4>2 DEF CreateLock, StartValidate, CancelRevoke, CancelCommit, Request,
             Respond, IdleClient
      <4>3. CASE Respond(c)
        BY <1>0, <4>3 DEF Respond, IdleClient
      <4> QED
        BY <1>6, <2>2, <4>1, <4>2, <4>3 DEF ClientNext, CreateInsert, StartBrokerDown,
             StartStampId, CancelCleanup, HandlerDies
    <3> QED
      BY <3>1, <3>2, <3>3 DEF Traceable, Mine
  <2> QED
    BY <2>1, <2>2
<1> QED
  BY <1>1, <1>2, <1>3, <1>4, <1>5, <1>6 DEF Next, WorkerNext

-----------------------------------------------------------------------------
(* What a step may do to the rows.                                          *)

(* A status changes with its event, or becomes PENDING; only its worker at  *)
(* "complete" writes COMPLETED.                                             *)
RowStep ==
    \A m \in Migrations :
        \/ row'[m].status = row[m].status /\ audit'[m] = audit[m]
        \/ row'[m].status = "PENDING"
        \/ /\ audit'[m].to = row'[m].status
           /\ row'[m].status = "COMPLETED" =>
                 \E w \in Workers : worker[w].at = "complete" /\ Mine(w) = m

LEMMA SetStatusRow ==
    ASSUME TypeOK, NEW n, NEW seen, NEW new, SetStatus(n, seen, new),
           new = "COMPLETED" =>
              \E w \in Workers : worker[w].at = "complete" /\ Mine(w) = n
    PROVE  RowStep
<1>1. row \in [Migrations -> Row] /\ audit \in [Migrations -> Event]
  BY DEF TypeOK
<1>2. CASE seen = new
  BY <1>2 DEF SetStatus, RowStep
<1>3. CASE seen # new
  <2>1. \A m \in Migrations :
           \/ row'[m] = row[m] /\ audit'[m] = audit[m]
           \/ m = n /\ row'[m].status = new /\ audit'[m].to = new
    BY <1>1, <1>3 DEF SetStatus, Row
  <2> QED
    BY <2>1 DEF RowStep
<1> QED
  BY <1>2, <1>3

LEMMA RowStepLemma ==
    ASSUME TypeOK, [Next]_vars
    PROVE  RowStep
<1> USE DEF data, broker
<1>0. row \in [Migrations -> Row]
  BY DEF TypeOK
<1>u. ASSUME UNCHANGED <<row, audit>> PROVE RowStep
  BY <1>u DEF RowStep
<1>1. CASE UNCHANGED vars
  BY <1>1, <1>u DEF vars
<1>2. CASE ConvertNext \/ \E g \in DOMAIN groups : ConversionStep(g)
  BY <1>2, <1>u, ConversionFrame
<1>3. ASSUME NEW w \in Workers, OrchestratorStep(w)
      PROVE  RowStep
  <2>1. CASE \/ Validate(w) \/ Prepare(w) \/ Transfer(w) \/ Configure(w)
             \/ SetVerifying(w) \/ SetStarting(w) \/ FailCommit(w)
    BY <2>1, SetStatusRow DEF Validate, Prepare, Transfer, Configure, SetVerifying,
       SetStarting, FailCommit, Advance
  <2>2. CASE Complete(w)
    BY <2>2, SetStatusRow DEF Complete, Advance
  <2>3. CASE LoadContext(w)
    <3>1. row' = [row EXCEPT ![Mine(w)].named = TRUE] \/ row' = row
      BY <2>3 DEF LoadContext
    <3>2. \A m \in Migrations : row'[m].status = row[m].status
      BY <1>0, <3>1 DEF Row
    <3> QED
      BY <2>3, <3>2 DEF LoadContext, RowStep
  <2>4. CASE \/ CheckEligible(w) \/ FindGroup(w) \/ CreateGroup(w)
             \/ Enqueue(w) \/ WaitConversions(w) \/ Adapt(w) \/ CreateVm(w)
             \/ VerifyRunning(w) \/ StampVm(w) \/ CleanupTransit(w) \/ FailGuard(w)
             \/ \E d \in Disks : CreateJob(w, d) \/ Populate(w, d)
    BY <2>4, <1>u DEF CheckEligible, FindGroup, CreateGroup, Enqueue, WaitConversions,
       Adapt,
       CreateVm, VerifyRunning, StampVm, CleanupTransit, FailGuard, CreateJob, Populate
  <2> QED
    BY <1>3, <2>1, <2>2, <2>3, <2>4 DEF OrchestratorStep
<1>4. ASSUME NEW w \in Workers,
             \/ \E t \in Tasks : Receive(w, t)
             \/ SoftTimeLimit(w) \/ Terminate(w) \/ Crash(w) \/ Redeliver(w)
      PROVE  RowStep
  BY <1>4, <1>u DEF Receive, SoftTimeLimit, Terminate, Crash, Redeliver
<1>5. ASSUME NEW c \in Clients, ClientNext(c)
      PROVE  RowStep
  <2>1. CASE StartValidate(c) \/ CancelCommit(c)
    BY <2>1, <1>u, SetStatusRow DEF StartValidate, CancelCommit
  <2>2. CASE \E named \in Naming : CreateInsert(c, named)
    <3>1. \A m \in Migrations :
             \/ row'[m] = row[m] /\ audit'[m] = audit[m]
             \/ row'[m].status = "PENDING"
      BY <1>0, <2>2 DEF CreateInsert, TypeOK
    <3> QED
      BY <3>1 DEF RowStep
  <2>3. CASE StartBrokerDown(c)
    BY <1>0, <2>3 DEF StartBrokerDown, RowStep, Row
  <2>4. CASE StartStampId(c)
    BY <1>0, <2>4 DEF StartStampId, RowStep, Row
  <2>5. CASE \/ \E m \in Migrations : CreateBegin(c, m) \/ StartBegin(c, m)
                                      \/ CancelBegin(c, m)
             \/ \E t \in Tasks : StartPublish(c, t)
             \/ CreateLock(c) \/ CancelRevoke(c) \/ CancelCleanup(c) \/ HandlerDies(c)
    BY <2>5, <1>u DEF CreateBegin, StartBegin, CancelBegin, CreateLock, StartPublish,
       CancelRevoke, CancelCleanup, HandlerDies
  <2> QED
    BY <1>5, <2>1, <2>2, <2>3, <2>4, <2>5 DEF ClientNext
<1> QED
  BY <1>1, <1>2, <1>3, <1>4, <1>5 DEF Next, WorkerNext

-----------------------------------------------------------------------------
(* The VM row only ever becomes MIGRATED, and the worker that comes to      *)
(* "complete" is the one that made it so.                                   *)
StampStep ==
    /\ vm' \in {vm, "MIGRATED"}
    /\ \A w \in Workers : worker'[w].at = "complete" =>
          worker[w].at = "complete" \/ vm' = "MIGRATED"

(* Where a move leads.                                                      *)
LEMMA MovesAt ==
    ASSUME TypeOK, NEW w \in Workers
    PROVE  /\ \A stage : Goto(w, stage) \/ Expire(w, stage) \/ Reload(w, stage)
                            => worker'[w].at = stage
           /\ Raise(w) \/ RaiseExpired(w) => worker'[w].at = "fail"
           /\ Finish(w) => worker'[w].at = "idle"
<1>0. worker \in [Workers -> Orchestrator] /\ worker[w] \in Orchestrator
  BY DEF TypeOK
<1>1. ASSUME NEW stage, Goto(w, stage) PROVE worker'[w].at = stage
  BY <1>0, <1>1 DEF Goto, Orchestrator
<1>2. ASSUME NEW stage, Expire(w, stage) PROVE worker'[w].at = stage
  BY <1>0, <1>2 DEF Expire, Orchestrator
<1>3. ASSUME NEW stage, Reload(w, stage) PROVE worker'[w].at = stage
  <2>1. PICK seen : worker' = [worker EXCEPT ![w].at = stage, ![w].seen = seen]
    BY <1>3 DEF Reload
  <2> QED
    BY <1>0, <2>1 DEF Orchestrator
<1>4. ASSUME Finish(w) PROVE worker'[w].at = "idle"
  BY <1>0, <1>4 DEF Finish, IdleWorker
<1> QED
  BY <1>1, <1>2, <1>3, <1>4 DEF Raise, RaiseExpired

LEMMA StampStepLemma ==
    ASSUME TypeOK, [Next]_vars
    PROVE  StampStep
<1> USE DEF data, broker
<1>0. worker \in [Workers -> Orchestrator]
  BY DEF TypeOK
<1>u. ASSUME UNCHANGED <<vm, worker>> PROVE StampStep
  BY <1>u DEF StampStep
<1>1. CASE UNCHANGED vars
  BY <1>1, <1>u DEF vars
<1>2. CASE ConvertNext \/ \E g \in DOMAIN groups : ConversionStep(g)
  BY <1>2, <1>u, ConversionFrame
<1>3. ASSUME NEW c \in Clients, ClientNext(c)
      PROVE  StampStep
  BY <1>3, <1>u DEF ClientNext, CreateBegin, StartBegin, CancelBegin, CreateLock, CreateInsert,
     StartPublish, StartValidate, StartBrokerDown, StartStampId, CancelRevoke,
     CancelCommit, CancelCleanup, HandlerDies
<1>4. ASSUME NEW w \in Workers, Moved(w), vm' = vm, worker'[w].at # "complete"
      PROVE  StampStep
  BY <1>4 DEF Moved, StampStep
<1>5. ASSUME NEW w \in Workers,
             OrchestratorStep(w) \/ SoftTimeLimit(w) \/ Terminate(w)
      PROVE  StampStep
  <2>0. Moved(w)
    BY <1>5, OrchestratorFrame
  <2> USE MovesAt
  <2>1. CASE StampVm(w)
    BY <2>1 DEF StampVm, StampStep
  <2>2. CASE \/ Validate(w) \/ Prepare(w) \/ Transfer(w) \/ Configure(w)
             \/ SetVerifying(w) \/ Complete(w)
    BY <1>4, <2>0, <2>2 DEF Validate, Prepare, Transfer, Configure, SetVerifying,
       Complete, Advance
  <2>3. CASE \/ CheckEligible(w) \/ WaitConversions(w)
             \/ VerifyRunning(w) \/ SetStarting(w) \/ CreateVm(w)
             \/ CleanupTransit(w)
    BY <1>4, <2>0, <2>3 DEF CheckEligible, WaitConversions, VerifyRunning,
       SetStarting, CreateVm, CleanupTransit
  <2>e. CASE Enqueue(w)
    <3>1. \/ \E left : worker' = [worker EXCEPT ![w].at = "wait", ![w].seen = None,
                                              ![w].left = left]
          \/ \E left : worker' = [worker EXCEPT ![w].left = left]
          \/ Expire(w, "wait") \/ Raise(w)
      BY <2>e DEF Enqueue
    <3>2. ASSUME NEW left, worker' = [worker EXCEPT ![w].at = "wait", ![w].seen = None,
                                                    ![w].left = left]
          PROVE  worker'[w].at = "wait"
      BY <1>0, <3>2 DEF Orchestrator
    <3>3. ASSUME NEW left, worker' = [worker EXCEPT ![w].left = left]
          PROVE  worker'[w].at = "enqueue"
      BY <1>0, <2>e, <3>3 DEF Orchestrator, Enqueue
    <3>4. worker'[w].at # "complete"
      BY <3>1, <3>2, <3>3
    <3> QED
      BY <1>4, <2>0, <2>e, <3>4 DEF Enqueue
  <2>4. CASE Adapt(w) \/ FailGuard(w) \/ FailCommit(w) \/ SoftTimeLimit(w) \/ Terminate(w)
    BY <1>4, <2>0, <2>4 DEF Adapt, FailGuard, FailCommit, SoftTimeLimit, Terminate
  <2>5. CASE FindGroup(w)
    <3>1. CASE Goto(w, "list")
      BY <1>4, <2>0, <2>5, <3>1 DEF FindGroup
    <3>2. CASE \E g : worker' = [worker EXCEPT ![w].at = "transfer", ![w].own = g]
      <4>1. worker'[w].at = "transfer"
        BY <1>0, <3>2 DEF Orchestrator
      <4> QED
        BY <1>4, <2>0, <2>5, <4>1 DEF FindGroup
    <3> QED
      BY <2>5, <3>1, <3>2 DEF FindGroup
  <2>g. CASE CreateGroup(w)
    <3>1. CASE Raise(w)
      BY <1>4, <2>0, <2>g, <3>1 DEF CreateGroup
    <3>2. CASE worker' = [worker EXCEPT ![w].at = "jobs", ![w].own = Len(groups) + 1,
                                        ![w].left = Disks, ![w].seen = None]
      <4>1. worker'[w].at = "jobs"
        BY <1>0, <3>2 DEF Orchestrator
      <4> QED
        BY <1>4, <2>0, <2>g, <4>1 DEF CreateGroup
    <3> QED
      BY <2>g, <3>1, <3>2 DEF CreateGroup
  <2>6. CASE LoadContext(w)
    <3>1. ASSUME NEW g, NEW disks, NEW at, Loads(w, g, disks, at)
          PROVE  worker'[w].at = at
      BY <1>0, <3>1 DEF Loads, Orchestrator
    <3>2. worker'[w].at \in {"fail", "populate"}
      BY <2>6, <3>1, ContextMoves
    <3> QED
      BY <1>4, <2>0, <2>6, <3>2 DEF LoadContext
  <2>7. ASSUME NEW d \in Disks, CreateJob(w, d)
        PROVE  StampStep
    <3>1. PICK next \in {"transfer", "jobs"} : \E left :
             worker' = [worker EXCEPT ![w].left = left, ![w].at = next]
      BY <2>7 DEF CreateJob
    <3>2. worker'[w].at = next
      BY <1>0, <3>1 DEF Orchestrator
    <3> QED
      BY <1>4, <2>0, <2>7, <3>2 DEF CreateJob
  <2>8. ASSUME NEW d \in Disks, Populate(w, d)
        PROVE  StampStep
    <3>1. CASE Raise(w) \/ RaiseExpired(w)
      BY <1>4, <2>0, <2>8, <3>1 DEF Populate
    <3> DEFINE rest == worker[w].left \ {d}
               next == IF rest = {} THEN "starting" ELSE "populate"
               seen == IF rest = {} THEN None ELSE row[Mine(w)].status
    <3>2. CASE worker' = [worker EXCEPT ![w].left = rest, ![w].at = next,
                                        ![w].seen = seen]
      <4>1. next # "complete"
        OBVIOUS
      <4> HIDE DEF rest, next, seen
      <4>2. worker'[w].at = next
        BY <1>0, <3>2 DEF Orchestrator
      <4> QED
        BY <1>4, <2>0, <2>8, <4>1, <4>2 DEF Populate
    <3> QED
      BY <2>8, <3>1, <3>2 DEF Populate
  <2> QED
    BY <1>5, <2>1, <2>2, <2>3, <2>e, <2>4, <2>5, <2>g, <2>6, <2>7, <2>8
       DEF OrchestratorStep
<1>6. ASSUME NEW w \in Workers,
             (\E t \in Tasks : Receive(w, t)) \/ Crash(w) \/ Redeliver(w)
      PROVE  StampStep
  <2>1. \A v \in Workers :
           worker'[v] = worker[v] \/ worker'[v].at \in {"validate", "idle"}
    <3>1. CASE Redeliver(w)
      BY <3>1 DEF Redeliver
    <3>2. CASE Crash(w)
      BY <1>0, <3>2 DEF Crash, Finish, IdleWorker
    <3>3. ASSUME NEW t \in Tasks, Receive(w, t)
          PROVE  \A v \in Workers : worker'[v] = worker[v] \/ worker'[v].at = "validate"
      <4>1. PICK seen : \/ worker' = worker
                        \/ worker' = [worker EXCEPT ![w] = [IdleWorker EXCEPT
                                !.at = "validate", !.task = t, !.seen = seen]]
        BY <3>3 DEF Receive
      <4> QED
        BY <1>0, <4>1 DEF IdleWorker
    <3> QED
      BY <1>6, <3>1, <3>2, <3>3
  <2> QED
    BY <1>6, <2>1 DEF Receive, Crash, Redeliver, StampStep
<1> QED
  BY <1>1, <1>2, <1>3, <1>5, <1>6 DEF Next, WorkerNext

(* A worker comes to stamp the VM row from a VirtualMachine that runs.      *)
LEMMA StampReached ==
    ASSUME TypeOK, NEW w \in Workers, WorkerNext(w)
    PROVE  \A v \in Workers : worker'[v].at = "stamp" =>
              worker[v].at = "stamp" \/ cluster.vm # None
<1> DEFINE Reached == \A v \in Workers : worker'[v].at = "stamp" =>
                        worker[v].at = "stamp" \/ cluster.vm # None
<1>0. worker \in [Workers -> Orchestrator]
  BY DEF TypeOK
<1>4. ASSUME Moved(w), worker'[w].at # "stamp"
      PROVE  Reached
  BY <1>4 DEF Moved
<1>5. ASSUME OrchestratorStep(w) \/ SoftTimeLimit(w) \/ Terminate(w)
      PROVE  Reached
  <2>0. Moved(w)
    BY <1>5, OrchestratorFrame
  <2> USE MovesAt
  <2>1. CASE VerifyRunning(w)
    <3>1. CASE Raise(w)
      BY <1>4, <2>0, <3>1
    <3>2. CASE cluster.vm # None
      BY <3>2
    <3> QED
      BY <2>1, <3>1, <3>2 DEF VerifyRunning
  <2>2. CASE \/ Validate(w) \/ Prepare(w) \/ Transfer(w) \/ Configure(w)
             \/ SetVerifying(w) \/ Complete(w)
    BY <1>4, <2>0, <2>2 DEF Validate, Prepare, Transfer, Configure, SetVerifying,
       Complete, Advance
  <2>3. CASE \/ CheckEligible(w) \/ WaitConversions(w)
             \/ StampVm(w) \/ SetStarting(w) \/ CreateVm(w)
             \/ CleanupTransit(w)
    BY <1>4, <2>0, <2>3 DEF CheckEligible, WaitConversions, StampVm,
       SetStarting, CreateVm, CleanupTransit
  <2>e. CASE Enqueue(w)
    <3>1. \/ \E left : worker' = [worker EXCEPT ![w].at = "wait", ![w].seen = None,
                                              ![w].left = left]
          \/ \E left : worker' = [worker EXCEPT ![w].left = left]
          \/ Expire(w, "wait") \/ Raise(w)
      BY <2>e DEF Enqueue
    <3>2. ASSUME NEW left, worker' = [worker EXCEPT ![w].at = "wait", ![w].seen = None,
                                                    ![w].left = left]
          PROVE  worker'[w].at = "wait"
      BY <1>0, <3>2 DEF Orchestrator
    <3>3. ASSUME NEW left, worker' = [worker EXCEPT ![w].left = left]
          PROVE  worker'[w].at = "enqueue"
      BY <1>0, <2>e, <3>3 DEF Orchestrator, Enqueue
    <3>4. worker'[w].at # "stamp"
      BY <3>1, <3>2, <3>3
    <3> QED
      BY <1>4, <2>0, <2>e, <3>4 DEF Enqueue
  <2>4. CASE Adapt(w) \/ FailGuard(w) \/ FailCommit(w) \/ SoftTimeLimit(w) \/ Terminate(w)
    BY <1>4, <2>0, <2>4 DEF Adapt, FailGuard, FailCommit, SoftTimeLimit, Terminate
  <2>5. CASE FindGroup(w)
    <3>1. CASE Goto(w, "list")
      BY <1>4, <2>0, <2>5, <3>1 DEF FindGroup
    <3>2. CASE \E g : worker' = [worker EXCEPT ![w].at = "transfer", ![w].own = g]
      <4>1. worker'[w].at = "transfer"
        BY <1>0, <3>2 DEF Orchestrator
      <4> QED
        BY <1>4, <2>0, <2>5, <4>1 DEF FindGroup
    <3> QED
      BY <2>5, <3>1, <3>2 DEF FindGroup
  <2>g. CASE CreateGroup(w)
    <3>1. CASE Raise(w)
      BY <1>4, <2>0, <2>g, <3>1 DEF CreateGroup
    <3>2. CASE worker' = [worker EXCEPT ![w].at = "jobs", ![w].own = Len(groups) + 1,
                                        ![w].left = Disks, ![w].seen = None]
      <4>1. worker'[w].at = "jobs"
        BY <1>0, <3>2 DEF Orchestrator
      <4> QED
        BY <1>4, <2>0, <2>g, <4>1 DEF CreateGroup
    <3> QED
      BY <2>g, <3>1, <3>2 DEF CreateGroup
  <2>6. CASE LoadContext(w)
    <3>1. ASSUME NEW g, NEW disks, NEW at, Loads(w, g, disks, at)
          PROVE  worker'[w].at = at
      BY <1>0, <3>1 DEF Loads, Orchestrator
    <3>2. worker'[w].at \in {"fail", "populate"}
      BY <2>6, <3>1, ContextMoves
    <3> QED
      BY <1>4, <2>0, <2>6, <3>2 DEF LoadContext
  <2>7. ASSUME NEW d \in Disks, CreateJob(w, d)
        PROVE  Reached
    <3>1. PICK next \in {"transfer", "jobs"} : \E left :
             worker' = [worker EXCEPT ![w].left = left, ![w].at = next]
      BY <2>7 DEF CreateJob
    <3>2. worker'[w].at = next
      BY <1>0, <3>1 DEF Orchestrator
    <3> QED
      BY <1>4, <2>0, <2>7, <3>2 DEF CreateJob
  <2>8. ASSUME NEW d \in Disks, Populate(w, d)
        PROVE  Reached
    <3>1. CASE Raise(w) \/ RaiseExpired(w)
      BY <1>4, <2>0, <2>8, <3>1 DEF Populate
    <3> DEFINE rest == worker[w].left \ {d}
               next == IF rest = {} THEN "starting" ELSE "populate"
               seen == IF rest = {} THEN None ELSE row[Mine(w)].status
    <3>2. CASE worker' = [worker EXCEPT ![w].left = rest, ![w].at = next,
                                        ![w].seen = seen]
      <4>1. next # "stamp"
        OBVIOUS
      <4> HIDE DEF rest, next, seen
      <4>2. worker'[w].at = next
        BY <1>0, <3>2 DEF Orchestrator
      <4> QED
        BY <1>4, <2>0, <2>8, <4>1, <4>2 DEF Populate
    <3> QED
      BY <2>8, <3>1, <3>2 DEF Populate
  <2> QED
    BY <1>5, <2>1, <2>2, <2>3, <2>e, <2>4, <2>5, <2>g, <2>6, <2>7, <2>8
       DEF OrchestratorStep
<1>6. ASSUME (\E t \in Tasks : Receive(w, t)) \/ Crash(w) \/ Redeliver(w)
      PROVE  Reached
  <2>1. \A v \in Workers :
           worker'[v] = worker[v] \/ worker'[v].at \in {"validate", "idle"}
    <3>1. CASE Redeliver(w)
      BY <3>1 DEF Redeliver
    <3>2. CASE Crash(w)
      BY <1>0, <3>2 DEF Crash, Finish, IdleWorker
    <3>3. ASSUME NEW t \in Tasks, Receive(w, t)
          PROVE  \A v \in Workers : worker'[v] = worker[v] \/ worker'[v].at = "validate"
      <4>1. PICK seen : \/ worker' = worker
                        \/ worker' = [worker EXCEPT ![w] = [IdleWorker EXCEPT
                                !.at = "validate", !.task = t, !.seen = seen]]
        BY <3>3 DEF Receive
      <4> QED
        BY <1>0, <4>1 DEF IdleWorker
    <3> QED
      BY <1>6, <3>1, <3>2, <3>3
  <2> QED
    BY <2>1
<1> QED
  BY <1>5, <1>6 DEF WorkerNext

-----------------------------------------------------------------------------
(* Both are inductive together: the tables are indexed by what workers and  *)
(* requests hold.                                                           *)
LEMMA BaseInvariant == Spec => [](TypeOK /\ Traceable)
<1>1. Init => TypeOK /\ Traceable
  <2> SUFFICES ASSUME Init PROVE TypeOK /\ Traceable
    OBVIOUS
  <2>1. TypeOK
    <3>1. <<>> \in Seq(Group)
      BY EmptySeq
    <3>2. IdleWorker \in Orchestrator /\ IdleClient \in Request
      BY DEF IdleWorker, IdleClient, Orchestrator, Request
    <3>3. cluster \in Cluster /\ row \in [Migrations -> Row]
          /\ audit \in [Migrations -> Event]
      BY DEF Init, Cluster, Row, Event
    <3> QED
      BY <3>1, <3>2, <3>3 DEF Init, TypeOK, VmStatus, CanMigrate
  <2>2. Traceable
    BY DEF Init, Traceable, IdleWorker, IdleClient
  <2> QED
    BY <2>1, <2>2
<1>2. (TypeOK /\ Traceable) /\ [Next]_vars => (TypeOK /\ Traceable)'
  BY TypeStep, TraceableStep
<1> QED
  BY <1>1, <1>2, PTL DEF Spec

-----------------------------------------------------------------------------
(* THEOREMS                                                                *)

(* Every variable keeps its type, in every behaviour, because whoever acts, *)
(* acts on a migration that exists (Traceable).                             *)
THEOREM TypeCorrect == Spec => []TypeOK
  BY BaseInvariant, PTL

(* The journal agrees with the rows in every behaviour: any number of      *)
(* duplicate orchestrators, crashes, cancels and stale sessions.  It holds *)
(* because every status write but the reset to PENDING goes through        *)
(* set_migration_status, which commits the row and its event together.     *)
THEOREM AuditFollowsRow == Spec => []AuditMirrorsStatus
<1>1. Init => AuditMirrorsStatus
  BY DEF Init, AuditMirrorsStatus
<1>2. TypeOK /\ AuditMirrorsStatus /\ [Next]_vars => AuditMirrorsStatus'
  <2> SUFFICES ASSUME TypeOK, AuditMirrorsStatus, [Next]_vars,
                      NEW m \in Migrations
               PROVE  audit'[m].to = row'[m].status \/ row'[m].status = "PENDING"
    BY DEF AuditMirrorsStatus
  <2> QED
    BY RowStepLemma DEF RowStep, AuditMirrorsStatus
<1> QED
  BY <1>1, <1>2, TypeCorrect, PTL DEF Spec

(* What was spent stays spent.                                              *)
SpentStays == \A what \in Bounded : spent[what] > 0 => spent'[what] > 0

LEMMA SpendGrows ==
    ASSUME TypeOK, NEW what \in Bounded, NEW max, Spend(what, max)
    PROVE  SpentStays /\ spent'[what] > 0
<1>1. spent \in [Bounded -> Nat]
  BY DEF TypeOK
<1>2. spent' = [spent EXCEPT ![what] = @ + 1]
  BY DEF Spend
<1>3. \A b \in Bounded : spent'[b] = IF b = what THEN spent[b] + 1 ELSE spent[b]
  BY <1>1, <1>2
<1> QED
  BY <1>1, <1>3 DEF SpentStays

LEMMA SpentGrows ==
    ASSUME TypeOK, [Next]_vars
    PROVE  SpentStays
<1> USE DEF data, broker
<1>1. CASE UNCHANGED spent
  BY <1>1 DEF SpentStays
<1>2. CASE \E what \in Bounded : \E max : Spend(what, max)
  BY <1>2, SpendGrows
<1>b. /\ "convert" \in Bounded /\ "relapse" \in Bounded /\ "overlap" \in Bounded
      /\ "limit" \in Bounded /\ "crash" \in Bounded /\ "redeliver" \in Bounded
      /\ "cancel" \in Bounded /\ "overtaken" \in Bounded /\ "broker" \in Bounded
      /\ "handler" \in Bounded
  BY DEF Bounded
<1>3. CASE UNCHANGED vars
  BY <1>1, <1>3 DEF vars
<1>4. CASE ConvertNext
  BY <1>1, <1>2, <1>b, <1>4 DEF ConvertNext, ConvertBegin, ConvertJob, ConvertEnqueue,
     ConvertRefuse
<1>5. ASSUME NEW g \in DOMAIN groups, ConversionStep(g) PROVE SpentStays
  BY <1>1, <1>2, <1>b, <1>5, ConversionEffect
<1>6. ASSUME NEW c \in Clients, ClientNext(c) PROVE SpentStays
  BY <1>1, <1>2, <1>b, <1>6 DEF ClientNext, CreateBegin, StartBegin, CancelBegin, CreateLock,
     CreateInsert, StartPublish, StartValidate, StartBrokerDown, StartStampId,
     CancelRevoke, CancelCommit, CancelCleanup, HandlerDies
<1>7. ASSUME NEW w \in Workers, OrchestratorStep(w) PROVE SpentStays
  <2>1. ASSUME NEW g, NEW disks, Completed(g, disks) PROVE SpentStays
    BY <1>1, <1>2, <1>b, <2>1 DEF Completed
  <2>2. CASE Adapt(w)
    BY <1>1, <2>1, <2>2 DEF Adapt
  <2>3. CASE LoadContext(w)
    BY <1>1, <2>1, <2>3 DEF LoadContext
  <2>4. CASE ~Adapt(w) /\ ~LoadContext(w)
    <3>1. UNCHANGED spent
      BY <1>7, <2>4 DEF OrchestratorStep, Validate, Prepare, Transfer, Configure,
         SetVerifying, Complete, Advance, CheckEligible, FindGroup, CreateGroup,
         CreateJob, Populate, Enqueue, WaitConversions, SetStarting, CreateVm,
         VerifyRunning, StampVm, CleanupTransit, FailGuard, FailCommit
    <3> QED
      BY <1>1, <3>1
  <2> QED
    BY <2>2, <2>3, <2>4
<1>8. ASSUME NEW w \in Workers, WorkerNext(w), ~OrchestratorStep(w) PROVE SpentStays
  BY <1>1, <1>2, <1>b, <1>8 DEF WorkerNext, Receive, SoftTimeLimit, Terminate, Crash,
     Redeliver
<1> QED
  BY <1>3, <1>4, <1>5, <1>6, <1>7, <1>8 DEF Next

(* Only a cancel takes a VirtualMachine away: whoever found the machine     *)
(* running may count on it until one came.                                  *)
Cancelled == spent["cancel"] > 0

Standing ==
    /\ \A c \in Clients : client[c].at \in {"revoke", "cancel", "cleanup"} => Cancelled
    /\ \A w \in Workers : worker[w].at = "stamp" => cluster.vm # None \/ Cancelled
    /\ vm = "MIGRATED" => cluster.vm # None \/ Cancelled

LEMMA CancelledStays ==
    ASSUME TypeOK, [Next]_vars
    PROVE  Cancelled => Cancelled'
<1>1. "cancel" \in Bounded
  BY DEF Bounded
<1> QED
  BY <1>1, SpentGrows DEF Cancelled, SpentStays

LEMMA StandingWorker ==
    ASSUME TypeOK, Traceable, Standing, NEW w \in Workers,
           WorkerNext(w)
    PROVE  Standing'
<1> USE DEF data, broker
<1>0. worker \in [Workers -> Orchestrator] /\ cluster \in Cluster
  BY DEF TypeOK
<1>1. Cancelled => Cancelled'
  BY CancelledStays DEF Next
<1>2. /\ UNCHANGED client
      /\ cluster.vm # None => cluster'.vm # None
  <2>1. CASE CreateVm(w)
    <3>1. Mine(w) # None
      BY <2>1, BusyMine, ConstantsAssumption DEF CreateVm
    <3>2. UNCHANGED cluster \/ cluster' = [cluster EXCEPT !.vm = Mine(w)]
      BY <2>1 DEF CreateVm
    <3>3. cluster.vm # None => cluster'.vm # None
      BY <1>0, <3>1, <3>2 DEF Cluster
    <3> QED
      BY <2>1, <3>3 DEF CreateVm
  <2>2. CASE Adapt(w)
    <3>1. UNCHANGED cluster \/ cluster' = [cluster EXCEPT !.fixed = @ \cup {Mine(w)}]
      BY <2>2 DEF Adapt
    <3>2. cluster'.vm = cluster.vm
      BY <1>0, <3>1 DEF Cluster
    <3> QED
      BY <2>2, <3>2 DEF Adapt
  <2>3. ASSUME NEW d \in Disks, Populate(w, d)
        PROVE  cluster'.vm = cluster.vm /\ UNCHANGED client
    <3>1. \/ UNCHANGED cluster
          \/ cluster' = [cluster EXCEPT !.pvcs = @ \cup {<<Mine(w), d>>}]
      BY <2>3 DEF Populate
    <3>2. cluster'.vm = cluster.vm
      BY <1>0, <3>1 DEF Cluster
    <3> QED
      BY <2>3, <3>2 DEF Populate
  <2>4. CASE ~CreateVm(w) /\ ~Adapt(w) /\ ~ \E d \in Disks : Populate(w, d)
    BY <2>4 DEF WorkerNext, OrchestratorStep, Validate, Prepare, Transfer, Configure,
       SetVerifying, Complete, Advance, CheckEligible, FindGroup, CreateGroup,
       CreateJob, Enqueue, WaitConversions, LoadContext, SetStarting,
       VerifyRunning, StampVm, CleanupTransit, FailGuard, FailCommit,
       Receive, SoftTimeLimit, Terminate, Crash, Redeliver
  <2> QED
    BY <2>1, <2>2, <2>3, <2>4
<1>3. \A v \in Workers : worker'[v].at = "stamp" =>
         worker[v].at = "stamp" \/ cluster.vm # None
  BY StampReached
<1>4. vm' = vm \/ worker[w].at = "stamp"
  BY DEF WorkerNext, OrchestratorStep, Validate, Prepare, Transfer, Configure,
     SetVerifying, Complete, Advance, CheckEligible, FindGroup, CreateGroup,
     CreateJob, Populate, Enqueue, WaitConversions, Adapt, LoadContext, SetStarting,
     CreateVm, VerifyRunning, StampVm, CleanupTransit, FailGuard, FailCommit,
     Receive, SoftTimeLimit, Terminate, Crash, Redeliver
<1> QED
  BY <1>1, <1>2, <1>3, <1>4 DEF Standing

LEMMA StandingStep ==
    ASSUME TypeOK, Traceable, Standing, [Next]_vars
    PROVE  Standing'
<1> USE DEF data, broker
<1>0. client \in [Clients -> Request]
  BY DEF TypeOK
<1>1. ASSUME UNCHANGED <<vm, cluster, worker, client>>, Cancelled => Cancelled'
      PROVE  Standing'
  BY <1>1 DEF Standing
<1>2. CASE UNCHANGED vars
  BY <1>1, <1>2 DEF vars, Cancelled
<1>3. CASE ConvertNext \/ \E g \in DOMAIN groups : ConversionStep(g)
  <2>3. Cancelled => Cancelled'
    BY CancelledStays
  <2> QED
    BY <1>1, <1>3, <2>3, ConversionFrame
<1>4. ASSUME NEW c \in Clients, ClientNext(c)
      PROVE  Standing'
  <2>1. UNCHANGED <<vm, worker>>
    BY <1>4 DEF ClientNext, CreateBegin, StartBegin, CancelBegin, CreateLock, CreateInsert,
       StartPublish, StartValidate, StartBrokerDown, StartStampId, CancelRevoke,
       CancelCommit, CancelCleanup, HandlerDies
  <2>2. Cancelled => Cancelled'
    BY CancelledStays
  <2>3. \A d \in Clients : client'[d].at \in {"revoke", "cancel", "cleanup"} =>
           \/ client[d].at \in {"revoke", "cancel", "cleanup"}
           \/ Cancelled'
    <3>1. ASSUME NEW m \in Migrations, CancelBegin(c, m)
          PROVE  Cancelled'
      <4>1. "cancel" \in Bounded
        BY DEF Bounded
      <4> QED
        BY <3>1, <4>1, SpendGrows DEF CancelBegin, Cancelled
    <3>2. CASE ~ \E m \in Migrations : CancelBegin(c, m)
      <4>1. \A d \in Clients : d # c => client'[d] = client[d]
        BY <1>0, <1>4, <3>2 DEF ClientNext, CreateBegin, StartBegin, CreateLock,
           CreateInsert, StartPublish, StartValidate, StartBrokerDown, StartStampId,
           CancelRevoke, CancelCommit, CancelCleanup, HandlerDies, Respond
      <4>2. CASE \E m \in Migrations : CreateBegin(c, m) \/ StartBegin(c, m)
        <5>1. client'[c].at \in {"create", "start"}
          BY <1>0, <4>2 DEF CreateBegin, StartBegin, IdleClient
        <5> QED
          BY <4>1, <5>1
      <4>3. CASE Respond(c)
        <5>1. client'[c].at = "idle"
          BY <1>0, <4>3 DEF Respond, IdleClient
        <5> QED
          BY <4>1, <5>1
      <4>4. CASE \/ CreateLock(c) \/ StartValidate(c) \/ \E t \in Tasks : StartPublish(c, t)
        <5>1. client'[c].at \in {"insert", "publish", "stampid"} \/ Respond(c)
          BY <1>0, <4>4 DEF CreateLock, StartValidate, StartPublish, Request
        <5> QED
          BY <4>1, <4>3, <5>1
      <4>5. CASE CancelRevoke(c) \/ CancelCommit(c)
        <5>1. client[c].at \in {"revoke", "cancel"}
          BY <4>5 DEF CancelRevoke, CancelCommit
        <5> QED
          BY <4>1, <5>1
      <4> QED
        BY <1>4, <3>2, <4>2, <4>3, <4>4, <4>5 DEF ClientNext, CreateInsert,
           StartBrokerDown, StartStampId, CancelCleanup, HandlerDies
    <3> QED
      BY <3>1, <3>2
  <2>4. cluster' = cluster \/ client[c].at = "cleanup"
    BY <1>4 DEF ClientNext, CreateBegin, StartBegin, CancelBegin, CreateLock, CreateInsert,
       StartPublish, StartValidate, StartBrokerDown, StartStampId, CancelRevoke,
       CancelCommit, CancelCleanup, HandlerDies
  <2> QED
    BY <2>1, <2>2, <2>3, <2>4 DEF Standing
<1> QED
  BY <1>2, <1>3, <1>4, StandingWorker DEF Next

(* A migration is COMPLETED only if the VM row says MIGRATED, and the row   *)
(* says so only of a VM that runs until somebody cancels: the worker that   *)
(* writes COMPLETED stamped the VM row before, and found the VM running     *)
(* before that, whatever other workers and requests did in between.         *)
THEOREM CompletedImpliesMigrated == Spec => []CompletedIsMigrated
<1> DEFINE Inv == CompletedIsMigrated /\ StampedBeforeComplete /\ Standing
<1>1. Init => Inv
  BY NoneAssumption DEF Init, CompletedIsMigrated, StampedBeforeComplete, IdleWorker,
     IdleClient, Status, Terminal, Standing
<1>2. (TypeOK /\ Traceable) /\ Inv /\ [Next]_vars => Inv'
  <2> SUFFICES ASSUME TypeOK, Traceable, Inv, [Next]_vars
               PROVE  Inv'
    OBVIOUS
  <2>1. StampedBeforeComplete'
    BY StampStepLemma DEF StampStep, StampedBeforeComplete
  <2>2. Standing'
    BY StandingStep
  <2>3. ASSUME NEW m \in Migrations, row'[m].status = "COMPLETED"
        PROVE  vm' = "MIGRATED"
    <3>1. row[m].status = "COMPLETED" \/ \E w \in Workers : worker[w].at = "complete"
      BY <2>3, RowStepLemma DEF RowStep
    <3>2. vm = "MIGRATED"
      BY <3>1 DEF CompletedIsMigrated, StampedBeforeComplete
    <3> QED
      BY <3>2, StampStepLemma DEF StampStep
  <2> QED
    BY <2>1, <2>2, <2>3 DEF CompletedIsMigrated, Standing, Cancelled
<1>3. Inv => CompletedIsMigrated
  OBVIOUS
<1> QED
  BY <1>1, <1>2, <1>3, BaseInvariant, PTL DEF Spec

-----------------------------------------------------------------------------
(* What an orchestrator's step does, seen from outside: it writes the       *)
(* status of its stage, or passes on without writing one.                   *)
WriteStage(at, status, next) ==
    \/ at = "validate" /\ status = "VALIDATING" /\ next = "eligible"
    \/ at = "prepare" /\ status = "PREPARING" /\ next = "group"
    \/ at = "transfer" /\ status = "TRANSFERRING" /\ next = "enqueue"
    \/ at = "configure" /\ status = "CONFIGURING" /\ next = "context"
    \/ at = "starting" /\ status = "STARTING" /\ next = "create"
    \/ at = "verifying" /\ status = "VERIFYING" /\ next = "running"
    \/ at = "complete" /\ status = "COMPLETED" /\ next = "cleanup"
    \/ at = "failed" /\ status = "FAILED" /\ next = "idle"

Writing == {"validate", "prepare", "transfer", "configure", "starting",
            "verifying", "complete", "failed"}

Wrote(w) ==
    \E status, seen :
       /\ WriteStage(worker[w].at, status, worker'[w].at)
       /\ seen = IF worker[w].at = "failed" THEN worker[w].seen ELSE Loaded(w)
       /\ SetStatus(Mine(w), seen, status)
       /\ worker'[w].at # "idle" =>
             worker'[w].seen \in {None, row'[Mine(w)].status}
       /\ UNCHANGED <<vm, groups, cluster>>

Passed(w) ==
    /\ \A m \in Migrations : row'[m].status = row[m].status
    /\ UNCHANGED audit
    /\ worker[w].at \notin Writing
    /\ worker'[w].at # "idle" =>
          /\ {worker[w].at, worker'[w].at} \cap {"idle", "cleanup"} = {}
          /\ worker'[w].seen \in {worker[w].seen, None, row[Mine(w)].status}
    /\ worker'[w].at = "idle" => worker[w].at \in {"cleanup", "fail"}

(* What the session shows after a move.                                     *)
LEMMA MovesSeen ==
    ASSUME TypeOK, NEW w \in Workers
    PROVE  /\ \A stage : Goto(w, stage) => worker'[w].seen = worker[w].seen
           /\ \A stage : Expire(w, stage) => worker'[w].seen = None
           /\ \A stage : Reload(w, stage) =>
                 worker'[w].seen = row'[Mine(w)].status
           /\ Raise(w) => worker'[w].seen = worker[w].seen
           /\ RaiseExpired(w) => worker'[w].seen = None
<1>0. worker \in [Workers -> Orchestrator] /\ worker[w] \in Orchestrator
  BY DEF TypeOK
<1>1. ASSUME NEW stage, Goto(w, stage) PROVE worker'[w].seen = worker[w].seen
  BY <1>0, <1>1 DEF Goto, Orchestrator
<1>2. ASSUME NEW stage, Expire(w, stage) PROVE worker'[w].seen = None
  BY <1>0, <1>2 DEF Expire, Orchestrator
<1>3. ASSUME NEW stage, Reload(w, stage)
      PROVE  worker'[w].seen = row'[Mine(w)].status
  <2>1. PICK seen : worker' = [worker EXCEPT ![w].at = stage, ![w].seen = seen]
                       /\ seen = row'[Mine(w)].status
    BY <1>3 DEF Reload
  <2> QED
    BY <1>0, <2>1 DEF Orchestrator
<1> QED
  BY <1>1, <1>2, <1>3 DEF Raise, RaiseExpired

(* An orchestrator that advances has written.                               *)
LEMMA AdvanceWrote ==
    ASSUME TypeOK, NEW w \in Workers, NEW at, NEW status, NEW next,
           WriteStage(at, status, next), at # "failed", Advance(w, at, status, next)
    PROVE  Wrote(w)
<1>1. worker[w].at = at /\ worker'[w].at = next
  BY MovesAt DEF Advance
<1>2. worker'[w].seen = row'[Mine(w)].status
  BY MovesSeen DEF Advance
<1> QED
  BY <1>1, <1>2 DEF Advance, Wrote

LEMMA OrchestratorEffect ==
    ASSUME TypeOK, Traceable, NEW w \in Workers, OrchestratorStep(w)
    PROVE  Wrote(w) \/ Passed(w)
<1> USE MovesAt, MovesSeen DEF data, broker
<1>0. /\ worker \in [Workers -> Orchestrator] /\ worker[w] \in Orchestrator
      /\ row \in [Migrations -> Row]
  BY DEF TypeOK
<1>1. CASE \/ Validate(w) \/ Prepare(w) \/ Transfer(w) \/ Configure(w)
           \/ SetVerifying(w) \/ Complete(w)
  BY <1>1, AdvanceWrote DEF Validate, Prepare, Transfer, Configure, SetVerifying,
     Complete, WriteStage
<1>2. CASE SetStarting(w)
  BY <1>2 DEF SetStarting, Wrote, WriteStage
<1>3. CASE FailCommit(w)
  BY <1>3 DEF FailCommit, Wrote, WriteStage
<1>4. ASSUME UNCHANGED row, UNCHANGED audit, worker[w].at \notin Writing,
             worker[w].at \notin {"idle", "cleanup"},
             worker'[w].at \notin {"idle", "cleanup"},
             worker'[w].seen \in {worker[w].seen, None, row[Mine(w)].status}
      PROVE  Passed(w)
  BY <1>4 DEF Passed
<1> HIDE DEF Wrote, Passed
<1>5. CASE \/ CheckEligible(w) \/ WaitConversions(w)
           \/ VerifyRunning(w) \/ StampVm(w) \/ CreateVm(w)
  BY <1>4, <1>5 DEF CheckEligible, WaitConversions, VerifyRunning, StampVm,
     CreateVm, Writing
<1>e. CASE Enqueue(w)
  <2>1. \/ \E left : worker' = [worker EXCEPT ![w].at = "wait", ![w].seen = None,
                                            ![w].left = left]
        \/ \E left : worker' = [worker EXCEPT ![w].left = left]
        \/ Expire(w, "wait") \/ Raise(w)
    BY <1>e DEF Enqueue
  <2>2. ASSUME NEW left, worker' = [worker EXCEPT ![w].at = "wait", ![w].seen = None,
                                                  ![w].left = left]
        PROVE  worker'[w].at = "wait" /\ worker'[w].seen = None
    BY <1>0, <2>2 DEF Orchestrator
  <2>3. ASSUME NEW left, worker' = [worker EXCEPT ![w].left = left]
        PROVE  worker'[w].at = "enqueue" /\ worker'[w].seen = worker[w].seen
    BY <1>0, <1>e, <2>3 DEF Orchestrator, Enqueue
  <2>4. worker'[w].at \in {"wait", "enqueue", "fail"}
        /\ worker'[w].seen \in {worker[w].seen, None}
    BY <2>1, <2>2, <2>3
  <2> QED
    BY <1>4, <1>e, <2>4 DEF Enqueue, Writing
<1>6. CASE Adapt(w)
  BY <1>4, <1>6 DEF Adapt, Writing
<1>7. CASE CleanupTransit(w)
  BY <1>7 DEF CleanupTransit, Passed, Writing
<1>8. CASE FailGuard(w)
  <2>1. CASE Finish(w)
    BY <1>8, <2>1 DEF FailGuard, Passed, Writing
  <2>2. CASE Reload(w, "failed")
    BY <1>4, <1>8, <2>2 DEF FailGuard, Writing
  <2> QED
    BY <1>8, <2>1, <2>2 DEF FailGuard
<1>9. CASE FindGroup(w)
  <2>1. CASE Goto(w, "list")
    BY <1>4, <1>9, <2>1 DEF FindGroup, Writing
  <2>2. CASE \E g : worker' = [worker EXCEPT ![w].at = "transfer", ![w].own = g]
    <3>1. worker'[w].at = "transfer" /\ worker'[w].seen = worker[w].seen
      BY <1>0, <2>2 DEF Orchestrator
    <3> QED
      BY <1>4, <1>9, <3>1 DEF FindGroup, Writing
  <2> QED
    BY <1>9, <2>1, <2>2 DEF FindGroup
<1>10. CASE CreateGroup(w)
  <2>1. CASE Raise(w)
    BY <1>4, <1>10, <2>1 DEF CreateGroup, Writing
  <2>2. CASE worker' = [worker EXCEPT ![w].at = "jobs", ![w].own = Len(groups) + 1,
                                      ![w].left = Disks, ![w].seen = None]
    <3>1. worker'[w].at = "jobs" /\ worker'[w].seen = None
      BY <1>0, <2>2 DEF Orchestrator
    <3> QED
      BY <1>4, <1>10, <3>1 DEF CreateGroup, Writing
  <2> QED
    BY <1>10, <2>1, <2>2 DEF CreateGroup
<1>11. CASE LoadContext(w)
  <2>1. CASE Raise(w) /\ UNCHANGED row
    BY <1>4, <1>11, <2>1 DEF LoadContext, Writing
  <2>2. CASE /\ row' = [row EXCEPT ![Mine(w)].named = TRUE]
             /\ \E g, disks, at : Loads(w, g, disks, at) /\ at \in {"fail", "populate"}
    <3>0. PICK g, disks, at : Loads(w, g, disks, at) /\ at \in {"fail", "populate"}
      BY <2>2
    <3>1. worker'[w].at = at /\ worker'[w].seen = row[Mine(w)].status
      BY <1>0, <3>0 DEF Loads, Orchestrator
    <3>2. \A m \in Migrations : row'[m].status = row[m].status
      BY <1>0, <2>2 DEF Row
    <3> QED
      BY <1>11, <3>0, <3>1, <3>2 DEF LoadContext, Writing, Passed
  <2>3. (Raise(w) /\ UNCHANGED row) \/ row' = [row EXCEPT ![Mine(w)].named = TRUE]
    BY <1>11 DEF LoadContext
  <2> QED
    BY <1>11, <2>1, <2>2, <2>3, ContextMoves
<1>12. ASSUME NEW d \in Disks, CreateJob(w, d)
       PROVE  Passed(w)
  <2>1. PICK next \in {"transfer", "jobs"} : \E left :
           worker' = [worker EXCEPT ![w].left = left, ![w].at = next]
    BY <1>12 DEF CreateJob
  <2>2. worker'[w].at = next /\ worker'[w].seen = worker[w].seen
    BY <1>0, <2>1 DEF Orchestrator
  <2> QED
    BY <1>4, <1>12, <2>2 DEF CreateJob, Writing
<1>13. ASSUME NEW d \in Disks, Populate(w, d)
       PROVE  Passed(w)
  <2>1. CASE Raise(w) \/ RaiseExpired(w)
    BY <1>4, <1>13, <2>1 DEF Populate, Writing
  <2> DEFINE rest == worker[w].left \ {d}
             next == IF rest = {} THEN "starting" ELSE "populate"
             seen == IF rest = {} THEN None ELSE row[Mine(w)].status
  <2>2. CASE worker' = [worker EXCEPT ![w].left = rest, ![w].at = next,
                                      ![w].seen = seen]
    <3>1. next \in {"starting", "populate"} /\ seen \in {None, row[Mine(w)].status}
      OBVIOUS
    <3> HIDE DEF rest, next, seen
    <3>2. worker'[w].at = next /\ worker'[w].seen = seen
      BY <1>0, <2>2 DEF Orchestrator
    <3> QED
      BY <1>4, <1>13, <3>1, <3>2 DEF Populate, Writing
  <2> QED
    BY <1>13, <2>1, <2>2 DEF Populate
<1> QED
  BY <1>1, <1>2, <1>3, <1>5, <1>e, <1>6, <1>7, <1>8, <1>9, <1>10, <1>11, <1>12, <1>13
     DEF OrchestratorStep

-----------------------------------------------------------------------------
(* ONE ORCHESTRATOR: no start overtakes another, nothing is delivered       *)
(* twice.                                                                   *)

(* Somebody drives the migration: a message that waits, or a worker.        *)
Driven(m) ==
    \/ \E t \in Tasks : queue[t] > 0 /\ target[t] = m
    \/ \E w \in Workers : worker[w].at # "idle" /\ Mine(w) = m

(* A migration has at most one message or worker.                           *)
Exclusive ==
    /\ \A t \in Tasks : queue[t] <= 1
    /\ \A t, u \in Tasks :
          queue[t] > 0 /\ queue[u] > 0 /\ target[t] = target[u] => t = u
    /\ \A t \in Tasks, w \in Workers :
          queue[t] > 0 /\ worker[w].at # "idle" => target[t] # Mine(w)
    /\ SingleOrchestrator

(* A row is created by one request, and its task is published by one, while *)
(* nobody drives the migration.                                             *)
Fresh(c) ==
    LET m == client[c].mig IN
    /\ client[c].at \in {"create", "insert"} =>
          /\ row[m].status = None
          /\ \A d \in Clients : client[d].mig = m => d = c
    /\ client[c].at = "start" => client[c].seen = "PENDING"
    /\ client[c].at = "publish" =>
          /\ row[m].status \notin {None, "PENDING"} /\ ~Driven(m)
          /\ \A d \in Clients : client[d].at = "publish" /\ client[d].mig = m => d = c

(* Nobody drives a migration before it is started.                          *)
Startable ==
    /\ \A m \in Migrations : row[m].status \in {None, "PENDING"} => ~Driven(m)
    /\ \A c \in Clients : Fresh(c)

(* No message and no worker is added.                                       *)
Fewer ==
    /\ UNCHANGED target
    /\ \A t \in Tasks : queue'[t] <= queue[t]
    /\ \A v \in Workers : worker'[v].at # "idle" =>
          worker[v].at # "idle" /\ worker'[v].task = worker[v].task

LEMMA FewerExclusive ==
    ASSUME TypeOK, TypeOK', Fewer, Exclusive
    PROVE  /\ Exclusive'
           /\ \A m \in Migrations : Driven(m)' => Driven(m)
<1>1. \A t \in Tasks : queue[t] \in Nat /\ queue'[t] \in Nat /\ queue'[t] <= queue[t]
  BY DEF TypeOK, Fewer
<1>2. \A t \in Tasks : queue'[t] > 0 => queue[t] > 0
  BY <1>1
<1>3. \A v \in Workers : worker'[v].at # "idle" =>
         worker[v].at # "idle" /\ Mine(v)' = Mine(v)
  BY DEF Fewer, Mine
<1>4. \A t \in Tasks : queue'[t] <= 1
  BY <1>1 DEF Exclusive
<1>5. target' = target
  BY DEF Fewer
<1>6. Exclusive'
  BY <1>2, <1>3, <1>4, <1>5 DEF Exclusive, SingleOrchestrator
<1> QED
  BY <1>2, <1>3, <1>5, <1>6 DEF Driven

(* A worker takes a message.                                                *)
LEMMA ReceiveExclusive ==
    ASSUME TypeOK, TypeOK', Traceable, Exclusive, NEW w \in Workers, NEW t \in Tasks,
           Receive(w, t)
    PROVE  /\ Exclusive'
           /\ \A m \in Migrations : Driven(m)' => Driven(m)
<1>0. /\ worker \in [Workers -> Orchestrator] /\ queue \in [Tasks -> Nat]
      /\ target' = target /\ worker[w].at = "idle" /\ queue[t] > 0
      /\ queue[t] <= 1
  BY DEF TypeOK, Receive, Exclusive
<1>1. queue'[t] = queue[t] - 1 /\ \A u \in Tasks : u # t => queue'[u] = queue[u]
  BY <1>0 DEF Receive
<1>2. CASE worker' = worker
  <2>1. \A u \in Tasks : queue'[u] <= queue[u]
    BY <1>0, <1>1
  <2>2. Fewer
    BY <1>0, <1>2, <2>1 DEF Fewer
  <2> QED
    BY <2>2, FewerExclusive
<1>3. CASE worker' # worker
  <2>1. /\ worker'[w].at = "validate" /\ worker'[w].task = t
        /\ \A v \in Workers : v # w => worker'[v] = worker[v]
    BY <1>0, <1>3 DEF Receive, IdleWorker
  <2>2. queue'[t] = 0
    BY <1>0, <1>1
  <2>3. Mine(w)' = target[t] /\ \A v \in Workers : v # w => Mine(v)' = Mine(v)
    BY <1>0, <2>1 DEF Mine
  <2>4. \A u \in Tasks : queue'[u] > 0 => u # t /\ queue[u] > 0
    BY <1>1, <2>2
  <2>5. \A u \in Tasks : queue'[u] <= 1
    BY <1>1, <2>2 DEF Exclusive
  <2>6. \A u \in Tasks, v \in Workers :
           queue'[u] > 0 /\ worker'[v].at # "idle" => target'[u] # Mine(v)'
    BY <1>0, <2>1, <2>3, <2>4 DEF Exclusive
  <2>7. SingleOrchestrator'
    <3> SUFFICES ASSUME NEW u \in Workers, NEW v \in Workers, u # v,
                        worker'[u].at # "idle", worker'[v].at # "idle"
                 PROVE  Mine(u)' # Mine(v)'
      BY DEF SingleOrchestrator
    <3>1. CASE u # w /\ v # w
      BY <2>1, <2>3, <3>1 DEF Exclusive, SingleOrchestrator
    <3>2. CASE u = w \/ v = w
      BY <1>0, <2>1, <2>3, <3>2 DEF Exclusive
    <3> QED
      BY <3>1, <3>2
  <2>8. \A u, v \in Tasks :
           queue'[u] > 0 /\ queue'[v] > 0 /\ target'[u] = target'[v] => u = v
    BY <1>0, <2>4 DEF Exclusive
  <2>9. Exclusive'
    BY <2>5, <2>6, <2>7, <2>8 DEF Exclusive
  <2> QED
    BY <1>0, <2>1, <2>3, <2>4, <2>9 DEF Driven
<1> QED
  BY <1>2, <1>3

(* A worker dies and the broker has its message again.                      *)
LEMMA CrashExclusive ==
    ASSUME TypeOK, TypeOK', Traceable, Exclusive, NEW w \in Workers, Crash(w)
    PROVE  /\ Exclusive'
           /\ \A m \in Migrations : Driven(m)' => Driven(m)
<1> DEFINE t == worker[w].task
<1>0. /\ worker \in [Workers -> Orchestrator] /\ queue \in [Tasks -> Nat]
      /\ target' = target /\ worker[w].at # "idle" /\ t \in Tasks
  BY BusyMine DEF TypeOK, Crash
<1>1. queue[t] = 0
  BY <1>0 DEF Exclusive, Mine
<1>2. queue'[t] = 1 /\ \A u \in Tasks : u # t => queue'[u] = queue[u]
  BY <1>0, <1>1 DEF Crash
<1>3. worker'[w].at = "idle" /\ \A v \in Workers : v # w => worker'[v] = worker[v]
  BY <1>0 DEF Crash, Finish, IdleWorker
<1>4. \A v \in Workers : v # w => Mine(v)' = Mine(v)
  BY <1>0, <1>3 DEF Mine
<1>5. target[t] = Mine(w)
  BY DEF Mine
<1> HIDE DEF t
<1>6. \A u \in Tasks : queue'[u] <= 1
  BY <1>2 DEF Exclusive
<1>7. \A u, v \in Tasks :
         queue'[u] > 0 /\ queue'[v] > 0 /\ target'[u] = target'[v] => u = v
  BY <1>0, <1>2, <1>5 DEF Exclusive
<1>8. \A u \in Tasks, v \in Workers :
         queue'[u] > 0 /\ worker'[v].at # "idle" => target'[u] # Mine(v)'
  BY <1>0, <1>2, <1>3, <1>4, <1>5 DEF Exclusive, SingleOrchestrator
<1>9. SingleOrchestrator'
  BY <1>3, <1>4 DEF Exclusive, SingleOrchestrator
<1>10. Exclusive'
  BY <1>6, <1>7, <1>8, <1>9 DEF Exclusive
<1> QED
  BY <1>0, <1>2, <1>3, <1>4, <1>5, <1>10 DEF Driven

(* A request publishes the task of a migration that nobody drives.          *)
LEMMA PublishExclusive ==
    ASSUME TypeOK, TypeOK', Traceable, Exclusive, Startable, NEW c \in Clients,
           NEW t \in Tasks, StartPublish(c, t)
    PROVE  /\ Exclusive'
           /\ \A m \in Migrations : Driven(m)' => Driven(m) \/ m = client[c].mig
<1> DEFINE n == client[c].mig
<1>0. /\ queue \in [Tasks -> Nat] /\ target \in [Tasks -> Migrations \cup {None}]
      /\ worker' = worker /\ n \in Migrations /\ ~Driven(n) /\ target[t] = None
  BY DEF TypeOK, StartPublish, Traceable, Startable, Fresh
<1>1. /\ queue'[t] = 1 /\ target'[t] = n
      /\ \A u \in Tasks : u # t => queue'[u] = queue[u] /\ target'[u] = target[u]
  BY <1>0 DEF StartPublish
<1> HIDE DEF n
<1>2. \A v \in Workers : worker[v].at # "idle" =>
         Mine(v)' = Mine(v) /\ Mine(v) # n
  <2> TAKE v \in Workers
  <2> HAVE worker[v].at # "idle"
  <2>1. worker[v].task \in Tasks /\ Mine(v) \in Migrations
    BY BusyMine
  <2>2. worker[v].task # t
    BY <1>0, <2>1, ConstantsAssumption DEF Mine
  <2> QED
    BY <1>0, <1>1, <2>1, <2>2 DEF Mine, Driven
<1>3. \A u \in Tasks : u # t /\ queue[u] > 0 => target[u] # n
  BY <1>0 DEF Driven
<1>4. \A u \in Tasks : queue'[u] <= 1
  BY <1>1 DEF Exclusive
<1>5. \A u, v \in Tasks :
         queue'[u] > 0 /\ queue'[v] > 0 /\ target'[u] = target'[v] => u = v
  BY <1>1, <1>3 DEF Exclusive
<1>6. \A u \in Tasks, v \in Workers :
         queue'[u] > 0 /\ worker'[v].at # "idle" => target'[u] # Mine(v)'
  BY <1>0, <1>1, <1>2 DEF Exclusive
<1>7. SingleOrchestrator'
  BY <1>0, <1>2 DEF Exclusive, SingleOrchestrator
<1>8. Exclusive'
  BY <1>4, <1>5, <1>6, <1>7 DEF Exclusive
<1>9. \A m \in Migrations : Driven(m)' => Driven(m) \/ m = n
  BY <1>0, <1>1, <1>2 DEF Driven
<1> QED
  BY <1>8, <1>9 DEF n

(* What set_migration_status changes.                                       *)
LEMMA SetStatusOnly ==
    ASSUME TypeOK, NEW n, NEW seen, NEW new, SetStatus(n, seen, new)
    PROVE  \A m \in Migrations :
              \/ row'[m].status = row[m].status /\ audit'[m] = audit[m]
              \/ /\ m = n /\ seen # new
                 /\ row'[m].status = new /\ audit'[m].to = new
                 /\ audit'[m].from \in {seen, None}
<1>1. row \in [Migrations -> Row] /\ audit \in [Migrations -> Event]
  BY DEF TypeOK
<1>2. CASE seen = new
  BY <1>2 DEF SetStatus
<1>3. CASE seen # new
  BY <1>1, <1>3 DEF SetStatus, Row
<1> QED
  BY <1>2, <1>3

Driving == InPipeline \cup {"COMPLETED", "FAILED"}

(* A worker writes only the status of a migration that is driven, and       *)
(* drives no more than what was driven before.                              *)
LEMMA WorkerDrives ==
    ASSUME TypeOK, TypeOK', Traceable, Exclusive, MaxRedeliver = 0,
           NEW w \in Workers, WorkerNext(w)
    PROVE  /\ Exclusive' /\ UNCHANGED client
           /\ \A m \in Migrations : Driven(m)' => Driven(m)
           /\ \A m \in Migrations :
                 \/ row'[m].status = row[m].status
                 \/ Driven(m) /\ row'[m].status \in Driving
<1> USE DEF data, broker
<1>0. worker \in [Workers -> Orchestrator] /\ queue \in [Tasks -> Nat]
  BY DEF TypeOK
<1>1. CASE OrchestratorStep(w) \/ SoftTimeLimit(w) \/ Terminate(w)
  <2>1. UNCHANGED <<target, client, queue>> /\ Moved(w)
           /\ (worker[w].at # "idle" \/ Terminate(w))
    BY <1>1, OrchestratorFrame
  <2>2. worker'[w].at # "idle" => worker[w].at # "idle"
    BY <2>1, MovesAt DEF Terminate
  <2>3. Fewer
    BY <1>0, <2>1, <2>2 DEF Fewer, Moved
  <2>4. \A m \in Migrations :
           \/ row'[m].status = row[m].status
           \/ Driven(m) /\ row'[m].status \in Driving
    <3>1. CASE SoftTimeLimit(w) \/ Terminate(w)
      BY <3>1 DEF SoftTimeLimit, Terminate
    <3>2. CASE Passed(w)
      BY <3>2 DEF Passed
    <3>3. CASE Wrote(w)
      <4>1. PICK status, seen : /\ WriteStage(worker[w].at, status, worker'[w].at)
                                /\ SetStatus(Mine(w), seen, status)
        BY <3>3 DEF Wrote
      <4>2. status \in Driving /\ worker[w].at # "idle"
        BY <4>1 DEF WriteStage, Driving, InPipeline
      <4> QED
        BY <4>1, <4>2, SetStatusOnly DEF Driven
    <3> QED
      BY <1>1, <3>1, <3>2, <3>3, OrchestratorEffect
  <2> QED
    BY <2>1, <2>3, <2>4, FewerExclusive
<1>2. CASE \E t \in Tasks : Receive(w, t)
  BY <1>2, ReceiveExclusive DEF Receive
<1>3. CASE Crash(w)
  BY <1>3, CrashExclusive DEF Crash
<1>4. ~Redeliver(w)
  BY DEF Redeliver, Spend, TypeOK, Bounded
<1> QED
  BY <1>1, <1>2, <1>3, <1>4 DEF WorkerNext

(* The steps of a worker keep what a request has loaded.                    *)
LEMMA WorkerStartable ==
    ASSUME TypeOK, TypeOK', Traceable, Exclusive, Startable, MaxRedeliver = 0,
           NEW w \in Workers, WorkerNext(w)
    PROVE  Exclusive' /\ Startable'
<1>1. /\ Exclusive' /\ client' = client
      /\ \A m \in Migrations : Driven(m)' => Driven(m)
      /\ \A m \in Migrations :
            \/ row'[m].status = row[m].status
            \/ Driven(m) /\ row'[m].status \in Driving
  BY WorkerDrives
<1>2. None \notin Driving /\ "PENDING" \notin Driving
  BY NoneAssumption DEF Driving, InPipeline, Status, Active, Terminal
<1>3. \A c \in Clients : client[c].at # "idle" => client[c].mig \in Migrations
  BY DEF Traceable
<1>4. \A m \in Migrations : row'[m].status \in {None, "PENDING"} => ~Driven(m)'
  BY <1>1, <1>2 DEF Startable
<1>5. ASSUME NEW c \in Clients PROVE Fresh(c)'
  <2> DEFINE n == client[c].mig
  <2>1. CASE client[c].at = "idle"
    BY <1>1, <2>1 DEF Fresh
  <2>2. CASE client[c].at # "idle"
    <3>1. n \in Migrations
      BY <1>3, <2>2
    <3>2. Driven(n)' => Driven(n)
      BY <1>1, <3>1
    <3>3. \/ row'[n].status = row[n].status
          \/ Driven(n) /\ row'[n].status \in Driving
      BY <1>1, <3>1
    <3>4. row[n].status \in {None, "PENDING"} => ~Driven(n)
      BY <3>1 DEF Startable
    <3>5. Fresh(c)
      BY DEF Startable
    <3>6. Driven(client[c].mig)' = Driven(n)'
      BY <1>1 DEF Driven
    <3> QED
      BY <1>1, <1>2, <3>2, <3>3, <3>4, <3>5, <3>6 DEF Fresh
  <2> QED
    BY <2>1, <2>2
<1> QED
  BY <1>1, <1>4, <1>5 DEF Startable

(* So does the step of another request.                                     *)
Spares(c) ==
    /\ \A d \in Clients : d # c => client'[d] = client[d]
    /\ \A m \in Migrations :
          \/ row'[m].status = row[m].status
          \/ /\ m = client[c].mig
             /\ \/ row'[m].status \notin {None, "PENDING"}
                \/ row[m].status = None
                \/ client[c].at = "publish"
    /\ \/ client'[c].mig \in {client[c].mig, None}
       \/ client'[c].at # "publish" /\ row[client'[c].mig].status # None
       \/ client'[c].at = "create" /\ \A d \in Clients : client[d].mig # client'[c].mig
    /\ client'[c].at = "publish" =>
          client[c].at = "publish" \/ row[client[c].mig].status = "PENDING"
    /\ \A m \in Migrations :
          Driven(m)' => Driven(m) \/ (m = client[c].mig /\ client[c].at = "publish")

LEMMA OthersFresh ==
    ASSUME TypeOK, Traceable, Startable, NEW c \in Clients, Spares(c),
           NEW d \in Clients, d # c
    PROVE  Fresh(d)'
<1> DEFINE m == client[d].mig
<1>0. client'[d] = client[d] /\ Fresh(d) /\ Fresh(c)
  BY DEF Spares, Startable
<1>1. CASE client[d].at = "idle"
  BY <1>0, <1>1 DEF Fresh
<1>2. CASE client[d].at # "idle"
  <2>0. m \in Migrations /\ m # None
    BY <1>2, ConstantsAssumption DEF Traceable
  <2>1. ASSUME client[d].at \in {"create", "insert"}
        PROVE  /\ row'[m].status = None
               /\ \A e \in Clients : client'[e].mig = m => e = d
    <3>1. row[m].status = None /\ \A e \in Clients : client[e].mig = m => e = d
      BY <1>0, <2>1 DEF Fresh
    <3>2. client[c].mig # m
      BY <3>1
    <3>3. client'[c].mig # m
      BY <2>0, <3>1, <3>2 DEF Spares
    <3> QED
      BY <2>0, <3>1, <3>2, <3>3 DEF Spares
  <2>2. ASSUME client[d].at = "publish"
        PROVE  /\ row'[m].status \notin {None, "PENDING"}
               /\ ~(Driven(m)')
               /\ \A e \in Clients : client'[e].at = "publish" /\ client'[e].mig = m => e = d
    <3>1. /\ row[m].status \notin {None, "PENDING"} /\ ~Driven(m)
          /\ \A e \in Clients : client[e].at = "publish" /\ client[e].mig = m => e = d
      BY <1>0, <2>2 DEF Fresh
    <3>2. ~(client[c].at = "publish" /\ client[c].mig = m)
      BY <3>1
    <3>3. ~(client'[c].at = "publish" /\ client'[c].mig = m)
      BY <2>0, <3>1, <3>2 DEF Spares
    <3> QED
      BY <2>0, <3>1, <3>2, <3>3 DEF Spares
  <2>3. Driven(client[d].mig)' = Driven(m)'
    BY <1>0 DEF Driven
  <2> HIDE DEF m
  <2>4. client'[d].mig = m
    BY <1>0 DEF m
  <2> QED
    BY <1>0, <2>1, <2>2, <2>3, <2>4 DEF Fresh
<1> QED
  BY <1>1, <1>2

(* The steps of the requests keep all of this, unless one start overtakes   *)
(* another.                                                                 *)
LEMMA RequestStartable ==
    ASSUME TypeOK, TypeOK', Traceable, Traceable', Exclusive, Startable,
           MaxOvertaken = 0, NEW c \in Clients, ClientNext(c)
    PROVE  Exclusive' /\ Startable'
<1> USE DEF data, broker
<1> DEFINE n == client[c].mig
<1>0. /\ client \in [Clients -> Request] /\ row \in [Migrations -> Row]
      /\ client[c].at # "idle" => n \in Migrations
  BY DEF TypeOK, Traceable
<1>n. None # "PENDING" /\ None # "VALIDATING" /\ None # "CANCELLED"
  BY NoneAssumption DEF Status, Active, Terminal, InPipeline
<1>f. Fresh(c) /\ \A m \in Migrations : row[m].status \in {None, "PENDING"} => ~Driven(m)
  BY DEF Startable
<1>s. ASSUME Exclusive', Spares(c), Fresh(c)',
             \A m \in Migrations : row'[m].status \in {None, "PENDING"} => ~(Driven(m)')
      PROVE  Exclusive' /\ Startable'
  BY <1>s, OthersFresh DEF Startable
<1>1. ASSUME NEW t \in Tasks, StartPublish(c, t)
      PROVE  Exclusive' /\ Startable'
  <2>1. /\ Exclusive'
        /\ \A m \in Migrations : Driven(m)' => Driven(m) \/ m = n
    BY <1>1, PublishExclusive
  <2>2. /\ row' = row /\ client'[c].at = "stampid" /\ client'[c].mig = n
        /\ \A d \in Clients : d # c => client'[d] = client[d]
    BY <1>0, <1>1 DEF StartPublish, Request
  <2>3. client[c].at = "publish" /\ row[n].status \notin {None, "PENDING"}
    BY <1>1, <1>f DEF Fresh, StartPublish
  <2>4. Fresh(c)'
    BY <2>2 DEF Fresh
  <2>5. Spares(c)
    BY <2>1, <2>2, <2>3 DEF Spares
  <2> QED
    BY <1>f, <1>s, <2>1, <2>2, <2>3, <2>4, <2>5
<1>2. ASSUME ~ \E t \in Tasks : StartPublish(c, t)
      PROVE  /\ Exclusive'
             /\ \A m : Driven(m)' = Driven(m)
  <2>1. UNCHANGED <<worker, queue, target>>
    BY <1>2 DEF ClientNext, CreateBegin, StartBegin, CancelBegin, CreateLock, CreateInsert,
       StartValidate, StartBrokerDown, StartStampId, CancelRevoke, CancelCommit,
       CancelCleanup, HandlerDies
  <2> QED
    BY <2>1 DEF Exclusive, SingleOrchestrator, Driven, Mine
<1>3. ASSUME ~ \E t \in Tasks : StartPublish(c, t),
             \A d \in Clients : d # c => client'[d] = client[d],
             client'[c].at \notin {"create", "insert", "start", "publish"},
             \/ client'[c].mig \in {n, None}
             \/ row[client'[c].mig].status # None,
             \A m \in Migrations :
                \/ row'[m].status = row[m].status
                \/ /\ m = n
                   /\ \/ row'[m].status \notin {None, "PENDING"}
                      \/ ~Driven(m) /\ (row[m].status = None \/ client[c].at = "publish")
      PROVE  Exclusive' /\ Startable'
  <2>1. Fresh(c)'
    BY <1>3 DEF Fresh
  <2>2. Spares(c)
    BY <1>2, <1>3 DEF Spares
  <2> QED
    BY <1>2, <1>3, <1>f, <1>s, <2>1, <2>2
<1>4. ASSUME NEW m \in Migrations, CreateBegin(c, m) \/ StartBegin(c, m)
      PROVE  Exclusive' /\ Startable'
  <2>1. /\ row' = row /\ client'[c].mig = m
        /\ \A d \in Clients : d # c => client'[d] = client[d]
        /\ \/ /\ client'[c].at = "create" /\ row[m].status = None
              /\ \A d \in Clients : client[d].mig # m
           \/ /\ client'[c].at = "start" /\ client'[c].seen = "PENDING"
              /\ row[m].status = "PENDING"
    <3>1. CASE CreateBegin(c, m)
      BY <1>0, <3>1 DEF CreateBegin, IdleClient, data
    <3>2. CASE StartBegin(c, m)
      BY <1>0, <3>2 DEF StartBegin, IdleClient, data
    <3> QED
      BY <1>4, <3>1, <3>2
  <2>2. ~ \E t \in Tasks : StartPublish(c, t)
    BY <1>4 DEF CreateBegin, StartBegin, StartPublish
  <2>3. Fresh(c)'
    BY <2>1 DEF Fresh
  <2>4. Spares(c)
    BY <1>2, <1>n, <2>1, <2>2 DEF Spares
  <2> QED
    BY <1>2, <1>f, <1>s, <2>1, <2>2, <2>3, <2>4
<1>5. CASE /\ ~ \E t \in Tasks : StartPublish(c, t)
           /\ \/ \E m \in Migrations : CancelBegin(c, m)
              \/ CancelRevoke(c) \/ CancelCleanup(c) \/ HandlerDies(c)
  <2>1. /\ row' = row /\ client'[c].at \in {"revoke", "cancel", "idle"}
        /\ \A d \in Clients : d # c => client'[d] = client[d]
        /\ client'[c].mig \in {n, None} \/ row[client'[c].mig].status # None
    <3>1. ASSUME NEW m \in Migrations, CancelBegin(c, m)
          PROVE  /\ row' = row /\ client'[c].at = "revoke"
                 /\ \A d \in Clients : d # c => client'[d] = client[d]
                 /\ row[client'[c].mig].status # None
      BY <1>0, <3>1, NoneAssumption DEF CancelBegin, Status
    <3>2. CASE CancelRevoke(c)
      BY <1>0, <3>2 DEF CancelRevoke, Request
    <3>3. CASE CancelCleanup(c)
      BY <1>0, <3>3 DEF CancelCleanup, Respond, IdleClient
    <3>4. CASE HandlerDies(c)
      BY <1>0, <3>4 DEF HandlerDies, Respond, IdleClient
    <3> QED
      BY <1>5, <3>1, <3>2, <3>3, <3>4
  <2> QED
    BY <1>3, <1>5, <2>1
<1>l. CASE CreateLock(c)
  <2>1. ~ \E t \in Tasks : StartPublish(c, t)
    BY <1>l DEF CreateLock, StartPublish
  <2>2. CASE Respond(c)
    <3>1. /\ row' = row /\ client'[c].at = "idle" /\ client'[c].mig = None
          /\ \A d \in Clients : d # c => client'[d] = client[d]
      BY <1>0, <1>l, <2>2 DEF CreateLock, Respond, IdleClient
    <3> QED
      BY <1>3, <2>1, <3>1
  <2>3. CASE client' = [client EXCEPT ![c].at = "insert"]
    <3>1. /\ row' = row /\ client'[c].at = "insert" /\ client'[c].mig = n
          /\ client[c].at = "create"
          /\ \A d \in Clients : d # c => client'[d] = client[d]
      BY <1>0, <1>l, <2>3 DEF CreateLock, Request
    <3>2. Fresh(c)'
      BY <1>f, <3>1 DEF Fresh
    <3>3. Spares(c)
      BY <1>2, <2>1, <3>1 DEF Spares
    <3> QED
      BY <1>2, <1>f, <1>s, <2>1, <3>1, <3>2, <3>3
  <2> QED
    BY <1>l, <2>2, <2>3 DEF CreateLock
<1>6. ASSUME NEW named \in Naming, CreateInsert(c, named)
      PROVE  Exclusive' /\ Startable'
  <2>1. /\ client'[c].at = "idle" /\ client'[c].mig = None
        /\ \A d \in Clients : d # c => client'[d] = client[d]
        /\ \A m \in Migrations : row'[m] = row[m] \/ m = n
    BY <1>0, <1>6 DEF CreateInsert, Respond, IdleClient
  <2>2. ~Driven(n) /\ row[n].status = None
    BY <1>0, <1>6, <1>f DEF Fresh, CreateInsert
  <2>3. ~ \E t \in Tasks : StartPublish(c, t)
    BY <1>6 DEF CreateInsert, StartPublish
  <2> QED
    BY <1>3, <2>1, <2>2, <2>3
<1>7. CASE StartValidate(c)
  <2>1. ~ \E t \in Tasks : StartPublish(c, t)
    BY <1>7 DEF StartValidate, StartPublish
  <2>2. ~Spend("overtaken", MaxOvertaken)
    BY DEF Spend, TypeOK, Bounded
  <2>3. row[n].status = "PENDING" /\ client[c].seen = "PENDING"
    BY <1>7, <1>f, <2>2 DEF StartValidate, Fresh
  <2>4. n \in Migrations /\ ~Driven(n)
    BY <1>0, <1>7, <1>f, <2>3 DEF StartValidate
  <2>5. SetStatus(n, "PENDING", "VALIDATING")
    BY <1>7, <2>3 DEF StartValidate
  <2>6. /\ row'[n].status = "VALIDATING"
        /\ \A m \in Migrations : m # n => row'[m].status = row[m].status
    BY <1>0, <2>4, <2>5 DEF SetStatus, Row
  <2>7. /\ client'[c].at = "publish" /\ client'[c].mig = n
        /\ \A d \in Clients : d # c => client'[d] = client[d]
    BY <1>0, <1>7 DEF StartValidate, Request
  <2>p. PICK m \in Migrations : m = n
    BY <2>4
  <2>8. ~(Driven(m)')
    BY <1>2, <2>1, <2>4, <2>p
  <2>9. Driven(client[c].mig)' = Driven(m)'
    BY <2>7, <2>p DEF Driven
  <2>10. \A d \in Clients : client[d].at = "publish" => client[d].mig # n
    BY <2>3 DEF Startable, Fresh
  <2>11. Fresh(c)'
    BY <1>n, <2>6, <2>7, <2>8, <2>9, <2>10, <2>p DEF Fresh
  <2>12. Spares(c)
    BY <1>2, <1>n, <2>1, <2>3, <2>6, <2>7 DEF Spares
  <2>13. \A k \in Migrations : row'[k].status \in {None, "PENDING"} => ~(Driven(k)')
    BY <1>2, <1>f, <1>n, <2>1, <2>6
  <2> QED
    BY <1>2, <1>s, <2>1, <2>11, <2>12, <2>13
<1>8. CASE StartBrokerDown(c)
  <2>1. /\ client'[c].at = "idle" /\ client'[c].mig = None
        /\ \A d \in Clients : d # c => client'[d] = client[d]
        /\ \A m \in Migrations : m # n => row'[m] = row[m]
    BY <1>0, <1>8 DEF StartBrokerDown, Respond, IdleClient
  <2>2. ~Driven(n) /\ client[c].at = "publish"
    BY <1>8, <1>f DEF Fresh, StartBrokerDown
  <2>3. \/ \E t \in Tasks : StartPublish(c, t)
        \/ ~ \E t \in Tasks : StartPublish(c, t)
    OBVIOUS
  <2> QED
    BY <1>1, <1>3, <2>1, <2>2, <2>3
<1>9. CASE StartStampId(c)
  <2>1. /\ client'[c].at = "idle" /\ client'[c].mig = None
        /\ \A d \in Clients : d # c => client'[d] = client[d]
        /\ \A m \in Migrations : row'[m].status = row[m].status
    BY <1>0, <1>9 DEF StartStampId, Respond, IdleClient, Row
  <2>2. ~ \E t \in Tasks : StartPublish(c, t)
    BY <1>9 DEF StartStampId, StartPublish
  <2> QED
    BY <1>3, <2>1, <2>2
<1>10. CASE CancelCommit(c)
  <2>1. /\ client'[c].at = "cleanup" /\ client'[c].mig = n
        /\ \A d \in Clients : d # c => client'[d] = client[d]
    BY <1>0, <1>10 DEF CancelCommit, Request
  <2>2. \A m \in Migrations :
           \/ row'[m].status = row[m].status
           \/ m = n /\ row'[m].status = "CANCELLED"
    BY <1>10, SetStatusOnly DEF CancelCommit
  <2>3. ~ \E t \in Tasks : StartPublish(c, t)
    BY <1>10 DEF CancelCommit, StartPublish
  <2> QED
    BY <1>3, <1>n, <2>1, <2>2, <2>3
<1> QED
  BY <1>1, <1>4, <1>5, <1>l, <1>6, <1>7, <1>8, <1>9, <1>10 DEF ClientNext

LEMMA StartableStep ==
    ASSUME TypeOK, TypeOK', Traceable, Traceable', Exclusive, Startable,
           MaxOvertaken = 0, MaxRedeliver = 0, [Next]_vars
    PROVE  Exclusive' /\ Startable'
<1>1. CASE UNCHANGED <<row, worker, queue, target, client>>
  BY <1>1 DEF Exclusive, SingleOrchestrator, Startable, Fresh, Driven, Mine
<1>2. CASE ConvertNext \/ \E g \in DOMAIN groups : ConversionStep(g)
  BY <1>1, <1>2, ConversionFrame DEF broker
<1>3. CASE UNCHANGED vars
  BY <1>1, <1>3 DEF vars, data, broker
<1>4. ASSUME NEW c \in Clients, ClientNext(c)
      PROVE  Exclusive' /\ Startable'
  BY <1>4, RequestStartable
<1>5. ASSUME NEW w \in Workers, WorkerNext(w)
      PROVE  Exclusive' /\ Startable'
  BY <1>5, WorkerStartable
<1> QED
  BY <1>2, <1>3, <1>4, <1>5 DEF Next

LEMMA StartableInit ==
    ASSUME Init PROVE Exclusive /\ Startable
<1>1. \A m \in Migrations : ~Driven(m)
  BY DEF Init, Driven, IdleWorker
<1> QED
  BY <1>1 DEF Init, Exclusive, SingleOrchestrator, Startable, Fresh, IdleWorker,
     IdleClient

-----------------------------------------------------------------------------
(* NOTHING IS CANCELLED, besides.                                           *)
Calm == MaxOvertaken = 0 /\ MaxRedeliver = 0 /\ MaxCancel = 0

(* What a worker's session shows is the row, and the row says where the     *)
(* worker is.                                                               *)
Follows(w) ==
    worker[w].at # "idle" =>
        /\ worker[w].seen \in {None, row[Mine(w)].status}
        /\ worker[w].at = "cleanup" => row[Mine(w)].status = "COMPLETED"
        /\ worker[w].at # "cleanup" => row[Mine(w)].status \in InPipeline
Followed == \A w \in Workers : Follows(w)

(* Nobody cancels, and a migration whose task is about to be published is   *)
(* in the pipeline.                                                         *)
Uncancelled ==
    /\ revoked = {}
    /\ \A c \in Clients :
          /\ client[c].at \notin {"revoke", "cancel", "cleanup"}
          /\ client[c].at = "publish" => row[client[c].mig].status \in InPipeline

(* Who holds the row lock of the machine has found no active migration.     *)
Locked ==
    \A c \in Clients : client[c].at = "insert" =>
        /\ \A m \in Migrations : row[m].status \notin Active
        /\ \A d \in Clients : client[d].at = "insert" => d = c

Ordered == Exclusive /\ Startable /\ Followed /\ Uncancelled /\ Locked

(* How a status may change then: the first of the VM's active migrations is *)
(* created, an active one goes on or ends, or the broker refuses its task.  *)
StatusStep(m) ==
    LET old == row[m].status new == row'[m].status IN
    \/ new = old /\ audit'[m] = audit[m]
    \/ /\ old = None /\ new = "PENDING"
       /\ audit'[m].to = new /\ audit'[m].from = None
       /\ \A n \in Migrations :
             /\ row[n].status \notin Active
             /\ n # m => row'[n].status = row[n].status
    \/ /\ old \in Active /\ new \in Driving
       /\ audit'[m].to = new /\ audit'[m].from \in {old, None}
    \/ old \in InPipeline /\ new = "PENDING" /\ MaxBrokerFail # 0

(* The statuses of workers: one writes the status it has seen out of date.  *)
LEMMA OrchestratorOrdered ==
    ASSUME TypeOK, TypeOK', Traceable, Ordered, NEW w \in Workers,
           OrchestratorStep(w)
    PROVE  Followed' /\ \A m \in Migrations : StatusStep(m)
<1>1. /\ UNCHANGED <<target, client, queue>> /\ Moved(w) /\ worker[w].at # "idle"
      /\ Mine(w) \in Migrations
  <2>1. ~Terminate(w)
    BY BusyMine, ConstantsAssumption DEF Terminate, Ordered, Uncancelled
  <2> QED
    BY <2>1, OrchestratorFrame, BusyMine
<1> DEFINE n == Mine(w)
<1>2. /\ \A v \in Workers : v # w => worker'[v] = worker[v] /\ Mine(v)' = Mine(v)
      /\ worker'[w].at # "idle" => Mine(w)' = n
  BY <1>1 DEF Moved, Mine
<1>3. Follows(w) /\ \A v \in Workers : Follows(v)
  BY DEF Ordered, Followed
<1>o. ASSUME \A m \in Migrations : m # n => row'[m].status = row[m].status,
             NEW v \in Workers, v # w
      PROVE  Follows(v)'
  <2>1. worker'[v] = worker[v] /\ Mine(v)' = Mine(v)
    BY <1>2, <1>o
  <2>2. CASE worker[v].at = "idle"
    BY <2>1, <2>2 DEF Follows
  <2>3. CASE worker[v].at # "idle"
    <3>1. Mine(v) \in Migrations
      BY <2>3, BusyMine
    <3>2. Mine(v) # n
      BY <1>1, <1>o, <2>3 DEF Ordered, Exclusive, SingleOrchestrator
    <3>3. row'[Mine(v)].status = row[Mine(v)].status
      BY <1>o, <3>1, <3>2
    <3> QED
      BY <1>3, <2>1, <2>3, <3>3 DEF Follows
  <2> QED
    BY <2>2, <2>3
<1>4. CASE Passed(w)
  <2>1. \A m \in Migrations : row'[m].status = row[m].status /\ audit'[m] = audit[m]
    BY <1>4 DEF Passed
  <2>2. Follows(w)'
    <3>1. CASE worker'[w].at = "idle"
      BY <3>1 DEF Follows
    <3>2. CASE worker'[w].at # "idle"
      <4>1. Mine(w)' = n /\ row'[n].status = row[n].status
        BY <1>1, <1>2, <2>1, <3>2
      <4> QED
        BY <1>1, <1>3, <1>4, <3>2, <4>1 DEF Passed, Follows
    <3> QED
      BY <3>1, <3>2
  <2> QED
    BY <1>o, <2>1, <2>2 DEF Followed, StatusStep
<1>5. CASE Wrote(w)
  <2>1. PICK status, seen :
           /\ WriteStage(worker[w].at, status, worker'[w].at)
           /\ seen = IF worker[w].at = "failed" THEN worker[w].seen ELSE Loaded(w)
           /\ SetStatus(n, seen, status)
           /\ worker'[w].at # "idle" =>
                 worker'[w].seen \in {None, row'[n].status}
    BY <1>5 DEF Wrote
  <2>2. /\ status \in Driving
        /\ worker[w].at # "cleanup"
        /\ worker'[w].at = "cleanup" => status = "COMPLETED"
        /\ worker'[w].at \notin {"cleanup", "idle"} => status \in InPipeline
        /\ worker[w].at = "failed" => status = "FAILED"
    BY <2>1 DEF WriteStage, Driving, InPipeline
  <2>3. row[n].status \in InPipeline /\ worker[w].seen \in {None, row[n].status}
    BY <1>1, <1>3, <2>2 DEF Follows
  <2>4. seen = row[n].status \/ (seen = None /\ status = "FAILED")
    BY <2>1, <2>2, <2>3 DEF Loaded
  <2>5. \A m \in Migrations :
           \/ row'[m].status = row[m].status /\ audit'[m] = audit[m]
           \/ /\ m = n /\ seen # status
              /\ row'[m].status = status /\ audit'[m].to = status
              /\ audit'[m].from \in {seen, None}
    BY <2>1, SetStatusOnly
  <2>6. row'[n].status = status
    <3>1. CASE seen = status
      BY <2>3, <2>4, <2>5, <3>1, <1>1, NoneAssumption
         DEF Status, Active, InPipeline, Terminal
    <3>2. CASE seen # status
      BY <1>1, <2>1, <3>2 DEF SetStatus, TypeOK, Row
    <3> QED
      BY <3>1, <3>2
  <2>7. Follows(w)'
    <3>1. CASE worker'[w].at = "idle"
      BY <3>1 DEF Follows
    <3>2. CASE worker'[w].at # "idle"
      <4>1. Mine(w)' = n
        BY <1>2, <3>2
      <4> QED
        BY <2>1, <2>2, <2>6, <3>2, <4>1 DEF Follows
    <3> QED
      BY <3>1, <3>2
  <2>8. ASSUME NEW m \in Migrations PROVE StatusStep(m)
    <3>1. CASE row'[m].status = row[m].status /\ audit'[m] = audit[m]
      BY <3>1 DEF StatusStep
    <3>2. CASE /\ m = n /\ row'[m].status = status /\ audit'[m].to = status
               /\ audit'[m].from \in {seen, None}
      BY <2>2, <2>3, <2>4, <3>2 DEF StatusStep, Active
    <3> QED
      BY <2>5, <3>1, <3>2
  <2> QED
    BY <1>o, <2>5, <2>7, <2>8 DEF Followed
<1> QED
  BY <1>4, <1>5, OrchestratorEffect

(* The other steps of a worker write no status.                             *)
LEMMA WorkerOrdered ==
    ASSUME TypeOK, TypeOK', Traceable, Ordered, Calm, NEW w \in Workers,
           WorkerNext(w)
    PROVE  Followed' /\ \A m \in Migrations : StatusStep(m)
<1> USE DEF data, broker
<1>0. worker \in [Workers -> Orchestrator]
  BY DEF TypeOK
<1>1. CASE OrchestratorStep(w)
  BY <1>1, OrchestratorOrdered
<1>2. ASSUME UNCHANGED <<row, audit, target>>,
             \A v \in Workers : v # w => worker'[v] = worker[v],
             Follows(w)'
      PROVE  Followed' /\ \A m \in Migrations : StatusStep(m)
  <2>1. ASSUME NEW v \in Workers, v # w PROVE Follows(v)'
    BY <1>2, <2>1 DEF Ordered, Followed, Follows, Mine
  <2> QED
    BY <1>2, <2>1 DEF Followed, StatusStep
<1>3. CASE SoftTimeLimit(w)
  <2>1. /\ worker'[w].at = "fail" /\ worker'[w].seen = worker[w].seen
        /\ worker'[w].task = worker[w].task
        /\ \A v \in Workers : v # w => worker'[v] = worker[v]
    <3>1. Moved(w)
      BY <1>3, OrchestratorFrame
    <3> QED
      BY <1>3, <3>1, MovesAt, MovesSeen DEF SoftTimeLimit, Moved
  <2>2. Follows(w)'
    BY <1>3, <2>1 DEF SoftTimeLimit, Ordered, Followed, Follows, Mine
  <2> QED
    BY <1>2, <1>3, <2>1, <2>2 DEF SoftTimeLimit
<1>4. CASE Terminate(w) \/ Crash(w)
  <2>1. /\ worker'[w].at = "idle"
        /\ \A v \in Workers : v # w => worker'[v] = worker[v]
    BY <1>0, <1>4 DEF Terminate, Crash, Finish, IdleWorker
  <2>2. Follows(w)'
    BY <2>1 DEF Follows
  <2> QED
    BY <1>2, <1>4, <2>1, <2>2 DEF Terminate, Crash
<1>5. ASSUME NEW t \in Tasks, Receive(w, t)
      PROVE  Followed' /\ \A m \in Migrations : StatusStep(m)
  <2>1. \A v \in Workers : v # w => worker'[v] = worker[v]
    BY <1>0, <1>5 DEF Receive
  <2>2. Follows(w)'
    <3>1. CASE worker' = worker
      BY <1>5, <3>1 DEF Receive, Ordered, Followed, Follows, Mine
    <3>2. CASE worker' # worker
      <4>1. /\ worker'[w].at = "validate" /\ worker'[w].task = t
            /\ worker'[w].seen = row[target[t]].status
            /\ row[target[t]].status \notin Terminal
        BY <1>0, <1>5, <3>2 DEF Receive, IdleWorker
      <4>2. target[t] \in Migrations /\ Driven(target[t])
        BY <1>5 DEF Receive, Traceable, Driven
      <4>3. row[target[t]].status \in Status \cup {None}
               /\ row[target[t]].status \notin {None, "PENDING"}
        BY <4>2 DEF TypeOK, Row, Ordered, Startable
      <4>4. row[target[t]].status \in InPipeline
        BY <4>1, <4>3 DEF Status, Active
      <4> QED
        BY <1>5, <4>1, <4>4 DEF Receive, Follows, Mine
    <3> QED
      BY <3>1, <3>2
  <2> QED
    BY <1>2, <1>5, <2>1, <2>2 DEF Receive
<1>6. ~Redeliver(w)
  BY DEF Redeliver, Spend, TypeOK, Bounded, Calm
<1> QED
  BY <1>1, <1>3, <1>4, <1>5, <1>6 DEF WorkerNext

(* No worker makes a migration active.                                      *)
LEMMA WorkerLocked ==
    ASSUME TypeOK, TypeOK', Traceable, Ordered, Calm, NEW w \in Workers,
           WorkerNext(w)
    PROVE  Locked'
<1>1. /\ client' = client
      /\ \A m \in Migrations :
            \/ row'[m].status = row[m].status
            \/ Driven(m) /\ row'[m].status \in Driving
  BY WorkerDrives DEF Ordered, Calm
<1>2. \A m \in Migrations : StatusStep(m)
  BY WorkerOrdered
<1>3. ASSUME NEW m \in Migrations, row'[m].status \in Active
      PROVE  row[m].status \in Active
  <2>1. CASE row'[m].status = row[m].status
    BY <1>3, <2>1
  <2>2. CASE row'[m].status \in Driving
    <3>1. "PENDING" \notin Driving
      BY DEF Driving, InPipeline
    <3> QED
      BY <1>2, <1>3, <2>2, <3>1 DEF StatusStep
  <2> QED
    BY <1>1, <2>1, <2>2
<1> QED
  BY <1>1, <1>3 DEF Ordered, Locked

(* A request writes no status of a migration that a worker drives.          *)
LEMMA RequestOrdered ==
    ASSUME TypeOK, TypeOK', Traceable, Ordered, Calm, NEW c \in Clients,
           ClientNext(c)
    PROVE  Followed' /\ Locked' /\ \A m \in Migrations : StatusStep(m)
<1> USE DEF data, broker
<1>0. /\ row \in [Migrations -> Row] /\ client \in [Clients -> Request]
      /\ audit \in [Migrations -> Event]
      /\ client[c].at # "idle" => client[c].mig \in Migrations
      /\ client[c].at \notin {"revoke", "cancel", "cleanup"}
  BY DEF TypeOK, Traceable, Ordered, Uncancelled
<1>f. Fresh(c) /\ \A m \in Migrations : row[m].status \in {None, "PENDING"} => ~Driven(m)
  BY DEF Ordered, Startable
<1>1. worker' = worker
  BY DEF ClientNext, CreateBegin, StartBegin, CancelBegin, CreateLock, CreateInsert,
     StartPublish, StartValidate, StartBrokerDown, StartStampId, CancelRevoke,
     CancelCommit, CancelCleanup, HandlerDies
<1>2. ASSUME NEW v \in Workers, worker[v].at # "idle"
      PROVE  Mine(v)' = Mine(v) /\ Mine(v) \in Migrations /\ Driven(Mine(v))
  <2>1. worker[v].task \in Tasks /\ Mine(v) \in Migrations
    BY <1>2, BusyMine
  <2>2. target'[worker[v].task] = target[worker[v].task]
    <3>1. CASE \E t \in Tasks : StartPublish(c, t)
      <4>1. PICK t \in Tasks : StartPublish(c, t)
        BY <3>1
      <4>2. worker[v].task # t
        BY <2>1, <4>1, ConstantsAssumption DEF StartPublish, Mine
      <4> QED
        BY <2>1, <4>1, <4>2 DEF StartPublish, TypeOK
    <3>2. CASE ~ \E t \in Tasks : StartPublish(c, t)
      BY <3>2 DEF ClientNext, CreateBegin, StartBegin, CancelBegin, CreateLock, CreateInsert,
         StartValidate, StartBrokerDown, StartStampId, CancelRevoke, CancelCommit,
         CancelCleanup, HandlerDies
    <3> QED
      BY <3>1, <3>2
  <2> QED
    BY <1>1, <1>2, <2>1, <2>2 DEF Mine, Driven
<1>3. ASSUME \A m \in Migrations : row'[m].status = row[m].status \/ ~Driven(m)
      PROVE  Followed'
  <2> SUFFICES ASSUME NEW v \in Workers PROVE Follows(v)'
    BY DEF Followed
  <2>1. CASE worker[v].at = "idle"
    BY <1>1, <2>1 DEF Follows
  <2>2. CASE worker[v].at # "idle"
    <3>1. row'[Mine(v)].status = row[Mine(v)].status /\ Mine(v)' = Mine(v)
      BY <1>2, <1>3, <2>2
    <3> QED
      BY <1>1, <2>2, <3>1 DEF Ordered, Followed, Follows
  <2> QED
    BY <2>1, <2>2
<1>4. ASSUME \A m \in Migrations : row'[m].status = row[m].status, audit' = audit
      PROVE  Followed' /\ \A m \in Migrations : StatusStep(m)
  BY <1>3, <1>4 DEF StatusStep
<1>l. ASSUME \A m \in Migrations :
                row'[m].status \in Active => \E n \in Migrations : row[n].status \in Active,
             client'[c].at # "insert",
             \A d \in Clients : d # c => client'[d] = client[d]
      PROVE  Locked'
  BY <1>l DEF Ordered, Locked
<1>r. ASSUME Respond(c)
      PROVE  /\ client'[c].at # "insert"
             /\ \A d \in Clients : d # c => client'[d] = client[d]
  BY <1>0, <1>r DEF Respond, IdleClient
<1>5. CASE \/ \E m \in Migrations : CreateBegin(c, m) \/ StartBegin(c, m)
           \/ \E t \in Tasks : StartPublish(c, t)
           \/ HandlerDies(c)
  <2>1. UNCHANGED <<row, audit>>
    BY <1>5 DEF CreateBegin, StartBegin, StartPublish, HandlerDies
  <2>2. /\ client'[c].at # "insert"
        /\ \A d \in Clients : d # c => client'[d] = client[d]
    <3>1. CASE HandlerDies(c)
      BY <1>r, <3>1 DEF HandlerDies
    <3>2. ASSUME NEW m \in Migrations, CreateBegin(c, m) PROVE <2>2!1 /\ <2>2!2
      BY <1>0, <3>2 DEF CreateBegin, IdleClient
    <3>3. ASSUME NEW m \in Migrations, StartBegin(c, m) PROVE <2>2!1 /\ <2>2!2
      BY <1>0, <3>3 DEF StartBegin, IdleClient
    <3>4. ASSUME NEW t \in Tasks, StartPublish(c, t) PROVE <2>2!1 /\ <2>2!2
      BY <1>0, <3>4 DEF StartPublish, Request
    <3> QED
      BY <1>5, <3>1, <3>2, <3>3, <3>4
  <2>3. Locked'
    BY <1>l, <2>1, <2>2
  <2> QED
    BY <1>4, <2>1, <2>3
<1>c. CASE CreateLock(c)
  <2>1. UNCHANGED <<row, audit>>
    BY <1>c DEF CreateLock
  <2>2. CASE Respond(c)
    BY <1>4, <1>l, <1>r, <2>1, <2>2
  <2>3. CASE /\ \A n \in Migrations : row[n].status \notin Active
             /\ client' = [client EXCEPT ![c].at = "insert"]
    <3>1. \A d \in Clients : client[d].at # "insert"
      BY <1>c DEF CreateLock
    <3>2. \A d \in Clients : d # c => client'[d] = client[d]
      BY <1>0, <2>3
    <3>3. Locked'
      BY <2>1, <2>3, <3>1, <3>2 DEF Locked
    <3> QED
      BY <1>4, <2>1, <3>3
  <2> QED
    BY <1>c, <2>2, <2>3 DEF CreateLock
<1>6. CASE StartStampId(c)
  <2>1. (\A m \in Migrations : row'[m].status = row[m].status) /\ audit' = audit
    BY <1>0, <1>6 DEF StartStampId, Row
  <2> QED
    BY <1>4, <1>6, <1>l, <1>r, <2>1 DEF StartStampId
<1>7. ASSUME NEW named \in Naming, CreateInsert(c, named)
      PROVE  Followed' /\ Locked' /\ \A m \in Migrations : StatusStep(m)
  <2>0. PICK n \in Migrations : n = client[c].mig
    BY <1>0, <1>7 DEF CreateInsert
  <2>1. row[n].status = None /\ ~Driven(n)
    BY <1>7, <1>f, <2>0 DEF CreateInsert, Fresh
  <2>2. /\ \A m \in Migrations : row[m].status \notin Active
        /\ \A d \in Clients : client[d].at = "insert" => d = c
    BY <1>7 DEF CreateInsert, Ordered, Locked
  <2>3. /\ row' = [row EXCEPT ![n] = [status |-> "PENDING", task |-> None,
                                      named |-> named]]
        /\ audit' = [audit EXCEPT ![n] = [from |-> None, to |-> "PENDING"]]
    BY <1>7, <2>0 DEF CreateInsert
  <2>4. /\ row'[n].status = "PENDING"
        /\ audit'[n].to = "PENDING" /\ audit'[n].from = None
        /\ \A m \in Migrations : m # n =>
              row'[m].status = row[m].status /\ audit'[m] = audit[m]
    BY <1>0, <2>3
  <2>5. \A m \in Migrations : StatusStep(m)
    BY <2>1, <2>2, <2>4 DEF StatusStep
  <2>6. Locked'
    BY <1>7, <1>r, <2>2 DEF CreateInsert, Locked
  <2> QED
    BY <1>3, <2>1, <2>4, <2>5, <2>6
<1>8. CASE StartValidate(c)
  <2>0. PICK n \in Migrations : n = client[c].mig
    BY <1>0, <1>8 DEF StartValidate
  <2>1. ~Spend("overtaken", MaxOvertaken)
    BY DEF Spend, TypeOK, Bounded, Calm
  <2>2. row[n].status = "PENDING" /\ client[c].seen = "PENDING" /\ ~Driven(n)
    BY <1>8, <1>f, <2>0, <2>1 DEF StartValidate, Fresh
  <2>3. SetStatus(n, "PENDING", "VALIDATING")
    BY <1>8, <2>0, <2>2 DEF StartValidate
  <2>4. \A m \in Migrations :
           \/ row'[m].status = row[m].status /\ audit'[m] = audit[m]
           \/ /\ m = n /\ row'[m].status = "VALIDATING"
              /\ audit'[m].to = "VALIDATING" /\ audit'[m].from \in {"PENDING", None}
    BY <2>3, SetStatusOnly
  <2>5. \A m \in Migrations : StatusStep(m)
    BY <2>2, <2>4 DEF StatusStep, Active, Driving, InPipeline
  <2>6. /\ client'[c].at # "insert"
        /\ \A d \in Clients : d # c => client'[d] = client[d]
    BY <1>0, <1>8 DEF StartValidate, Request
  <2>7. "PENDING" \in Active
    BY DEF Active
  <2>8. Locked'
    BY <1>l, <2>2, <2>4, <2>6, <2>7
  <2> QED
    BY <1>3, <2>2, <2>4, <2>5, <2>8
<1>9. CASE StartBrokerDown(c)
  <2>0. PICK n \in Migrations : n = client[c].mig
    BY <1>0, <1>9 DEF StartBrokerDown
  <2>1. ~Driven(n) /\ row[n].status \in InPipeline
    BY <1>9, <1>f, <2>0 DEF StartBrokerDown, Fresh, Ordered, Uncancelled
  <2>2. /\ row'[n].status = "PENDING" /\ audit' = audit
        /\ \A m \in Migrations : m # n => row'[m].status = row[m].status
    BY <1>0, <1>9, <2>0 DEF StartBrokerDown, Row
  <2>3. MaxBrokerFail # 0
    BY <1>9 DEF StartBrokerDown, Spend, TypeOK, Bounded
  <2>4. \A m \in Migrations : StatusStep(m)
    BY <2>1, <2>2, <2>3 DEF StatusStep
  <2>5. Locked'
    BY <1>9, <1>l, <1>r, <2>1, <2>2 DEF StartBrokerDown, Active
  <2> QED
    BY <1>3, <2>1, <2>2, <2>4, <2>5
<1>10. ~ \E m \in Migrations : CancelBegin(c, m)
  BY DEF CancelBegin, Spend, TypeOK, Bounded, Calm
<1>11. ~ (CancelRevoke(c) \/ CancelCommit(c) \/ CancelCleanup(c))
  BY <1>0 DEF CancelRevoke, CancelCommit, CancelCleanup
<1> QED
  BY <1>5, <1>c, <1>6, <1>7, <1>8, <1>9, <1>10, <1>11 DEF ClientNext

LEMMA UncancelledStep ==
    ASSUME TypeOK, TypeOK', Traceable, Ordered, Calm, [Next]_vars
    PROVE  Uncancelled'
<1> USE DEF data, broker
<1>0. /\ row \in [Migrations -> Row] /\ client \in [Clients -> Request]
      /\ revoked = {}
      /\ \A c \in Clients :
            /\ client[c].at \notin {"revoke", "cancel", "cleanup"}
            /\ client[c].at = "publish" => row[client[c].mig].status \in InPipeline
  BY DEF TypeOK, Ordered, Uncancelled
<1>1. CASE UNCHANGED <<row, client, revoked>>
  BY <1>1 DEF Ordered, Uncancelled
<1>2. CASE ConvertNext \/ \E g \in DOMAIN groups : ConversionStep(g)
  BY <1>1, <1>2, ConversionFrame
<1>3. CASE UNCHANGED vars
  BY <1>1, <1>3 DEF vars
<1>4. ASSUME NEW w \in Workers, WorkerNext(w)
      PROVE  Uncancelled'
  <2>1. /\ client' = client
        /\ \A m \in Migrations :
              row'[m].status = row[m].status \/ Driven(m)
    BY <1>4, WorkerDrives DEF Ordered, Calm
  <2>2. revoked' = revoked
    <3>1. CASE OrchestratorStep(w)
      BY <3>1 DEF OrchestratorStep, Validate, Prepare, Transfer, Configure,
         SetVerifying, Complete, Advance, CheckEligible, FindGroup, CreateGroup,
         CreateJob, Populate, Enqueue, WaitConversions, Adapt, LoadContext,
         SetStarting, CreateVm, VerifyRunning, StampVm, CleanupTransit, FailGuard,
         FailCommit
    <3>2. CASE ~OrchestratorStep(w)
      BY <1>4, <3>2 DEF WorkerNext, Receive, SoftTimeLimit, Terminate, Crash, Redeliver
    <3> QED
      BY <3>1, <3>2
  <2>3. ASSUME NEW c \in Clients, client[c].at = "publish"
        PROVE  row'[client[c].mig].status \in InPipeline
    <3>1. client[c].mig \in Migrations /\ ~Driven(client[c].mig)
      BY <2>3 DEF Traceable, Ordered, Startable, Fresh
    <3> QED
      BY <1>0, <2>1, <2>3, <3>1
  <2> QED
    BY <1>0, <2>1, <2>2, <2>3 DEF Uncancelled
<1>5. ASSUME NEW c \in Clients, ClientNext(c)
      PROVE  Uncancelled'
  <2>2. ~ \E m \in Migrations : CancelBegin(c, m)
    BY DEF CancelBegin, Spend, TypeOK, Bounded, Calm
  <2>3. ~ (CancelRevoke(c) \/ CancelCommit(c) \/ CancelCleanup(c))
    BY <1>0 DEF CancelRevoke, CancelCommit, CancelCleanup
  <2>4. revoked' = {}
    BY <1>0, <1>5, <2>2, <2>3 DEF ClientNext, CreateBegin, StartBegin, CreateLock, CreateInsert,
       StartPublish, StartValidate, StartBrokerDown, StartStampId, HandlerDies
  <2>5. ASSUME client'[c].at \in {"idle", "create", "insert", "start", "stampid"},
               \A d \in Clients : d # c => client'[d] = client[d],
               \A d \in Clients : d # c /\ client[d].at = "publish" =>
                  row'[client[d].mig].status = row[client[d].mig].status
        PROVE  Uncancelled'
    BY <1>0, <2>4, <2>5 DEF Uncancelled
  <2>p. ASSUME NEW d \in Clients, client[d].at = "publish"
        PROVE  client[d].mig \in Migrations
    BY <2>p DEF Traceable
  <2>6. CASE \/ \E m \in Migrations : CreateBegin(c, m) \/ StartBegin(c, m)
             \/ \E t \in Tasks : StartPublish(c, t)
    <3>1. /\ client'[c].at \in {"create", "start", "stampid"}
          /\ \A d \in Clients : d # c => client'[d] = client[d]
      <4>1. ASSUME NEW m \in Migrations, CreateBegin(c, m)
            PROVE  client'[c].at = "create" /\ <3>1!2
        BY <1>0, <4>1 DEF CreateBegin, IdleClient
      <4>2. ASSUME NEW m \in Migrations, StartBegin(c, m)
            PROVE  client'[c].at = "start" /\ <3>1!2
        BY <1>0, <4>2 DEF StartBegin, IdleClient
      <4>3. ASSUME NEW t \in Tasks, StartPublish(c, t)
            PROVE  client'[c].at = "stampid" /\ <3>1!2
        BY <1>0, <4>3 DEF StartPublish, Request
      <4> QED
        BY <2>6, <4>1, <4>2, <4>3
    <3>2. row' = row
      BY <2>6 DEF CreateBegin, StartBegin, StartPublish
    <3> QED
      BY <2>5, <3>1, <3>2
  <2>7. ASSUME Respond(c)
        PROVE  /\ client'[c].at = "idle"
               /\ \A d \in Clients : d # c => client'[d] = client[d]
    BY <1>0, <2>7 DEF Respond, IdleClient
  <2>l. CASE CreateLock(c)
    <3>1. row' = row
      BY <2>l DEF CreateLock
    <3>2. /\ client'[c].at \in {"idle", "insert"}
          /\ \A d \in Clients : d # c => client'[d] = client[d]
      BY <1>0, <2>7, <2>l DEF CreateLock, Request
    <3> QED
      BY <2>5, <3>1, <3>2
  <2>h. CASE StartStampId(c) \/ HandlerDies(c)
    <3>1. \A m \in Migrations : row'[m].status = row[m].status
      BY <1>0, <2>h DEF StartStampId, HandlerDies, Row
    <3> QED
      BY <2>5, <2>7, <2>h, <2>p, <3>1 DEF StartStampId, HandlerDies
  <2>i. ASSUME NEW named \in Naming, CreateInsert(c, named)
        PROVE  Uncancelled'
    <3>1. \A d \in Clients : client[d].mig = client[c].mig => d = c
      BY <2>i DEF CreateInsert, Ordered, Startable, Fresh
    <3>2. \A m \in Migrations : m # client[c].mig => row'[m] = row[m]
      BY <1>0, <2>i DEF CreateInsert
    <3> QED
      BY <2>5, <2>7, <2>i, <2>p, <3>1, <3>2 DEF CreateInsert
  <2>b. CASE StartBrokerDown(c)
    <3>1. \A d \in Clients : client[d].at = "publish" /\ client[d].mig = client[c].mig => d = c
      BY <2>b DEF StartBrokerDown, Ordered, Startable, Fresh
    <3>2. \A m \in Migrations : m # client[c].mig => row'[m] = row[m]
      BY <1>0, <2>b DEF StartBrokerDown
    <3> QED
      BY <2>5, <2>7, <2>b, <2>p, <3>1, <3>2 DEF StartBrokerDown
  <2>8. CASE StartValidate(c)
    <3>0. PICK n \in Migrations : n = client[c].mig
      BY <2>8 DEF StartValidate, Traceable
    <3>1. row[n].status = "PENDING" /\ client[c].seen = "PENDING"
      <4>1. ~Spend("overtaken", MaxOvertaken)
        BY DEF Spend, TypeOK, Bounded, Calm
      <4> QED
        BY <2>8, <3>0, <4>1 DEF StartValidate, Ordered, Startable, Fresh
    <3>2. row'[n].status = "VALIDATING" /\ \A m \in Migrations : m # n => row'[m] = row[m]
      BY <1>0, <2>8, <3>0, <3>1 DEF StartValidate, SetStatus, Row
    <3>3. /\ client'[c].at = "publish" /\ client'[c].mig = n
          /\ \A d \in Clients : d # c => client'[d] = client[d]
      BY <1>0, <2>8, <3>0 DEF StartValidate, Request
    <3>4. "VALIDATING" \in InPipeline
      BY DEF InPipeline
    <3>5. ASSUME NEW d \in Clients, d # c, client[d].at = "publish"
          PROVE  row'[client[d].mig].status \in InPipeline
      BY <1>0, <2>p, <3>2, <3>4, <3>5
    <3> QED
      BY <1>0, <2>4, <3>2, <3>3, <3>4, <3>5 DEF Uncancelled
  <2> QED
    BY <1>5, <2>2, <2>3, <2>6, <2>l, <2>h, <2>i, <2>b, <2>8 DEF ClientNext
<1> QED
  BY <1>2, <1>3, <1>4, <1>5 DEF Next

LEMMA OrderedStep ==
    ASSUME TypeOK, TypeOK', Traceable, Traceable', Ordered, Calm, [Next]_vars
    PROVE  Ordered' /\ \A m \in Migrations : StatusStep(m)
<1>1. Exclusive' /\ Startable'
  BY StartableStep DEF Ordered, Calm
<1>2. Uncancelled'
  BY UncancelledStep
<1>3. ASSUME UNCHANGED <<row, audit, worker, client, target>>
      PROVE  Followed' /\ Locked' /\ \A m \in Migrations : StatusStep(m)
  BY <1>3 DEF Ordered, Followed, Follows, Mine, Locked, StatusStep
<1>4. CASE ConvertNext \/ \E g \in DOMAIN groups : ConversionStep(g)
  BY <1>1, <1>2, <1>3, <1>4, ConversionFrame DEF Ordered, broker
<1>5. CASE UNCHANGED vars
  BY <1>1, <1>2, <1>3, <1>5 DEF vars, data, broker, Ordered
<1>6. ASSUME NEW w \in Workers, WorkerNext(w)
      PROVE  Ordered' /\ \A m \in Migrations : StatusStep(m)
  BY <1>1, <1>2, <1>6, WorkerOrdered, WorkerLocked DEF Ordered
<1>7. ASSUME NEW c \in Clients, ClientNext(c)
      PROVE  Ordered' /\ \A m \in Migrations : StatusStep(m)
  BY <1>1, <1>2, <1>7, RequestOrdered DEF Ordered
<1> QED
  BY <1>4, <1>5, <1>6, <1>7 DEF Next

LEMMA OrderedInit ==
    ASSUME Init PROVE Ordered
  BY StartableInit DEF Init, Ordered, Followed, Follows, Uncancelled, Locked, IdleWorker,
     IdleClient

(* THEOREMS where no start overtakes another and nothing comes twice.       *)

(* When no start overtakes another one and no message is delivered a second *)
(* time, no two processes run the pipeline of one migration, whatever other *)
(* requests overlap, whatever dies, is cancelled, times out or is refused:  *)
(* a dead worker's message comes back only once, a start that the broker    *)
(* refused has left nothing.  Both hypotheses are needed: two overlapping   *)
(* starts make two orchestrators (run double_start), and so does a          *)
(* visibility timeout.                                                      *)
THEOREM OneOrchestrator ==
    ASSUME MaxOvertaken = 0, MaxRedeliver = 0
    PROVE  Spec => []SingleOrchestrator
<1>1. Init => Exclusive /\ Startable
  BY StartableInit
<1>2. (TypeOK /\ Traceable) /\ (TypeOK /\ Traceable)' /\ (Exclusive /\ Startable)
         /\ [Next]_vars => (Exclusive /\ Startable)'
  BY StartableStep
<1>3. Exclusive => SingleOrchestrator
  BY DEF Exclusive
<1> QED
  BY <1>1, <1>2, <1>3, BaseInvariant, PTL DEF Spec

LEMMA OrderedInvariant ==
    ASSUME Calm
    PROVE  Spec => [](TypeOK /\ Traceable /\ Ordered)
<1>1. Init => Ordered
  BY OrderedInit
<1>2. (TypeOK /\ Traceable) /\ (TypeOK /\ Traceable)' /\ Ordered /\ [Next]_vars
         => Ordered'
  BY OrderedStep
<1> QED
  BY <1>1, <1>2, BaseInvariant, PTL DEF Spec

(* Besides, without cancels a virtual machine has at most one active        *)
(* migration, however many requests create one at the same time: creation   *)
(* looks for another one under the row lock of the machine, and no ended    *)
(* migration becomes active again, also when workers die, time out or fail  *)
(* and when the broker refuses tasks.                                       *)
THEOREM OneActive ==
    ASSUME Calm
    PROVE  Spec => []OneActivePerVm
<1>1. Init => OneActivePerVm
  BY NoneAssumption DEF Init, OneActivePerVm, Status
<1>2. (TypeOK /\ Traceable /\ Ordered) /\ (TypeOK /\ Traceable /\ Ordered)'
         /\ OneActivePerVm /\ [Next]_vars => OneActivePerVm'
  <2> SUFFICES ASSUME TypeOK, TypeOK', Traceable, Traceable', Ordered, OneActivePerVm,
                      [Next]_vars, NEW m \in Migrations, NEW n \in Migrations,
                      row'[m].status \in Active, row'[n].status \in Active, m # n
               PROVE  FALSE
    BY DEF OneActivePerVm
  <2>1. StatusStep(m) /\ StatusStep(n)
    BY OrderedStep
  <2>2. /\ row[m].status \in Active \/ row[m].status = None
        /\ row[n].status \in Active \/ row[n].status = None
    BY <2>1 DEF StatusStep, Active
  <2>3. CASE row[m].status \in Active /\ row[n].status \in Active
    BY <2>3 DEF OneActivePerVm
  <2>4. None \notin Active
    BY NoneAssumption DEF Status
  <2>5. CASE row[m].status = None
    <3>1. row'[n].status = row[n].status /\ row[n].status \notin Active
      BY <2>1, <2>4, <2>5 DEF StatusStep, Active
    <3> QED
      BY <3>1
  <2>6. CASE row[n].status = None
    <3>1. row'[m].status = row[m].status /\ row[m].status \notin Active
      BY <2>1, <2>4, <2>6 DEF StatusStep, Active
    <3> QED
      BY <3>1
  <2> QED
    BY <2>2, <2>3, <2>5, <2>6
<1> QED
  BY <1>1, <1>2, OrderedInvariant, PTL DEF Spec

(* Under the same hypotheses an ended migration keeps its status: whoever   *)
(* could write it, the one orchestrator and the requests, has seen it.      *)
THEOREM EndedStaysEnded ==
    ASSUME Calm
    PROVE  Spec => TerminalIsFinal
<1>1. (TypeOK /\ Traceable /\ Ordered) /\ (TypeOK /\ Traceable /\ Ordered)'
         /\ [Next]_vars
         => [\A m \in Migrations :
               row[m].status \in Terminal => row'[m].status = row[m].status]_vars
  <2> SUFFICES ASSUME TypeOK, TypeOK', Traceable, Traceable', Ordered, [Next]_vars,
                      NEW m \in Migrations, row[m].status \in Terminal
               PROVE  row'[m].status = row[m].status
    OBVIOUS
  <2>1. StatusStep(m)
    BY OrderedStep
  <2>2. row[m].status \notin Active /\ row[m].status # None
    BY NoneAssumption DEF Status, Active, InPipeline, Terminal
  <2> QED
    BY <2>1, <2>2 DEF StatusStep, Active
<1> QED
  BY <1>1, OrderedInvariant, PTL DEF Spec, TerminalIsFinal

(* And if the broker refuses nothing, the events of a migration are a path: *)
(* each change of status has its event, which leaves the status that the    *)
(* event before it reached.  The reset after a refusal writes no event.     *)
THEOREM JournalIsAPath ==
    ASSUME Calm, MaxBrokerFail = 0
    PROVE  Spec => AuditIsAPath
<1> DEFINE Mirrored == \A m \in Migrations : audit[m].to = row[m].status
<1>1. Init => Mirrored
  BY DEF Init
<1>2. (TypeOK /\ Traceable /\ Ordered) /\ (TypeOK /\ Traceable /\ Ordered)'
         /\ Mirrored /\ [Next]_vars => Mirrored'
  BY OrderedStep DEF StatusStep
<1>3. (TypeOK /\ Traceable /\ Ordered) /\ (TypeOK /\ Traceable /\ Ordered)'
         /\ Mirrored /\ [Next]_vars
         => [\A m \in Migrations :
               row'[m].status # row[m].status =>
                  /\ audit'[m].to = row'[m].status
                  /\ audit'[m].from \in {audit[m].to, None}]_vars
  <2> SUFFICES ASSUME TypeOK, TypeOK', Traceable, Traceable', Ordered, [Next]_vars,
                      Mirrored, NEW m \in Migrations, row'[m].status # row[m].status
               PROVE  /\ audit'[m].to = row'[m].status
                      /\ audit'[m].from \in {audit[m].to, None}
    OBVIOUS
  <2>1. StatusStep(m) /\ audit[m].to = row[m].status
    BY OrderedStep
  <2> QED
    BY <2>1 DEF StatusStep
<1> HIDE DEF Mirrored
<1> QED
  BY <1>1, <1>2, <1>3, OrderedInvariant, PTL DEF Spec, AuditIsAPath

-----------------------------------------------------------------------------
(* NOTHING DIES: besides, no worker dies, and then no time limit expires.   *)
Alive == Calm /\ MaxCrash = 0
Healthy == Alive /\ MaxTimeLimit = 0

(* The bound of an event that may not happen is not spent.                  *)
LEMMA NothingSpent ==
    ASSUME TypeOK, NEW what \in Bounded
    PROVE  ~Spend(what, 0)
<1>1. spent[what] \in Nat
  BY DEF TypeOK
<1>2. ~(spent[what] < 0)
  BY <1>1
<1> QED
  BY <1>2 DEF Spend

LEMMA NobodyDies ==
    ASSUME TypeOK, Ordered, Alive, NEW w \in Workers
    PROVE  ~Crash(w) /\ ~Redeliver(w) /\ ~Terminate(w)
<1>1. MaxCrash = 0 /\ MaxRedeliver = 0
  BY DEF Alive, Calm
<1>2. {"crash", "redeliver"} \subseteq Bounded
  BY DEF Bounded
<1>3. ~Crash(w)
  BY <1>1, <1>2, NothingSpent DEF Crash
<1>4. ~Redeliver(w)
  BY <1>1, <1>2, NothingSpent DEF Redeliver
<1>5. ~Terminate(w)
  BY DEF Terminate, Ordered, Uncancelled
<1> QED
  BY <1>3, <1>4, <1>5

LEMMA NothingDies ==
    ASSUME TypeOK, Ordered, Healthy, NEW w \in Workers
    PROVE  ~SoftTimeLimit(w) /\ ~Crash(w) /\ ~Redeliver(w) /\ ~Terminate(w)
<1>1. "limit" \in Bounded /\ MaxTimeLimit = 0
  BY DEF Bounded, Healthy
<1>2. ~SoftTimeLimit(w)
  BY <1>1, NothingSpent DEF SoftTimeLimit
<1> QED
  BY <1>2, NobodyDies DEF Healthy

(* A migration of which a worker has stamped the VM row is completed, and   *)
(* stays so.                                                                *)
Resting(w) ==
    worker[w].at \in {"idle", "validate", "eligible", "complete", "cleanup", "fail",
                      "failed"}

LEMMA OthersRest ==
    ASSUME TypeOK, Traceable, Ordered, OneActivePerVm, NEW w \in Workers,
           worker[w].at \notin {"idle", "cleanup"}
    PROVE  \A v \in Workers : v # w => worker[v].at \in {"idle", "cleanup"}
<1> SUFFICES ASSUME NEW v \in Workers, v # w, worker[v].at \notin {"idle", "cleanup"}
             PROVE  FALSE
  OBVIOUS
<1>1. Mine(w) \in Migrations /\ Mine(v) \in Migrations
  BY BusyMine
<1>2. row[Mine(w)].status \in Active /\ row[Mine(v)].status \in Active
  BY DEF Ordered, Followed, Follows, Active
<1>3. Mine(w) = Mine(v)
  BY <1>1, <1>2 DEF OneActivePerVm
<1> QED
  BY <1>3 DEF Ordered, Exclusive, SingleOrchestrator

LEMMA MigratedStep ==
    ASSUME TypeOK, TypeOK', Traceable, Traceable', Ordered, OneActivePerVm, Healthy,
           MigratedHasCompleted, [Next]_vars
    PROVE  MigratedHasCompleted'
<1> USE DEF data, broker
<1>0. worker \in [Workers -> Orchestrator] /\ row \in [Migrations -> Row]
  BY DEF TypeOK
<1>1. \A m \in Migrations : row[m].status = "COMPLETED" => row'[m].status = "COMPLETED"
  <2> SUFFICES ASSUME NEW m \in Migrations, row[m].status = "COMPLETED"
               PROVE  row'[m].status = "COMPLETED"
    OBVIOUS
  <2>1. StatusStep(m)
    BY OrderedStep DEF Healthy, Alive
  <2>2. row[m].status \notin Active /\ row[m].status # None
    BY NoneAssumption DEF Status, Active, InPipeline, Terminal
  <2> QED
    BY <2>1, <2>2 DEF StatusStep, Active
<1>2. ASSUME vm' = vm, NEW u \in Workers, vm = "MIGRATED" =>
                \/ worker[u].at # "complete"
                \/ \E m \in Migrations : row'[m].status = "COMPLETED"
                \/ worker'[u].at = "complete",
             vm = "MIGRATED" => Resting(u)',
             \A v \in Workers : v # u => worker'[v] = worker[v]
      PROVE  MigratedHasCompleted'
  BY <1>1, <1>2 DEF MigratedHasCompleted, Resting
<1>3. ASSUME UNCHANGED <<vm, worker>> PROVE MigratedHasCompleted'
  BY <1>1, <1>3 DEF MigratedHasCompleted
<1>4. CASE ConvertNext \/ \E g \in DOMAIN groups : ConversionStep(g)
  BY <1>3, <1>4, ConversionFrame
<1>5. CASE UNCHANGED vars
  BY <1>3, <1>5 DEF vars
<1>6. ASSUME NEW c \in Clients, ClientNext(c)
      PROVE  MigratedHasCompleted'
  BY <1>3, <1>6 DEF ClientNext, CreateBegin, StartBegin, CancelBegin, CreateLock, CreateInsert,
     StartPublish, StartValidate, StartBrokerDown, StartStampId, CancelRevoke,
     CancelCommit, CancelCleanup, HandlerDies
<1>7. ASSUME NEW w \in Workers, OrchestratorStep(w)
      PROVE  MigratedHasCompleted'
  <2>1. Moved(w) /\ worker[w].at # "idle" /\ Mine(w) \in Migrations
    <3>1. ~Terminate(w)
      BY BusyMine, ConstantsAssumption DEF Terminate, Ordered, Uncancelled
    <3> QED
      BY <1>7, <3>1, OrchestratorFrame, BusyMine
  <2>2. CASE StampVm(w)
    <3>1. worker'[w].at = "complete" /\ worker[w].at = "stamp"
      BY <2>2, MovesAt DEF StampVm
    <3>2. \A v \in Workers : v # w => worker'[v].at \in {"idle", "cleanup"}
      BY <2>1, <3>1, OthersRest DEF Moved
    <3> QED
      BY <3>1, <3>2 DEF MigratedHasCompleted
  <2>3. CASE ~StampVm(w)
    <3>1. vm' = vm
      BY <1>7, <2>3 DEF OrchestratorStep, Validate, Prepare, Transfer, Configure,
         SetVerifying, Complete, Advance, CheckEligible, FindGroup, CreateGroup,
         CreateJob, Populate, Enqueue, WaitConversions, Adapt, LoadContext,
         SetStarting, CreateVm, VerifyRunning, CleanupTransit, FailGuard,
         FailCommit
    <3>r. vm = "MIGRATED" => Resting(w)'
      <4> SUFFICES ASSUME vm = "MIGRATED" PROVE Resting(w)'
        OBVIOUS
      <4>1. Resting(w)
        BY DEF MigratedHasCompleted, Resting
      <4>2. CASE Validate(w) \/ Complete(w) \/ FailCommit(w) \/ FailGuard(w)
                 \/ CleanupTransit(w)
        <5>1. worker'[w].at \in {"eligible", "cleanup", "idle", "failed"}
          BY <4>2, MovesAt DEF Validate, Complete, FailCommit, FailGuard, CleanupTransit,
             Advance
        <5> QED
          BY <5>1 DEF Resting
      <4>3. CASE CheckEligible(w)
        BY <4>3, MovesAt DEF CheckEligible, CanMigrate, Resting
      <4> QED
        BY <1>7, <4>1, <4>2, <4>3 DEF OrchestratorStep, Resting, Prepare, Transfer, Configure,
           SetVerifying, Advance, FindGroup, CreateGroup,
           CreateJob, Populate, Enqueue, WaitConversions, Adapt, LoadContext,
           SetStarting, CreateVm, VerifyRunning, StampVm
    <3>2. CASE worker[w].at # "complete"
      BY <1>2, <2>1, <3>1, <3>r, <3>2 DEF Moved
    <3>3. CASE worker[w].at = "complete"
      <4>1. Wrote(w)
        BY <1>7, <3>3, OrchestratorEffect DEF Passed, Writing
      <4>2. SetStatus(Mine(w), Loaded(w), "COMPLETED")
        BY <3>3, <4>1 DEF Wrote, WriteStage
      <4>3. Loaded(w) = row[Mine(w)].status /\ row[Mine(w)].status \in InPipeline
        BY <2>1, <3>3 DEF Ordered, Followed, Follows, Loaded
      <4>4. row'[Mine(w)].status = "COMPLETED"
        BY <1>0, <2>1, <4>2, <4>3 DEF SetStatus, Row, InPipeline
      <4> QED
        BY <1>2, <2>1, <3>1, <3>r, <4>4 DEF Moved
    <3> QED
      BY <3>2, <3>3
  <2> QED
    BY <2>2, <2>3
<1>8. ASSUME NEW w \in Workers, NEW t \in Tasks, Receive(w, t)
      PROVE  MigratedHasCompleted'
  <2>1. worker[w].at # "complete" /\ \A v \in Workers : v # w => worker'[v] = worker[v]
    BY <1>0, <1>8 DEF Receive
  <2>2. worker'[w].at \in {"idle", "validate"}
    <3>1. CASE worker' = worker
      BY <1>8, <3>1 DEF Receive
    <3>2. CASE worker' # worker
      BY <1>0, <1>8, <3>2 DEF Receive, IdleWorker
    <3> QED
      BY <3>1, <3>2
  <2> QED
    BY <1>2, <1>8, <2>1, <2>2 DEF Receive, Resting
<1>9. ASSUME NEW w \in Workers
      PROVE  ~SoftTimeLimit(w) /\ ~Crash(w) /\ ~Redeliver(w) /\ ~Terminate(w)
  BY NothingDies
<1> QED
  BY <1>4, <1>5, <1>6, <1>7, <1>8, <1>9 DEF Next, WorkerNext

(* When no start overtakes another, nothing is delivered twice or cancelled *)
(* and no worker dies or times out, a machine marked MIGRATED has a         *)
(* completed migration, or its worker is about to complete it, and no other *)
(* one goes past the test of eligibility: between the two commits only a    *)
(* death can come (section 4 of the README shows that it does, and what the *)
(* next delivery makes of it).                                              *)
THEOREM MigratedIsCompleted ==
    ASSUME Healthy
    PROVE  Spec => []MigratedHasCompleted
<1>0. Calm
  BY DEF Healthy, Alive
<1>1. Init => MigratedHasCompleted
  BY DEF Init, MigratedHasCompleted
<1>2. (TypeOK /\ Traceable /\ Ordered) /\ (TypeOK /\ Traceable /\ Ordered)'
         /\ OneActivePerVm /\ MigratedHasCompleted /\ [Next]_vars
         => MigratedHasCompleted'
  BY MigratedStep
<1> QED
  BY <1>0, <1>1, <1>2, OrderedInvariant, OneActive, PTL DEF Spec

-----------------------------------------------------------------------------
(* Groups are never removed, nor the disks they have.                       *)
Grows ==
    \A g \in DOMAIN groups :
        /\ g \in DOMAIN groups'
        /\ groups'[g].owner = groups[g].owner
        /\ groups'[g].by = "task" <=> groups[g].by = "task"
        /\ groups[g].jobs \subseteq groups'[g].jobs
        /\ groups[g].adapted => groups'[g].adapted

LEMMA GrowsAppend ==
    ASSUME TypeOK, NEW g \in Group, groups' = Append(groups, g)
    PROVE  /\ Grows
           /\ DOMAIN groups' = DOMAIN groups \cup {Len(groups) + 1}
           /\ groups'[Len(groups) + 1] = g
           /\ \A h \in DOMAIN groups : groups'[h] = groups[h]
<1>1. groups \in Seq(Group)
  BY DEF TypeOK
<1>2. /\ Len(groups) \in Nat /\ DOMAIN groups = 1..Len(groups)
      /\ DOMAIN groups' = 1..(Len(groups) + 1)
      /\ \A h \in 1..Len(groups) : groups'[h] = groups[h]
      /\ groups'[Len(groups) + 1] = g
  BY <1>1, AppendProperties, LenProperties
<1> QED
  BY <1>2 DEF Grows

LEMMA GrowsUpdate ==
    ASSUME TypeOK, NEW g, NEW new, groups' = [groups EXCEPT ![g] = new],
           g \in DOMAIN groups =>
              /\ new.owner = groups[g].owner /\ groups[g].jobs \subseteq new.jobs
              /\ new.by = "task" <=> groups[g].by = "task"
              /\ groups[g].adapted => new.adapted
    PROVE  /\ Grows
           /\ DOMAIN groups' = DOMAIN groups
           /\ g \in DOMAIN groups => groups'[g] = new
           /\ \A h \in DOMAIN groups : h # g => groups'[h] = groups[h]
<1>1. groups \in Seq(Group)
  BY DEF TypeOK
<1>2. \A h \in DOMAIN groups : groups[h] \in Group
  BY GroupAt
<1> QED
  BY <1>1, <1>2 DEF Grows

(* The one group a step may change, and how.                                *)
LEMMA GroupSteps ==
    ASSUME TypeOK, Traceable, NEW w \in Workers, OrchestratorStep(w)
    PROVE  \/ UNCHANGED groups
           \/ /\ CreateGroup(w) /\ Mine(w) \in Migrations
              /\ groups' = Append(groups, NewGroup(Mine(w), "task"))
           \/ \E d \in Disks :
                 /\ CreateJob(w, d)
                 /\ groups' = [groups EXCEPT ![worker[w].own] =
                       [groups[worker[w].own] EXCEPT !.jobs = @ \cup {d}]]
           \/ /\ Enqueue(w)
              /\ \E d \in Disks :
                    /\ worker[w].left = {} => d \in groups[worker[w].own].jobs
                    /\ groups' = [groups EXCEPT ![worker[w].own] =
                          [groups[worker[w].own] EXCEPT !.enqueued = @ \cup {d}]]
           \/ /\ Adapt(w)
              /\ \E g \in ReadyGroups :
                    groups' = [groups EXCEPT ![g] =
                       [groups[g] EXCEPT !.adapted = TRUE]]
<1> USE DEF data, broker
<1>0. groups \in Seq(Group)
  BY DEF TypeOK
<1>1. CASE CreateGroup(w)
  <2>1. Mine(w) \in Migrations
    BY <1>1, BusyMine DEF CreateGroup
  <2> QED
    BY <1>1, <2>1 DEF CreateGroup
<1>2. ASSUME NEW d \in Disks, CreateJob(w, d)
      PROVE  groups' = [groups EXCEPT ![worker[w].own] =
                       [groups[worker[w].own] EXCEPT !.jobs = @ \cup {d}]]
  BY <1>2 DEF CreateJob
<1>3. CASE Enqueue(w)
  <2>1. \/ \E d \in Disks :
              /\ worker[w].left = {} => d \in groups[worker[w].own].jobs
              /\ groups' = [groups EXCEPT ![worker[w].own].enqueued = @ \cup {d}]
        \/ UNCHANGED groups
    BY <1>3 DEF Enqueue
  <2>2. ASSUME NEW d, groups' = [groups EXCEPT ![worker[w].own].enqueued = @ \cup {d}]
        PROVE  groups' = [groups EXCEPT ![worker[w].own] =
                             [groups[worker[w].own] EXCEPT !.enqueued = @ \cup {d}]]
    BY <1>0, <2>2
  <2> QED
    BY <1>3, <2>1, <2>2
<1>4. CASE Adapt(w)
  <2>1. \/ \E g \in ReadyGroups : groups' = [groups EXCEPT ![g].adapted = TRUE]
        \/ UNCHANGED groups
    BY <1>4 DEF Adapt
  <2> QED
    BY <1>4, <2>1
<1>5. CASE \/ Validate(w) \/ CheckEligible(w) \/ Prepare(w) \/ FindGroup(w)
           \/ \E d \in Disks : Populate(w, d)
           \/ Transfer(w) \/ WaitConversions(w)
           \/ Configure(w) \/ LoadContext(w) \/ SetStarting(w) \/ CreateVm(w)
           \/ SetVerifying(w) \/ VerifyRunning(w) \/ StampVm(w) \/ Complete(w)
           \/ CleanupTransit(w) \/ FailGuard(w) \/ FailCommit(w)
  BY <1>5 DEF Validate, Prepare, Transfer, Configure, SetVerifying, Complete, Advance,
     CheckEligible, FindGroup, Populate, WaitConversions, LoadContext, SetStarting,
     CreateVm, VerifyRunning, StampVm, CleanupTransit, FailGuard, FailCommit
<1> QED
  BY <1>1, <1>2, <1>3, <1>4, <1>5 DEF OrchestratorStep

LEMMA GrowsStep ==
    ASSUME TypeOK, Traceable, [Next]_vars
    PROVE  Grows
<1> USE DEF data, broker
<1>u. ASSUME UNCHANGED groups PROVE Grows
  BY <1>u DEF Grows
<1>1. CASE UNCHANGED vars
  BY <1>1, <1>u DEF vars
<1>2. ASSUME NEW c \in Clients, ClientNext(c) PROVE Grows
  BY <1>2, <1>u DEF ClientNext, CreateBegin, StartBegin, CancelBegin, CreateLock, CreateInsert,
     StartPublish, StartValidate, StartBrokerDown, StartStampId, CancelRevoke,
     CancelCommit, CancelCleanup, HandlerDies
<1>3. ASSUME NEW w \in Workers, WorkerNext(w) PROVE Grows
  <2>1. CASE OrchestratorStep(w)
    <3>1. NewGroup(Mine(w), "task") \in Group \/ Mine(w) \notin Migrations
      BY DEF NewGroup, Group, GroupStatus
    <3>2. \A g \in DOMAIN groups : groups[g] \in Group
      BY GroupAt
    <3>3. CASE groups' = Append(groups, NewGroup(Mine(w), "task"))
               /\ Mine(w) \in Migrations
      BY <3>1, <3>3, GrowsAppend
    <3>4. ASSUME NEW d \in Disks, groups' = [groups EXCEPT ![worker[w].own] =
                       [groups[worker[w].own] EXCEPT !.jobs = @ \cup {d}]]
          PROVE  Grows
      <4> DEFINE old == groups[worker[w].own]
                 new == [old EXCEPT !.jobs = @ \cup {d}]
      <4>1. worker[w].own \in DOMAIN groups =>
               /\ new.owner = old.owner /\ old.jobs \subseteq new.jobs
               /\ new.by = old.by /\ new.adapted = old.adapted
        BY <3>2 DEF Group
      <4>2. groups' = [groups EXCEPT ![worker[w].own] = new]
        BY <3>4
      <4> HIDE DEF new
      <4> QED
        BY <4>1, <4>2, GrowsUpdate
    <3>5. ASSUME NEW d \in Disks, groups' = [groups EXCEPT ![worker[w].own] =
                    [groups[worker[w].own] EXCEPT !.enqueued = @ \cup {d}]]
          PROVE  Grows
      <4> DEFINE old == groups[worker[w].own]
                 new == [old EXCEPT !.enqueued = @ \cup {d}]
      <4>1. worker[w].own \in DOMAIN groups =>
               /\ new.owner = old.owner /\ old.jobs \subseteq new.jobs
               /\ new.by = old.by /\ new.adapted = old.adapted
        BY <3>2 DEF Group
      <4>2. groups' = [groups EXCEPT ![worker[w].own] = new]
        BY <3>5
      <4> HIDE DEF new
      <4> QED
        BY <4>1, <4>2, GrowsUpdate
    <3>6. ASSUME NEW g \in ReadyGroups, groups' = [groups EXCEPT ![g] =
                       [groups[g] EXCEPT !.adapted = TRUE]]
          PROVE  Grows
      BY <3>2, <3>6, GrowsUpdate DEF Group
    <3> QED
      BY <1>u, <2>1, <3>3, <3>4, <3>5, <3>6, GroupSteps
  <2>2. CASE ~OrchestratorStep(w)
    BY <1>3, <1>u, <2>2 DEF WorkerNext, Receive, SoftTimeLimit, Terminate, Crash,
       Redeliver
  <2> QED
    BY <2>1, <2>2
<1>4. ASSUME NEW g \in DOMAIN groups, ConversionStep(g) PROVE Grows
  BY <1>4, ConversionEffect, GrowsUpdate
<1>5. CASE ConvertNext
  <2>1. ASSUME NEW owner \in Migrations \cup {None},
               groups' = Append(groups, NewGroup(owner, "jobs"))
        PROVE  Grows
    <3>1. NewGroup(owner, "jobs") \in Group
      BY DEF NewGroup, Group, GroupStatus
    <3> QED
      BY <2>1, <3>1, GrowsAppend
  <2>2. ASSUME NEW g \in DOMAIN groups, ConvertsGroup(g) PROVE Grows
    <3>1. PICK new : /\ groups' = [groups EXCEPT ![g] = new]
                     /\ groups[g].by # "task" /\ new.by # "task"
                     /\ new.owner = groups[g].owner /\ new.adapted = groups[g].adapted
                     /\ groups[g].jobs \subseteq new.jobs
      BY <2>2 DEF ConvertsGroup
    <3>2. (new.by = "task") <=> (groups[g].by = "task")
      BY <3>1
    <3> QED
      BY <3>1, <3>2, GrowsUpdate
  <2> QED
    BY <1>5, <2>1, <2>2, ConvertEffect
<1> QED
  BY <1>1, <1>2, <1>3, <1>4, <1>5 DEF Next

(* The fields a plain move keeps.                                           *)
Kept(w) == /\ worker'[w].own = worker[w].own
           /\ worker'[w].ctx = worker[w].ctx
           /\ worker'[w].left = worker[w].left

LEMMA MovesKeep ==
    ASSUME TypeOK, NEW w \in Workers
    PROVE  /\ \A stage : Goto(w, stage) \/ Expire(w, stage) \/ Reload(w, stage)
                            => Kept(w)
           /\ Raise(w) \/ RaiseExpired(w) => Kept(w)
<1>0. worker \in [Workers -> Orchestrator] /\ worker[w] \in Orchestrator
  BY DEF TypeOK
<1>1. ASSUME NEW stage, Goto(w, stage) PROVE Kept(w)
  BY <1>0, <1>1 DEF Goto, Kept, Orchestrator
<1>2. ASSUME NEW stage, Expire(w, stage) PROVE Kept(w)
  BY <1>0, <1>2 DEF Expire, Kept, Orchestrator
<1>3. ASSUME NEW stage, Reload(w, stage) PROVE Kept(w)
  <2>1. PICK seen : worker' = [worker EXCEPT ![w].at = stage, ![w].seen = seen]
    BY <1>3 DEF Reload
  <2> QED
    BY <1>0, <2>1 DEF Kept, Orchestrator
<1> QED
  BY <1>1, <1>2, <1>3 DEF Raise, RaiseExpired

(* The steps that set these fields.                                         *)
LEMMA FieldSteps ==
    ASSUME TypeOK, NEW w \in Workers
    PROVE  /\ FindGroup(w) =>
                 \/ worker'[w].at = "list"
                 \/ /\ worker'[w].at = "transfer"
                    /\ worker'[w].own \in GroupsOf(Mine(w))
           /\ CreateGroup(w) =>
                 \/ worker'[w].at = "fail" /\ UNCHANGED groups
                 \/ /\ worker'[w].at = "jobs" /\ worker'[w].own = Len(groups) + 1
                    /\ worker'[w].left = Disks
           /\ \A d \in Disks : CreateJob(w, d) =>
                 /\ worker'[w].own = worker[w].own
                 /\ worker'[w].left = worker[w].left \ {d}
                 /\ worker'[w].at = IF worker'[w].left = {} THEN "transfer" ELSE "jobs"
           /\ Enqueue(w) =>
                 /\ worker'[w].own = worker[w].own /\ worker'[w].ctx = worker[w].ctx
                 /\ worker'[w].at \in {"enqueue", "wait", "fail"}
                 /\ worker'[w].at = "enqueue" =>
                       worker'[w].left \subseteq IF worker[w].left = {}
                          THEN groups[worker[w].own].jobs ELSE worker[w].left
           /\ LoadContext(w) =>
                 \/ worker'[w].at = "fail"
                 \/ /\ worker'[w].at = "populate"
                    /\ worker'[w].ctx \in ReadyGroups
                    /\ IsNewest(worker'[w].ctx, ReadyGroups)
                    /\ worker'[w].left # {}
                    /\ worker'[w].left \subseteq groups[worker'[w].ctx].ended
                    /\ Completed(worker'[w].ctx, worker'[w].left)
           /\ \A d \in Disks : Populate(w, d) =>
                 \/ worker'[w].at = "fail"
                 \/ /\ worker'[w].ctx = worker[w].ctx
                    /\ worker'[w].left = worker[w].left \ {d}
                    /\ worker'[w].at =
                          IF worker'[w].left = {} THEN "starting" ELSE "populate"
                    /\ cluster' = [cluster EXCEPT !.pvcs = @ \cup {<<Mine(w), d>>}]
<1> DEFINE Same == worker'[w].own = worker[w].own /\ worker'[w].ctx = worker[w].ctx
           todo == IF worker[w].left = {} THEN groups[worker[w].own].jobs
                                          ELSE worker[w].left
<1>0. worker \in [Workers -> Orchestrator] /\ worker[w] \in Orchestrator
  BY DEF TypeOK
<1>1. ASSUME FindGroup(w), worker'[w].at # "list"
      PROVE  worker'[w].at = "transfer" /\ worker'[w].own \in GroupsOf(Mine(w))
  <2>1. PICK g \in GroupsOf(Mine(w)) :
           worker' = [worker EXCEPT ![w].at = "transfer", ![w].own = g]
    BY <1>1, MovesAt DEF FindGroup
  <2> QED
    BY <1>0, <2>1 DEF Orchestrator
<1>2. ASSUME CreateGroup(w), ~(worker'[w].at = "fail" /\ UNCHANGED groups)
      PROVE  /\ worker'[w].at = "jobs" /\ worker'[w].own = Len(groups) + 1
             /\ worker'[w].left = Disks
  <2>1. worker' = [worker EXCEPT ![w].at = "jobs", ![w].own = Len(groups) + 1,
                                 ![w].left = Disks, ![w].seen = None]
    BY <1>2, MovesAt DEF CreateGroup
  <2> QED
    BY <1>0, <2>1 DEF Orchestrator
<1>3. ASSUME NEW d \in Disks, CreateJob(w, d)
      PROVE  /\ worker'[w].own = worker[w].own
             /\ worker'[w].left = worker[w].left \ {d}
             /\ worker'[w].at = IF worker'[w].left = {} THEN "transfer" ELSE "jobs"
  <2>1. PICK rest, next :
           /\ rest = worker[w].left \ {d}
           /\ next = IF rest = {} THEN "transfer" ELSE "jobs"
           /\ worker' = [worker EXCEPT ![w].left = rest, ![w].at = next]
    BY <1>3 DEF CreateJob
  <2>2. /\ worker'[w].own = worker[w].own /\ worker'[w].left = rest
        /\ worker'[w].at = next
    BY <1>0, <2>1 DEF Orchestrator
  <2> QED
    BY <2>1, <2>2
<1>e. ASSUME Enqueue(w)
      PROVE  /\ worker'[w].own = worker[w].own /\ worker'[w].ctx = worker[w].ctx
             /\ worker'[w].at \in {"enqueue", "wait", "fail"}
             /\ worker'[w].at = "enqueue" => worker'[w].left \subseteq todo
  <2>1. \/ \E left : worker' = [worker EXCEPT ![w].at = "wait", ![w].seen = None,
                                            ![w].left = left]
        \/ \E left \in SUBSET todo : worker' = [worker EXCEPT ![w].left = left]
        \/ Expire(w, "wait") \/ Raise(w)
    BY <1>e DEF Enqueue
  <2>2. ASSUME NEW left, worker' = [worker EXCEPT ![w].at = "wait", ![w].seen = None,
                                                  ![w].left = left]
        PROVE  worker'[w].at = "wait" /\ Same
    BY <1>0, <2>2 DEF Orchestrator
  <2>3. ASSUME NEW left, worker' = [worker EXCEPT ![w].left = left]
        PROVE  worker'[w].at = "enqueue" /\ worker'[w].left = left /\ Same
    BY <1>0, <1>e, <2>3 DEF Orchestrator, Enqueue
  <2>4. CASE Expire(w, "wait") \/ Raise(w)
    BY <2>4, MovesAt, MovesKeep DEF Kept
  <2> QED
    BY <2>1, <2>2, <2>3, <2>4
<1>4. ASSUME LoadContext(w), worker'[w].at # "fail"
      PROVE  /\ worker'[w].at = "populate"
             /\ worker'[w].ctx \in ReadyGroups
             /\ IsNewest(worker'[w].ctx, ReadyGroups)
             /\ worker'[w].left # {}
             /\ worker'[w].left \subseteq groups[worker'[w].ctx].ended
             /\ Completed(worker'[w].ctx, worker'[w].left)
  <2>1. ~Raise(w)
    BY <1>4, MovesAt
  <2>2. ASSUME NEW g, NEW disks, Loads(w, g, disks, "fail") PROVE FALSE
    BY <1>0, <1>4, <2>2 DEF Loads, Orchestrator
  <2>3. PICK g \in ReadyGroups : \E disks \in SUBSET groups[g].ended :
           /\ IsNewest(g, ReadyGroups) /\ Completed(g, disks)
           /\ disks # {} /\ Loads(w, g, disks, "populate")
    BY <1>4, <2>1, <2>2, ContextMoves
  <2>p. PICK disks \in SUBSET groups[g].ended :
           /\ IsNewest(g, ReadyGroups) /\ Completed(g, disks)
           /\ disks # {} /\ Loads(w, g, disks, "populate")
    BY <2>3
  <2>4. worker'[w].at = "populate" /\ worker'[w].ctx = g /\ worker'[w].left = disks
    BY <1>0, <2>p DEF Loads, Orchestrator
  <2> QED
    BY <2>p, <2>4
<1>5. ASSUME NEW d \in Disks, Populate(w, d), worker'[w].at # "fail"
      PROVE  /\ worker'[w].ctx = worker[w].ctx
             /\ worker'[w].left = worker[w].left \ {d}
             /\ worker'[w].at =
                   IF worker'[w].left = {} THEN "starting" ELSE "populate"
             /\ cluster' = [cluster EXCEPT !.pvcs = @ \cup {<<Mine(w), d>>}]
  <2>0. ~Raise(w) /\ ~RaiseExpired(w)
    BY <1>5, MovesAt
  <2> DEFINE rest == worker[w].left \ {d}
             next == IF rest = {} THEN "starting" ELSE "populate"
             seen == IF rest = {} THEN None ELSE row[Mine(w)].status
  <2>1. /\ worker' = [worker EXCEPT ![w].left = rest, ![w].at = next,
                                    ![w].seen = seen]
        /\ cluster' = [cluster EXCEPT !.pvcs = @ \cup {<<Mine(w), d>>}]
    BY <1>5, <2>0 DEF Populate
  <2> HIDE DEF seen
  <2>2. /\ worker'[w].ctx = worker[w].ctx /\ worker'[w].left = rest
        /\ worker'[w].at = next
    BY <1>0, <2>1 DEF Orchestrator
  <2> QED
    BY <2>1, <2>2
<1> QED
  BY <1>1, <1>2, <1>3, <1>e, <1>4, <1>5

(* A request does not change what a busy worker works for.                  *)
LEMMA MineKept ==
    ASSUME TypeOK, Traceable, NEW c \in Clients, ClientNext(c), NEW v \in Workers,
           worker[v].at # "idle"
    PROVE  Mine(v)' = Mine(v)
<1>1. worker[v].task \in Tasks /\ Mine(v) \in Migrations
  BY BusyMine
<1>2. CASE \E t \in Tasks : StartPublish(c, t)
  <2>1. PICK t \in Tasks : StartPublish(c, t)
    BY <1>2
  <2>2. worker[v].task # t
    BY <1>1, <2>1, ConstantsAssumption DEF StartPublish, Mine
  <2> QED
    BY <1>1, <2>1, <2>2 DEF StartPublish, TypeOK, Mine
<1>3. CASE ~ \E t \in Tasks : StartPublish(c, t)
  BY <1>3 DEF ClientNext, CreateBegin, StartBegin, CancelBegin, CreateLock, CreateInsert,
     StartValidate, StartBrokerDown, StartStampId, CancelRevoke, CancelCommit,
     CancelCleanup, HandlerDies, broker, Mine
<1> QED
  BY <1>2, <1>3

(* THE GROUPS when nothing dies.                                            *)

(* The migration of a group has failed, or its worker is about to say so.   *)
GivenUp(g) ==
    \E m \in Migrations :
        /\ groups[g].owner = m
        /\ \/ row[m].status = "FAILED"
           \/ \E w \in Workers : worker[w].at \in {"fail", "failed"} /\ Mine(w) = m

(* A group that an orchestrator made has all disks, or its orchestrator is  *)
(* creating them or ran out of time while it did.                           *)
Made(g) ==
    groups[g].by = "task" =>
        \/ groups[g].jobs = Disks
        \/ \E w \in Workers : worker[w].at = "jobs" /\ worker[w].own = g
        \/ GivenUp(g)

(* A request enqueues a group with all disks; only such a group is enqueued *)
(* or becomes READY, unless a request tied it to a migration.               *)
Sent(g) ==
    /\ groups[g].by \in {"enqueue", "refuse", "done"} => groups[g].jobs = Disks
    /\ ~Lendable(g) /\ groups[g].enqueued # {} => groups[g].jobs = Disks
    /\ ~Lendable(g) /\ groups[g].status = "READY" => groups[g].ended = Disks

GroupFilled(g) == Made(g) /\ Sent(g)

Fills(w) ==
    /\ worker[w].at = "jobs" =>
          /\ worker[w].own \in DOMAIN groups
          /\ groups[worker[w].own].owner = Mine(w)
          /\ groups[worker[w].own].by = "task"
          /\ Disks \subseteq groups[worker[w].own].jobs \cup worker[w].left
    /\ worker[w].at \in {"transfer", "enqueue"} =>
          /\ worker[w].own \in DOMAIN groups
          /\ groups[worker[w].own].owner = Mine(w)
          /\ groups[worker[w].own].by = "task" => groups[worker[w].own].jobs = Disks

Filled ==
    /\ \A g \in DOMAIN groups : GroupFilled(g)
    /\ \A w \in Workers : Fills(w)

(* A group that was given up is not taken up again: its migration fails.    *)
GivenUpStays == \A g \in DOMAIN groups : GivenUp(g) => GivenUp(g)'

LEMMA FailingFails ==
    ASSUME TypeOK, Traceable, Ordered, Alive, NEW w \in Workers, OrchestratorStep(w),
           worker[w].at \in {"fail", "failed"}
    PROVE  \/ worker'[w].at = "failed" /\ Mine(w)' = Mine(w)
           \/ row'[Mine(w)].status = "FAILED"
<1> USE DEF data, broker
<1>0. /\ row \in [Migrations -> Row] /\ Mine(w) \in Migrations
      /\ UNCHANGED target /\ Moved(w)
  BY NobodyDies, OrchestratorFrame, BusyMine DEF TypeOK
<1>1. /\ worker[w].seen \in {None, row[Mine(w)].status}
      /\ row[Mine(w)].status \in InPipeline /\ Loaded(w) \in InPipeline
  BY DEF Ordered, Followed, Follows, Loaded
<1>2. CASE FailGuard(w)
  <2>1. worker'[w].at = "failed"
    BY <1>1, <1>2, MovesAt DEF FailGuard, InPipeline, ProtectedTerminal
  <2> QED
    BY <1>0, <2>1 DEF Moved, Mine
<1>3. CASE FailCommit(w)
  <2>1. worker[w].seen # "FAILED"
    BY <1>1, NoneAssumption DEF InPipeline, Status, Terminal
  <2>2. row' = [row EXCEPT ![Mine(w)].status = "FAILED"]
    BY <1>3, <2>1 DEF FailCommit, SetStatus
  <2> QED
    BY <1>0, <2>2 DEF Row
<1>4. CASE ~FailGuard(w) /\ ~FailCommit(w)
  BY <1>4 DEF OrchestratorStep, Validate, Prepare, Transfer, Configure, SetVerifying,
     Complete, Advance, CheckEligible, FindGroup, CreateGroup, CreateJob, Populate,
     Enqueue, WaitConversions, Adapt, LoadContext, SetStarting, CreateVm, VerifyRunning,
     StampVm, CleanupTransit
<1> QED
  BY <1>2, <1>3, <1>4

LEMMA GivenUpStep ==
    ASSUME TypeOK, TypeOK', Traceable, Traceable', Ordered, Alive, Grows, [Next]_vars
    PROVE  GivenUpStays
<1> USE DEF data, broker
<1> SUFFICES ASSUME NEW g \in DOMAIN groups, NEW m \in Migrations, groups[g].owner = m,
                    \/ row[m].status = "FAILED"
                    \/ \E w \in Workers : worker[w].at \in {"fail", "failed"} /\ Mine(w) = m
             PROVE  \/ row'[m].status = "FAILED"
                    \/ \E w \in Workers : worker'[w].at \in {"fail", "failed"} /\ Mine(w)' = m
  BY DEF GivenUpStays, GivenUp, Grows
<1>0. worker \in [Workers -> Orchestrator]
  BY DEF TypeOK
<1>1. CASE row[m].status = "FAILED"
  <2>1. StatusStep(m)
    BY OrderedStep DEF Alive
  <2> QED
    BY <1>1, <2>1, NoneAssumption DEF StatusStep, Active, InPipeline, Status, Terminal
<1>2. ASSUME NEW w \in Workers, worker[w].at \in {"fail", "failed"}, Mine(w) = m
      PROVE  \/ row'[m].status = "FAILED"
             \/ worker'[w].at \in {"fail", "failed"} /\ Mine(w)' = m
  <2>1. CASE UNCHANGED worker /\ Mine(w)' = Mine(w)
    BY <1>2, <2>1
  <2>2. CASE UNCHANGED vars \/ ConvertNext \/ \E h \in DOMAIN groups : ConversionStep(h)
    BY <2>1, <2>2, ConversionFrame DEF vars, Mine
  <2>3. ASSUME NEW c \in Clients, ClientNext(c)
        PROVE  UNCHANGED worker /\ Mine(w)' = Mine(w)
    <3>1. UNCHANGED worker
      BY <2>3 DEF ClientNext, CreateBegin, StartBegin, CancelBegin, CreateLock, CreateInsert,
         StartPublish, StartValidate, StartBrokerDown, StartStampId, CancelRevoke,
         CancelCommit, CancelCleanup, HandlerDies
    <3> QED
      BY <1>2, <2>3, <3>1, MineKept
  <2>4. ASSUME NEW u \in Workers, u # w,
               \/ \E t \in Tasks : Receive(u, t)
               \/ OrchestratorStep(u) \/ SoftTimeLimit(u)
        PROVE  worker'[w] = worker[w] /\ Mine(w)' = Mine(w)
    <3>1. CASE \E t \in Tasks : Receive(u, t)
      BY <1>0, <2>4, <3>1 DEF Receive, Mine
    <3>2. CASE OrchestratorStep(u) \/ SoftTimeLimit(u)
      BY <2>4, <3>2, OrchestratorFrame DEF Moved, Mine
    <3> QED
      BY <2>4, <3>1, <3>2
  <2>5. ~SoftTimeLimit(w) /\ \A t \in Tasks : ~Receive(w, t)
    BY <1>2 DEF SoftTimeLimit, Receive
  <2>6. CASE OrchestratorStep(w)
    BY <1>2, <2>6, FailingFails
  <2>7. \A u \in Workers : ~Crash(u) /\ ~Redeliver(u) /\ ~Terminate(u)
    BY NobodyDies
  <2> QED
    BY <1>2, <2>1, <2>2, <2>3, <2>4, <2>5, <2>6, <2>7 DEF Next, WorkerNext
<1> QED
  BY <1>1, <1>2

(* A worker that does not move stays right about its group.                 *)
LEMMA FillsKept ==
    ASSUME TypeOK, TypeOK', Grows, NEW v \in Workers, Fills(v),
           worker'[v] = worker[v], worker[v].at # "idle" => Mine(v)' = Mine(v)
    PROVE  Fills(v)'
<1>1. CASE worker[v].at \in {"jobs", "transfer", "enqueue"}
  <2>1. PICK g \in DOMAIN groups : g = worker[v].own
    BY <1>1 DEF Fills
  <2>2. /\ g \in DOMAIN groups' /\ groups'[g].owner = groups[g].owner
        /\ groups'[g].by = "task" <=> groups[g].by = "task"
        /\ groups[g].jobs \subseteq groups'[g].jobs
    BY DEF Grows
  <2>3. groups'[g].jobs \subseteq Disks
    <3>1. groups' \in Seq(Group)
      BY DEF TypeOK
    <3>2. groups'[g] \in Group
      BY <2>2, <3>1, ElementOfSeq, LenProperties
    <3> QED
      BY <3>2 DEF Group
  <2>4. Mine(v)' = Mine(v)
    BY <1>1
  <2>5. CASE worker[v].at = "jobs"
    <3>1. /\ groups[g].owner = Mine(v) /\ groups[g].by = "task"
          /\ Disks \subseteq groups[g].jobs \cup worker[v].left
      BY <2>1, <2>5 DEF Fills
    <3>2. Disks \subseteq groups'[g].jobs \cup worker[v].left
      BY <2>2, <3>1
    <3> QED
      BY <2>1, <2>2, <2>4, <2>5, <3>1, <3>2 DEF Fills
  <2>6. CASE worker[v].at \in {"transfer", "enqueue"}
    <3>1. /\ groups[g].owner = Mine(v)
          /\ groups[g].by = "task" => groups[g].jobs = Disks
      BY <2>1, <2>6 DEF Fills
    <3>2. groups'[g].by = "task" => groups'[g].jobs = Disks
      BY <2>2, <2>3, <3>1
    <3> QED
      BY <2>1, <2>2, <2>4, <2>6, <3>1, <3>2 DEF Fills
  <2> QED
    BY <1>1, <2>5, <2>6
<1>2. CASE worker[v].at \notin {"jobs", "transfer", "enqueue"}
  BY <1>2 DEF Fills
<1> QED
  BY <1>1, <1>2

(* Changing a group without giving it jobs or making it READY.              *)
SentKept(old, new) ==
    /\ new.owner = old.owner /\ new.jobs = old.jobs
    /\ new.by = old.by
    /\ new.enqueued = old.enqueued
    /\ new.status = old.status /\ new.ended = old.ended

LEMMA SentStays ==
    ASSUME NEW g, Sent(g), SentKept(groups[g], groups'[g])
    PROVE  Sent(g)'
<1>1. /\ groups'[g].jobs = groups[g].jobs /\ groups'[g].enqueued = groups[g].enqueued
      /\ groups'[g].status = groups[g].status /\ groups'[g].ended = groups[g].ended
      /\ Lendable(g)' = Lendable(g)
      /\ groups'[g].by \in {"enqueue", "refuse", "done"} => groups'[g].by = groups[g].by
  BY DEF SentKept, Lendable
<1> QED
  BY <1>1 DEF Sent

(* A step that leaves the groups alone, by a worker that creates no jobs.   *)
LEMMA FilledMove ==
    ASSUME TypeOK, TypeOK', Filled, GivenUpStays, UNCHANGED groups, NEW w \in Workers,
           \A v \in Workers : v # w =>
              worker'[v] = worker[v] /\ (worker[v].at # "idle" => Mine(v)' = Mine(v)),
           worker[w].at # "jobs", Fills(w)'
    PROVE  Filled'
<1>1. Grows
  BY DEF Grows
<1>2. ASSUME NEW v \in Workers PROVE Fills(v)'
  BY <1>1, FillsKept DEF Filled
<1>3. ASSUME NEW g \in DOMAIN groups PROVE GroupFilled(g)'
  <2>1. Made(g)'
    BY DEF Filled, GroupFilled, Made, GivenUpStays
  <2>2. Sent(g)'
    BY DEF Filled, GroupFilled, Sent, Lendable
  <2> QED
    BY <2>1, <2>2 DEF GroupFilled
<1> QED
  BY <1>2, <1>3 DEF Filled

(* A step that changes groups only, and gives no orchestrator's group a job.*)
LEMMA FilledStay ==
    ASSUME TypeOK, TypeOK', Filled, GivenUpStays, Grows, UNCHANGED worker,
           \A v \in Workers : worker[v].at # "idle" => Mine(v)' = Mine(v),
           \A g \in DOMAIN groups' :
              /\ groups'[g].by = "task" =>
                    g \in DOMAIN groups /\ groups'[g].jobs = groups[g].jobs
              /\ Sent(g)'
    PROVE  Filled'
<1>1. ASSUME NEW v \in Workers PROVE Fills(v)'
  BY FillsKept DEF Filled
<1>2. ASSUME NEW g \in DOMAIN groups' PROVE Made(g)'
  BY DEF Filled, GroupFilled, Made, GivenUpStays, Grows
<1> QED
  BY <1>1, <1>2 DEF Filled, GroupFilled

(* A step of a worker that changes one group.                               *)
LEMMA FilledUpdate ==
    ASSUME TypeOK, TypeOK', Filled, GivenUpStays, NEW w \in Workers,
           \A v \in Workers : v # w =>
              worker'[v] = worker[v] /\ (worker[v].at # "idle" => Mine(v)' = Mine(v)),
           NEW g \in DOMAIN groups, NEW new \in Group,
           groups' = [groups EXCEPT ![g] = new],
           new.owner = groups[g].owner, new.by = groups[g].by,
           groups[g].jobs \subseteq new.jobs, groups[g].adapted => new.adapted,
           worker[w].at = "jobs" => worker[w].own = g,
           Fills(w)', GroupFilled(g)'
    PROVE  Filled'
<1>1. /\ Grows /\ DOMAIN groups' = DOMAIN groups
      /\ \A h \in DOMAIN groups : h # g => groups'[h] = groups[h]
  BY GrowsUpdate
<1>2. ASSUME NEW v \in Workers PROVE Fills(v)'
  BY <1>1, FillsKept DEF Filled
<1>3. ASSUME NEW h \in DOMAIN groups, h # g PROVE GroupFilled(h)'
  <2>1. groups'[h] = groups[h] /\ Made(h) /\ Sent(h)
    BY <1>1, <1>3 DEF Filled, GroupFilled
  <2>2. \A v \in Workers : worker[v].at = "jobs" /\ worker[v].own = h => worker'[v] = worker[v]
    BY <1>3
  <2>3. Made(h)'
    BY <2>1, <2>2 DEF Made, GivenUpStays
  <2>4. Sent(h)'
    BY <2>1 DEF Sent, Lendable
  <2> QED
    BY <2>3, <2>4 DEF GroupFilled
<1> QED
  BY <1>1, <1>2, <1>3 DEF Filled

LEMMA FilledStep ==
    ASSUME TypeOK, TypeOK', Traceable, Traceable', Ordered, Alive, Filled,
           [Next]_vars
    PROVE  Filled'
<1> USE DEF data, broker
<1>0. /\ worker \in [Workers -> Orchestrator] /\ Grows
      /\ \A g \in DOMAIN groups : groups[g] \in Group
  BY GrowsStep, GroupAt DEF TypeOK
<1>u. GivenUpStays
  BY <1>0, GivenUpStep
<1>1. ASSUME UNCHANGED <<groups, worker>>,
             \A v \in Workers : worker[v].at # "idle" => Mine(v)' = Mine(v)
      PROVE  Filled'
  <2>1. \A g \in DOMAIN groups : GroupFilled(g)
    BY DEF Filled
  <2>2. ASSUME NEW g \in DOMAIN groups PROVE GroupFilled(g)'
    BY <1>1, <1>u, <2>1 DEF GroupFilled, Made, Sent, Lendable, GivenUpStays
  <2>3. ASSUME NEW v \in Workers PROVE Fills(v)'
    BY <1>0, <1>1, FillsKept DEF Filled
  <2> QED
    BY <1>1, <2>2, <2>3 DEF Filled
<1>2. CASE UNCHANGED vars
  BY <1>1, <1>2 DEF vars, Mine
<1>3. ASSUME NEW c \in Clients, ClientNext(c)
      PROVE  Filled'
  <2>1. UNCHANGED <<groups, worker>>
    BY <1>3 DEF ClientNext, CreateBegin, StartBegin, CancelBegin, CreateLock, CreateInsert,
       StartPublish, StartValidate, StartBrokerDown, StartStampId, CancelRevoke,
       CancelCommit, CancelCleanup, HandlerDies
  <2> QED
    BY <1>1, <1>3, <2>1, MineKept
<1>4. ASSUME NEW g \in DOMAIN groups, ConversionStep(g)
      PROVE  Filled'
  <2>0. UNCHANGED <<worker, target>>
    BY <1>4, ConversionEffect
  <2>1. PICK new \in Group :
           /\ groups' = [groups EXCEPT ![g] = new]
           /\ groups[g].enqueued # {}
           /\ new.owner = groups[g].owner /\ new.by = groups[g].by
           /\ new.jobs = groups[g].jobs /\ new.enqueued = groups[g].enqueued
           /\ new.adapted = groups[g].adapted
           /\ new.status = "READY" => /\ new.jobs \subseteq new.enqueued
                                      /\ new.ended = new.enqueued
    BY <1>4, ConversionEffect
  <2>2. /\ DOMAIN groups' = DOMAIN groups /\ groups'[g] = new
        /\ \A h \in DOMAIN groups : h # g => groups'[h] = groups[h]
    BY <2>1, GrowsUpdate
  <2>3. Sent(g)'
    <3>1. Sent(g) /\ Lendable(g)' = Lendable(g)
      BY <2>1, <2>2 DEF Filled, GroupFilled, Lendable
    <3>2. ~Lendable(g) => new.jobs = Disks
      BY <2>1, <3>1 DEF Sent
    <3>3. ~Lendable(g) /\ new.status = "READY" => new.ended = Disks
      BY <2>1, <3>2 DEF Group
    <3> QED
      BY <2>1, <2>2, <3>1, <3>2, <3>3 DEF Sent
  <2>4. ASSUME NEW h \in DOMAIN groups, h # g PROVE Sent(h)'
    BY <2>2, <2>4 DEF Filled, GroupFilled, Sent, Lendable
  <2>5. \A h \in DOMAIN groups : groups'[h].jobs = groups[h].jobs
    BY <2>1, <2>2
  <2>6. \A v \in Workers : worker[v].at # "idle" => Mine(v)' = Mine(v)
    BY <2>0 DEF Mine
  <2> QED
    BY <1>0, <1>u, <2>0, <2>2, <2>3, <2>4, <2>5, <2>6, FilledStay
<1>5. CASE ConvertNext
  <2>0. UNCHANGED <<worker, target>>
    BY <1>5, ConversionFrame
  <2>6. \A v \in Workers : worker[v].at # "idle" => Mine(v)' = Mine(v)
    BY <2>0 DEF Mine
  <2>1. ASSUME NEW owner \in Migrations \cup {None},
               groups' = Append(groups, NewGroup(owner, "jobs"))
        PROVE  Filled'
    <3> DEFINE new == NewGroup(owner, "jobs")
    <3>1. /\ new \in Group /\ new.by = "jobs" /\ new.enqueued = {} /\ new.status # "READY"
      BY DEF NewGroup, Group, GroupStatus
    <3> HIDE DEF new
    <3>2. PICK g : g = Len(groups) + 1
      OBVIOUS
    <3>3. /\ DOMAIN groups' = DOMAIN groups \cup {g}
          /\ groups'[g] = new
          /\ \A h \in DOMAIN groups : groups'[h] = groups[h]
      BY <2>1, <3>1, <3>2, GrowsAppend DEF new
    <3>4. Sent(g)' /\ groups'[g].by # "task"
      BY <3>1, <3>3 DEF Sent
    <3>5. ASSUME NEW h \in DOMAIN groups PROVE Sent(h)'
      BY <3>3 DEF Filled, GroupFilled, Sent, Lendable
    <3> QED
      BY <1>0, <1>u, <2>0, <2>6, <3>3, <3>4, <3>5, FilledStay
  <2>2. ASSUME NEW g \in DOMAIN groups, ConvertsGroup(g)
        PROVE  Filled'
    <3>1. PICK new \in Group :
             /\ groups' = [groups EXCEPT ![g] = new]
             /\ groups[g].by # "task" /\ new.by # "task"
             /\ new.owner = groups[g].owner /\ new.adapted = groups[g].adapted
             /\ groups[g].jobs \subseteq new.jobs
             /\ new.enqueued # groups[g].enqueued => groups[g].by \in {"enqueue", "refuse"}
             /\ new.status = "READY" => new.status = groups[g].status /\ new.ended = groups[g].ended
             /\ new.by \in {"enqueue", "refuse", "done"} /\ groups[g].by = "jobs"
                   => new.jobs = Disks
      BY <2>2 DEF ConvertsGroup
    <3>2. /\ DOMAIN groups' = DOMAIN groups /\ groups'[g] = new
          /\ \A h \in DOMAIN groups : h # g => groups'[h] = groups[h]
      BY <3>1, GrowsUpdate
    <3>3. Sent(g)'
      <4>1. Sent(g) /\ Lendable(g)' = Lendable(g)
        BY <3>1, <3>2 DEF Filled, GroupFilled, Lendable
      <4>2. groups[g].jobs = Disks => new.jobs = Disks
        BY <3>1 DEF Group
      <4>3. groups[g] \in Group
        BY <1>0
      <4>4. new.by \in {"enqueue", "refuse", "done"} => new.jobs = Disks
        BY <3>1, <4>1, <4>2, <4>3 DEF Sent, Group
      <4>5. ~Lendable(g) /\ new.enqueued # {} => new.jobs = Disks
        BY <3>1, <4>1, <4>2 DEF Sent
      <4>6. ~Lendable(g) /\ new.status = "READY" => new.ended = Disks
        BY <3>1, <4>1 DEF Sent
      <4> QED
        BY <3>2, <4>1, <4>4, <4>5, <4>6 DEF Sent
    <3>4. ASSUME NEW h \in DOMAIN groups, h # g PROVE Sent(h)'
      BY <3>2, <3>4 DEF Filled, GroupFilled, Sent, Lendable
    <3>5. \A h \in DOMAIN groups : groups'[h].by = "task" => groups'[h] = groups[h]
      BY <3>1, <3>2
    <3> QED
      BY <1>0, <1>u, <2>0, <2>6, <3>2, <3>3, <3>4, <3>5, FilledStay
  <2> QED
    BY <1>5, <2>1, <2>2, ConvertEffect
<1>6. ASSUME NEW w \in Workers
      PROVE  ~Crash(w) /\ ~Redeliver(w) /\ ~Terminate(w)
  BY NobodyDies
<1>7. ASSUME NEW w \in Workers, NEW t \in Tasks, Receive(w, t)
      PROVE  Filled'
  <2>1. /\ worker[w].at = "idle" /\ worker'[w].at \in {"idle", "validate"}
        /\ \A v \in Workers : v # w => worker'[v] = worker[v]
        /\ UNCHANGED <<groups, target>>
    BY <1>0, <1>7 DEF Receive, IdleWorker
  <2>2. Fills(w)'
    BY <2>1 DEF Fills
  <2> QED
    BY <2>1, <2>2, FilledMove, <1>u DEF Mine
<1>8. ASSUME NEW w \in Workers, OrchestratorStep(w)
      PROVE  Filled'
  <2>1. /\ UNCHANGED target /\ Moved(w) /\ worker[w].at # "idle"
        /\ Mine(w) \in Migrations
    BY <1>6, <1>8, OrchestratorFrame, BusyMine
  <2>2. /\ \A v \in Workers : v # w => worker'[v] = worker[v] /\ Mine(v)' = Mine(v)
        /\ worker'[w].at # "idle" => Mine(w)' = Mine(w)
    BY <2>1 DEF Moved, Mine
  <2>3. ASSUME UNCHANGED groups, worker[w].at # "jobs",
               worker'[w].at \notin {"jobs", "transfer", "enqueue"}
        PROVE  Filled'
    <3>1. Fills(w)'
      BY <2>3 DEF Fills
    <3> QED
      BY <2>2, <2>3, <3>1, FilledMove, <1>u
  <2>4. \A v \in Workers : v # w => Fills(v)'
    BY <1>0, <2>2, FillsKept DEF Filled
  <2>5. CASE \/ Validate(w) \/ Prepare(w) \/ Configure(w) \/ SetVerifying(w)
             \/ Complete(w)
    BY <2>3, <2>5, MovesAt DEF Validate, Prepare, Configure, SetVerifying, Complete,
       Advance
  <2>6. CASE \/ CheckEligible(w) \/ WaitConversions(w) \/ VerifyRunning(w)
             \/ SetStarting(w) \/ CreateVm(w) \/ StampVm(w)
    BY <2>3, <2>6, MovesAt DEF CheckEligible, WaitConversions, VerifyRunning,
       SetStarting, CreateVm, StampVm
  <2>7. CASE CleanupTransit(w) \/ FailGuard(w) \/ FailCommit(w)
    BY <2>3, <2>7, MovesAt DEF CleanupTransit, FailGuard, FailCommit
  <2>8. CASE LoadContext(w)
    BY <2>3, <2>8, FieldSteps DEF LoadContext
  <2>9. ASSUME NEW d \in Disks, Populate(w, d)
        PROVE  Filled'
    <3>1. worker'[w].at \in {"fail", "starting", "populate"}
      BY <2>9, FieldSteps
    <3> QED
      BY <2>3, <2>9, <3>1 DEF Populate
  <2>10. CASE Transfer(w)
    <3>1. worker'[w].at = "enqueue" /\ Kept(w) /\ worker[w].at = "transfer"
          /\ UNCHANGED groups
      BY <2>10, MovesAt, MovesKeep DEF Transfer, Advance
    <3>2. Fills(w)'
      BY <2>2, <3>1 DEF Filled, Fills, Kept
    <3> QED
      BY <2>2, <3>1, <3>2, FilledMove, <1>u
  <2>11. CASE FindGroup(w)
    <3>1. CASE worker'[w].at = "list"
      BY <2>3, <2>11, <3>1 DEF FindGroup
    <3>2. CASE worker'[w].at = "transfer" /\ worker'[w].own \in GroupsOf(Mine(w))
      <4>1. PICK g \in DOMAIN groups : g = worker'[w].own /\ groups[g].owner = Mine(w)
        BY <3>2 DEF GroupsOf
      <4>2. groups[g].by = "task" => groups[g].jobs = Disks
        <5>1. ASSUME NEW v \in Workers, worker[v].at = "jobs", worker[v].own = g
              PROVE  Mine(v) = Mine(w)
          BY <4>1, <5>1 DEF Filled, Fills
        <5>2. ASSUME NEW v \in Workers, worker[v].at \in {"jobs", "fail", "failed"},
                     Mine(v) = Mine(w)
              PROVE  FALSE
          <6>1. v = w
            BY <2>1, <5>2 DEF Ordered, Exclusive, SingleOrchestrator
          <6> QED
            BY <2>11, <5>2, <6>1 DEF FindGroup
        <5>3. row[Mine(w)].status # "FAILED"
          BY <2>11 DEF FindGroup, Ordered, Followed, Follows, InPipeline
        <5>4. ~GivenUp(g)
          BY <4>1, <5>2, <5>3 DEF GivenUp
        <5>5. GroupFilled(g)
          BY DEF Filled
        <5> QED
          BY <5>1, <5>2, <5>4, <5>5 DEF GroupFilled, Made
      <4>3. UNCHANGED groups /\ worker[w].at = "group"
        BY <2>11 DEF FindGroup
      <4>4. Fills(w)'
        BY <2>2, <3>2, <4>1, <4>2, <4>3 DEF Fills
      <4> QED
        BY <2>2, <4>3, <4>4, FilledMove, <1>u
    <3> QED
      BY <2>11, <3>1, <3>2, FieldSteps
  <2>12. CASE CreateGroup(w)
    <3>2. CASE /\ worker'[w].at = "jobs" /\ worker'[w].own = Len(groups) + 1
               /\ worker'[w].left = Disks /\ ~UNCHANGED groups
      <4> DEFINE new == NewGroup(Mine(w), "task")
      <4>1. groups' = Append(groups, new)
        BY <2>12, <3>2 DEF CreateGroup
      <4>2. /\ new \in Group /\ new.jobs = {} /\ new.enqueued = {}
            /\ new.status # "READY" /\ new.owner = Mine(w) /\ new.by = "task"
        BY <2>1 DEF NewGroup, Group, GroupStatus
      <4> HIDE DEF new
      <4>g. PICK g : g = Len(groups) + 1
        OBVIOUS
      <4>3. /\ DOMAIN groups' = DOMAIN groups \cup {g}
            /\ groups'[g] = new
            /\ \A h \in DOMAIN groups : groups'[h] = groups[h]
        BY <4>1, <4>2, <4>g, GrowsAppend
      <4>4. /\ worker'[w].at = "jobs" /\ worker'[w].own = g
            /\ Mine(w)' = Mine(w) /\ worker[w].at = "list"
        BY <2>2, <2>12, <3>2, <4>g DEF CreateGroup
      <4>5. Fills(w)'
        BY <3>2, <4>2, <4>3, <4>4 DEF Fills
      <4>6. GroupFilled(g)'
        <5>1. \E v \in Workers : worker'[v].at = "jobs" /\ worker'[v].own = g
          BY <4>4
        <5>2. Sent(g)'
          BY <4>2, <4>3 DEF Sent
        <5> QED
          BY <5>1, <5>2 DEF GroupFilled, Made
      <4>7. ASSUME NEW h \in DOMAIN groups PROVE GroupFilled(h)'
        <5>1. GroupFilled(h) /\ groups'[h] = groups[h]
          BY <4>3 DEF Filled
        <5>2. \A v \in Workers : worker[v].at = "jobs" => worker'[v] = worker[v]
          BY <2>2, <4>4
        <5> QED
          BY <1>u, <5>1, <5>2 DEF GroupFilled, Made, Sent, Lendable, GivenUpStays
      <4> QED
        BY <2>4, <4>3, <4>5, <4>6, <4>7 DEF Filled
    <3>3. UNCHANGED groups => worker'[w].at \notin {"jobs", "transfer", "enqueue"}
      <4> SUFFICES ASSUME UNCHANGED groups, worker'[w].at # "fail" PROVE FALSE
        BY <2>12, FieldSteps
      <4>1. groups' = Append(groups, NewGroup(Mine(w), "task"))
        BY <2>12, MovesAt DEF CreateGroup
      <4>2. groups \in Seq(Group) /\ NewGroup(Mine(w), "task") \in Group
        BY <2>1 DEF TypeOK, NewGroup, Group, GroupStatus
      <4>3. Len(groups') = Len(groups) + 1 /\ Len(groups) \in Nat
        BY <4>1, <4>2, AppendProperties, LenProperties
      <4> QED
        BY <4>3
    <3>4. CASE UNCHANGED groups
      BY <2>3, <2>12, <3>3, <3>4 DEF CreateGroup
    <3>5. CASE ~UNCHANGED groups
      BY <2>12, <3>2, <3>5, FieldSteps
    <3> QED
      BY <3>4, <3>5
  <2>13. ASSUME NEW d \in Disks, CreateJob(w, d)
         PROVE  Filled'
    <3>1. PICK g \in DOMAIN groups :
             /\ g = worker[w].own /\ groups[g].owner = Mine(w)
             /\ groups[g].by = "task"
             /\ Disks \subseteq groups[g].jobs \cup worker[w].left
             /\ worker[w].at = "jobs"
      BY <2>13 DEF CreateJob, Filled, Fills
    <3> DEFINE new == [groups[g] EXCEPT !.jobs = @ \cup {d}]
    <3>2. groups' = [groups EXCEPT ![g] = new]
      BY <2>13, <3>1 DEF CreateJob
    <3>3. /\ new \in Group /\ new.jobs = groups[g].jobs \cup {d}
          /\ new.status = groups[g].status /\ new.enqueued = groups[g].enqueued
          /\ new.owner = groups[g].owner /\ new.adapted = groups[g].adapted
          /\ new.by = groups[g].by /\ new.ended = groups[g].ended
      BY <1>0 DEF Group
    <3> HIDE DEF new
    <3>4. DOMAIN groups' = DOMAIN groups /\ groups'[g] = new
      BY <3>2, <3>3, GrowsUpdate
    <3>5. /\ worker'[w].own = g /\ worker'[w].left = worker[w].left \ {d}
          /\ worker'[w].at = IF worker'[w].left = {} THEN "transfer" ELSE "jobs"
      BY <2>13, <3>1, FieldSteps
    <3>6. /\ Disks \subseteq new.jobs \cup worker'[w].left
          /\ new.jobs \subseteq Disks
          /\ worker'[w].left = {} => new.jobs = Disks
      BY <3>1, <3>3, <3>5 DEF Group
    <3>7. Mine(w)' = Mine(w)
      BY <2>2, <3>5
    <3>8. Fills(w)'
      BY <3>1, <3>3, <3>4, <3>5, <3>6, <3>7 DEF Fills
    <3>9. GroupFilled(g)'
      <4>1. Sent(g) /\ ~Lendable(g) /\ ~Lendable(g)'
        BY <3>1, <3>3, <3>4 DEF Filled, GroupFilled, Lendable
      <4>2. new.enqueued # {} => new.jobs = Disks
        BY <3>3, <3>6, <4>1 DEF Sent
      <4>3. new.status = "READY" => new.ended = Disks
        BY <3>3, <4>1 DEF Sent
      <4>4. new.jobs = Disks \/ (worker'[w].at = "jobs" /\ worker'[w].own = g)
        BY <3>5, <3>6
      <4>5. Sent(g)'
        BY <3>1, <3>3, <3>4, <4>2, <4>3 DEF Sent
      <4> QED
        BY <3>4, <4>4, <4>5 DEF GroupFilled, Made
    <3> QED
      BY <1>u, <2>2, <3>1, <3>2, <3>3, <3>8, <3>9, FilledUpdate
  <2>14. CASE Enqueue(w)
    <3>0. /\ worker[w].at = "enqueue" /\ worker'[w].own = worker[w].own
          /\ worker'[w].at \in {"enqueue", "wait", "fail"}
      BY <2>14, FieldSteps DEF Enqueue
    <3>1. PICK g \in DOMAIN groups :
             /\ g = worker[w].own /\ groups[g].owner = Mine(w)
             /\ groups[g].by = "task" => groups[g].jobs = Disks
      BY <3>0 DEF Filled, Fills
    <3>m. Mine(w)' = Mine(w)
      BY <2>2, <3>0
    <3>2. CASE UNCHANGED groups
      <4>1. Fills(w)'
        BY <3>0, <3>1, <3>2, <3>m DEF Fills
      <4> QED
        BY <1>u, <2>2, <3>0, <3>2, <4>1, FilledMove
    <3>3. ASSUME NEW d \in Disks,
                 groups' = [groups EXCEPT ![g] = [groups[g] EXCEPT !.enqueued = @ \cup {d}]]
          PROVE  Filled'
      <4> DEFINE new == [groups[g] EXCEPT !.enqueued = @ \cup {d}]
      <4>1. /\ new \in Group /\ new.jobs = groups[g].jobs
            /\ new.status = groups[g].status /\ new.ended = groups[g].ended
            /\ new.owner = groups[g].owner /\ new.adapted = groups[g].adapted
            /\ new.by = groups[g].by
        BY <1>0 DEF Group
      <4>2. groups' = [groups EXCEPT ![g] = new]
        BY <3>3
      <4> HIDE DEF new
      <4>3. DOMAIN groups' = DOMAIN groups /\ groups'[g] = new
        BY <4>1, <4>2, GrowsUpdate
      <4>4. Fills(w)'
        BY <3>0, <3>1, <3>m, <4>1, <4>3 DEF Fills
      <4>5. GroupFilled(g)'
        <5>1. Sent(g) /\ Lendable(g)' = Lendable(g)
          BY <4>1, <4>3 DEF Filled, GroupFilled, Lendable
        <5>2. ~Lendable(g) => new.jobs = Disks
          BY <2>1, <3>1, <4>1, ConstantsAssumption DEF Lendable
        <5>3. Sent(g)'
          BY <4>1, <4>3, <5>1, <5>2 DEF Sent
        <5>4. Made(g)'
          BY <3>1, <4>1, <4>3 DEF Made
        <5> QED
          BY <5>3, <5>4 DEF GroupFilled
      <4> QED
        BY <1>u, <2>2, <3>0, <4>1, <4>2, <4>4, <4>5, FilledUpdate
    <3> QED
      <4>1. ~CreateGroup(w) /\ ~Adapt(w) /\ \A d \in Disks : ~CreateJob(w, d)
        BY <3>0 DEF CreateGroup, Adapt, CreateJob
      <4> QED
        BY <1>8, <3>1, <3>2, <3>3, <4>1, GroupSteps
  <2>15. CASE Adapt(w)
    <3>1. worker[w].at = "adapt" /\ worker'[w].at \in {"configure", "fail"}
      BY <2>15, MovesAt DEF Adapt
    <3>2. CASE UNCHANGED groups
      BY <2>3, <3>1, <3>2
    <3>3. ASSUME NEW g \in ReadyGroups,
                 groups' = [groups EXCEPT ![g] = [groups[g] EXCEPT !.adapted = TRUE]]
          PROVE  Filled'
      <4>0. g \in DOMAIN groups
        BY DEF ReadyGroups
      <4> DEFINE new == [groups[g] EXCEPT !.adapted = TRUE]
      <4>1. /\ new \in Group /\ new.jobs = groups[g].jobs
            /\ new.status = groups[g].status /\ new.ended = groups[g].ended
            /\ new.owner = groups[g].owner /\ new.adapted
            /\ new.by = groups[g].by /\ new.enqueued = groups[g].enqueued
        BY <1>0, <4>0 DEF Group
      <4>2. groups' = [groups EXCEPT ![g] = new]
        BY <3>3
      <4> HIDE DEF new
      <4>3. DOMAIN groups' = DOMAIN groups /\ groups'[g] = new
        BY <4>0, <4>1, <4>2, GrowsUpdate
      <4>4. Fills(w)'
        BY <3>1 DEF Fills
      <4>5. GroupFilled(g)'
        <5>1. Sent(g) /\ Made(g)
          BY <4>0 DEF Filled, GroupFilled
        <5>2. Sent(g)'
          BY <4>1, <4>3, <5>1, SentStays DEF SentKept
        <5>3. \A v \in Workers : worker[v].at = "jobs" => worker'[v] = worker[v]
          BY <2>2, <3>1
        <5>4. Made(g)'
          BY <1>u, <4>0, <4>1, <4>3, <5>1, <5>3 DEF Made, GivenUpStays
        <5> QED
          BY <5>2, <5>4 DEF GroupFilled
      <4> QED
        BY <1>u, <2>2, <3>1, <4>0, <4>1, <4>2, <4>4, <4>5, FilledUpdate
    <3>4. ~CreateGroup(w) /\ ~Enqueue(w) /\ \A d \in Disks : ~CreateJob(w, d)
      BY <3>1 DEF CreateGroup, Enqueue, CreateJob
    <3> QED
      BY <1>8, <3>2, <3>3, <3>4, GroupSteps
  <2> QED
    BY <1>8, <2>5, <2>6, <2>7, <2>8, <2>9, <2>10, <2>11, <2>12, <2>13, <2>14, <2>15
       DEF OrchestratorStep
<1>9. ASSUME NEW w \in Workers, SoftTimeLimit(w)
      PROVE  Filled'
  <2>1. /\ UNCHANGED <<target, groups>> /\ Moved(w) /\ worker[w].at # "idle"
        /\ Mine(w) \in Migrations /\ worker'[w].at = "fail"
    BY <1>6, <1>9, OrchestratorFrame, BusyMine, MovesAt DEF SoftTimeLimit
  <2>2. /\ \A v \in Workers : v # w => worker'[v] = worker[v]
        /\ \A v \in Workers : Mine(v)' = Mine(v)
    BY <2>1 DEF Moved, Mine
  <2>3. \A v \in Workers : Fills(v)
    BY DEF Filled
  <2>4. Fills(w)'
    BY <2>1 DEF Fills
  <2>5. CASE worker[w].at # "jobs"
    BY <1>u, <2>1, <2>2, <2>4, <2>5, FilledMove
  <2>6. CASE worker[w].at = "jobs"
    <3>1. groups[worker[w].own].owner = Mine(w)
      BY <2>3, <2>6 DEF Fills
    <3>2. ASSUME NEW v \in Workers PROVE Fills(v)'
      BY <1>0, <2>2, <2>3, <2>4, FillsKept
    <3>3. ASSUME NEW g \in DOMAIN groups, worker[w].own = g PROVE GivenUp(g)'
      BY <2>1, <2>2, <3>1, <3>3 DEF GivenUp
    <3>4. ASSUME NEW g \in DOMAIN groups PROVE GroupFilled(g)'
      <4>1. Made(g) /\ Sent(g)
        BY DEF Filled, GroupFilled
      <4>2. Made(g)'
        BY <1>u, <2>1, <2>2, <3>3, <4>1 DEF Made, GivenUpStays
      <4>3. Sent(g)'
        BY <2>1, <4>1 DEF Sent, Lendable
      <4> QED
        BY <4>2, <4>3 DEF GroupFilled
    <3> QED
      BY <2>1, <3>2, <3>4 DEF Filled
  <2> QED
    BY <2>5, <2>6
<1> QED
  BY <1>2, <1>3, <1>4, <1>5, <1>6, <1>7, <1>8, <1>9 DEF Next, WorkerNext

-----------------------------------------------------------------------------
(* THE CLUSTER when nothing dies: without a cancel nothing is removed.      *)
ClusterGrows ==
    /\ cluster.pvcs \subseteq cluster'.pvcs
    /\ cluster.vm # None => cluster'.vm = cluster.vm

Last == {"verifying", "running", "stamp", "complete"}

(* A worker past the volumes has them all, one past the creation its VM.    *)
Copies(w) ==
    /\ worker[w].at = "populate" =>
          {Mine(w)} \X (Disks \ worker[w].left) \subseteq cluster.pvcs
    /\ worker[w].at \in {"starting", "create"} \cup Last =>
          {Mine(w)} \X Disks \subseteq cluster.pvcs
    /\ worker[w].at \in Last => cluster.vm = Mine(w)

(* What CompletedHasWholeVm supposes: nothing undoes it once it is lost.    *)
Unlent ==
    /\ spent["overlap"] = 0
    /\ ~ \E g \in DOMAIN groups : Lendable(g)

Copied == Unlent => \A w \in Workers : Copies(w)

LEMMA UnlentBefore ==
    ASSUME TypeOK, TypeOK', Grows, [Next]_vars, Unlent'
    PROVE  Unlent
<1>1. "overlap" \in Bounded /\ spent \in [Bounded -> Nat]
  BY DEF TypeOK, Bounded
<1>2. spent["overlap"] = 0
  BY <1>1, SpentGrows DEF SpentStays, Unlent
<1>3. ASSUME NEW g \in DOMAIN groups, Lendable(g) PROVE FALSE
  BY <1>3 DEF Grows, Lendable, Unlent
<1> QED
  BY <1>2, <1>3 DEF Unlent

LEMMA OrchestratorGrows ==
    ASSUME TypeOK, NEW w \in Workers, OrchestratorStep(w)
    PROVE  ClusterGrows
<1> USE DEF data, broker
<1>0. cluster \in Cluster
  BY DEF TypeOK
<1>u. ASSUME UNCHANGED cluster PROVE ClusterGrows
  BY <1>u DEF ClusterGrows
<1>1. ASSUME NEW d \in Disks, Populate(w, d) PROVE ClusterGrows
  <2>1. \/ UNCHANGED cluster
        \/ cluster' = [cluster EXCEPT !.pvcs = @ \cup {<<Mine(w), d>>}]
    BY <1>1 DEF Populate
  <2>2. CASE cluster' = [cluster EXCEPT !.pvcs = @ \cup {<<Mine(w), d>>}]
    BY <1>0, <2>2 DEF Cluster, ClusterGrows
  <2> QED
    BY <1>u, <2>1, <2>2
<1>2. CASE CreateVm(w)
  <2>1. CASE cluster.vm = None /\ cluster' = [cluster EXCEPT !.vm = Mine(w)]
    BY <1>0, <2>1 DEF Cluster, ClusterGrows
  <2> QED
    BY <1>2, <1>u, <2>1 DEF CreateVm
<1>3. CASE Adapt(w)
  <2>1. CASE cluster' = [cluster EXCEPT !.fixed = @ \cup {Mine(w)}]
    BY <1>0, <2>1 DEF Cluster, ClusterGrows
  <2> QED
    BY <1>3, <1>u, <2>1 DEF Adapt
<1>4. CASE \/ Validate(w) \/ CheckEligible(w) \/ Prepare(w) \/ FindGroup(w)
           \/ CreateGroup(w) \/ \E d \in Disks : CreateJob(w, d)
           \/ Transfer(w) \/ Enqueue(w) \/ WaitConversions(w)
           \/ Configure(w) \/ LoadContext(w) \/ SetStarting(w)
           \/ SetVerifying(w) \/ VerifyRunning(w) \/ StampVm(w) \/ Complete(w)
           \/ CleanupTransit(w) \/ FailGuard(w) \/ FailCommit(w)
  BY <1>4, <1>u DEF Validate, Prepare, Transfer, Configure, SetVerifying, Complete,
     Advance, CheckEligible, FindGroup, CreateGroup, CreateJob, Enqueue,
     WaitConversions, LoadContext, SetStarting, VerifyRunning, StampVm,
     CleanupTransit, FailGuard, FailCommit
<1> QED
  BY <1>1, <1>2, <1>3, <1>4 DEF OrchestratorStep

(* What the step of a worker does to what is said of that worker.           *)
LEMMA OrchestratorCopies ==
    ASSUME TypeOK, TypeOK', Filled, Unlent, Unlent', ClusterGrows, NEW w \in Workers,
           Copies(w), OrchestratorStep(w), worker'[w].at # "idle" => Mine(w)' = Mine(w)
    PROVE  Copies(w)'
<1> USE DEF data, broker
<1>0. cluster \in Cluster /\ Copies(w)
  BY DEF TypeOK
<1>1. ASSUME worker'[w].at \notin {"populate", "starting", "create"} \cup Last
      PROVE  Copies(w)'
  BY <1>1 DEF Copies
<1>2. CASE \/ Validate(w) \/ CheckEligible(w) \/ Prepare(w) \/ FindGroup(w)
           \/ CreateGroup(w) \/ \E d \in Disks : CreateJob(w, d)
           \/ Transfer(w) \/ Enqueue(w) \/ WaitConversions(w) \/ Adapt(w)
  <2>1. CASE Validate(w) \/ Prepare(w) \/ Transfer(w)
    BY <1>1, <2>1, MovesAt DEF Validate, Prepare, Transfer, Advance, Last
  <2>2. CASE CheckEligible(w) \/ WaitConversions(w)
    BY <1>1, <2>2, MovesAt DEF CheckEligible, WaitConversions, Last
  <2>a. CASE Adapt(w)
    <3>1. Reload(w, "configure") \/ Raise(w)
      BY <2>a DEF Adapt
    <3> QED
      BY <1>1, <3>1, MovesAt DEF Last
  <2>e. CASE Enqueue(w)
    BY <1>1, <2>e, FieldSteps DEF Last
  <2>3. CASE FindGroup(w) \/ CreateGroup(w) \/ \E d \in Disks : CreateJob(w, d)
    BY <1>1, <2>3, FieldSteps DEF Last
  <2> QED
    BY <1>2, <2>1, <2>2, <2>a, <2>e, <2>3
<1>3. CASE Configure(w) \/ Complete(w) \/ CleanupTransit(w) \/ FailGuard(w)
           \/ FailCommit(w)
  BY <1>1, <1>3, MovesAt DEF Configure, Complete, Advance, CleanupTransit, FailGuard,
     FailCommit, Last
<1>4. CASE LoadContext(w)
  <2>1. CASE worker'[w].at = "fail"
    BY <1>1, <2>1 DEF Last
  <2>2. CASE /\ worker'[w].at = "populate"
             /\ worker'[w].ctx \in ReadyGroups
             /\ Completed(worker'[w].ctx, worker'[w].left)
    <3>1. PICK g \in ReadyGroups : worker'[w].ctx = g
      BY <2>2
    <3>2. groups[g].ended = Disks
      BY <3>1 DEF ReadyGroups, Filled, GroupFilled, Sent, Unlent
    <3>o. "overlap" \in Bounded
      BY DEF Bounded
    <3>4. ~Spend("overlap", MaxOverlap)
      BY <3>o, SpendGrows DEF Unlent
    <3>3. Disks \ worker'[w].left = {}
      BY <2>2, <3>1, <3>2, <3>4 DEF Completed
    <3> QED
      BY <2>2, <3>3 DEF Copies, Last
  <2> QED
    BY <1>4, <2>1, <2>2, FieldSteps
<1>5. ASSUME NEW d \in Disks, Populate(w, d)
      PROVE  Copies(w)'
  <2>1. CASE worker'[w].at = "fail"
    BY <1>1, <2>1 DEF Last
  <2>2. CASE worker'[w].at # "fail"
    <3>1. /\ worker'[w].left = worker[w].left \ {d}
          /\ worker'[w].at = IF worker'[w].left = {} THEN "starting" ELSE "populate"
          /\ cluster' = [cluster EXCEPT !.pvcs = @ \cup {<<Mine(w), d>>}]
          /\ worker[w].at = "populate"
      BY <1>5, <2>2, FieldSteps DEF Populate
    <3>2. /\ cluster'.pvcs = cluster.pvcs \cup {<<Mine(w), d>>}
          /\ Mine(w)' = Mine(w)
      BY <1>0, <3>1 DEF Cluster
    <3>3. {Mine(w)} \X (Disks \ worker[w].left) \subseteq cluster.pvcs
      BY <1>0, <3>1 DEF Copies
    <3>4. {Mine(w)} \X (Disks \ worker'[w].left) \subseteq cluster'.pvcs
      BY <3>1, <3>2, <3>3
    <3>5. worker'[w].left = {} => Disks \ worker'[w].left = Disks
      OBVIOUS
    <3> QED
      BY <3>1, <3>2, <3>4, <3>5 DEF Copies, Last
  <2> QED
    BY <2>1, <2>2
<1>6. CASE CreateVm(w)
  <2>1. CASE worker'[w].at = "fail"
    BY <1>1, <2>1 DEF Last
  <2>2. CASE worker'[w].at # "fail"
    <3>1. /\ worker[w].at = "create" /\ worker'[w].at = "verifying"
          /\ cluster' = [cluster EXCEPT !.vm = Mine(w)]
      BY <1>6, <2>2, MovesAt DEF CreateVm
    <3>2. cluster'.vm = Mine(w) /\ Mine(w)' = Mine(w)
      BY <1>0, <3>1 DEF Cluster
    <3>3. {Mine(w)} \X Disks \subseteq cluster'.pvcs
      BY <1>0, <3>1 DEF Copies, ClusterGrows
    <3> QED
      BY <3>1, <3>2, <3>3 DEF Copies, Last
  <2> QED
    BY <2>1, <2>2
<1>7. CASE SetStarting(w) \/ SetVerifying(w) \/ VerifyRunning(w) \/ StampVm(w)
  <2>1. /\ UNCHANGED cluster
        /\ \/ worker'[w].at = "fail"
           \/ worker[w].at = "starting" /\ worker'[w].at = "create"
           \/ worker[w].at \in Last /\ worker'[w].at \in Last
    BY <1>7, MovesAt DEF SetStarting, SetVerifying, Advance, VerifyRunning, StampVm,
       Last
  <2>2. CASE worker'[w].at = "fail"
    BY <1>1, <2>2 DEF Last
  <2>3. CASE worker'[w].at # "fail"
    <3>1. /\ Mine(w)' = Mine(w) /\ {Mine(w)} \X Disks \subseteq cluster'.pvcs
          /\ worker'[w].at # "populate"
          /\ worker'[w].at \in Last => cluster'.vm = Mine(w)
      BY <1>0, <2>1, <2>3 DEF Copies, Last
    <3> QED
      BY <3>1 DEF Copies
  <2> QED
    BY <2>2, <2>3
<1> QED
  BY <1>2, <1>3, <1>4, <1>5, <1>6, <1>7 DEF OrchestratorStep

LEMMA CopiedStep ==
    ASSUME TypeOK, TypeOK', Traceable, Traceable', Ordered, Alive, Filled, Copied,
           CompletedHasWholeVm, [Next]_vars
    PROVE  Copied' /\ CompletedHasWholeVm'
<1> USE DEF data, broker
<1> SUFFICES ASSUME Unlent'
             PROVE  Copied' /\ CompletedHasWholeVm'
  BY DEF Copied, CompletedHasWholeVm, WholeVms, Unlent
<1>g. Grows
  BY GrowsStep
<1>l. Unlent /\ \A v \in Workers : Copies(v)
  BY <1>g, UnlentBefore DEF Copied
<1>0. worker \in [Workers -> Orchestrator] /\ None \notin Migrations
  BY ConstantsAssumption DEF TypeOK
<1>1. ASSUME ClusterGrows, NEW v \in Workers, worker'[v] = worker[v],
             worker[v].at # "idle" => Mine(v)' = Mine(v)
      PROVE  Copies(v)'
  <2>1. Copies(v)
    BY <1>l
  <2>2. worker[v].at # "idle" => Mine(v) # None
    BY <1>0, BusyMine
  <2> QED
    BY <1>1, <2>1, <2>2 DEF Copies, ClusterGrows, Last
<1>2. ASSUME UNCHANGED cluster,
             \A v \in Workers :
                worker'[v] = worker[v] \/ worker'[v].at \in {"idle", "validate", "fail"},
             \A v \in Workers :
                worker[v].at # "idle" => Mine(v)' = Mine(v) \/ worker'[v] # worker[v]
      PROVE  ClusterGrows /\ Copied'
  <2>1. ClusterGrows
    BY <1>2 DEF ClusterGrows
  <2>2. ASSUME NEW v \in Workers PROVE Copies(v)'
    <3>1. CASE worker'[v] = worker[v]
      BY <1>1, <1>2, <2>1, <3>1
    <3>2. CASE worker'[v].at \in {"idle", "validate", "fail"}
      BY <3>2 DEF Copies, Last
    <3> QED
      BY <1>2, <3>1, <3>2
  <2> QED
    BY <2>1, <2>2 DEF Copied
<1>3. ASSUME NEW w \in Workers
      PROVE  ~Crash(w) /\ ~Redeliver(w) /\ ~Terminate(w)
  BY NobodyDies
<1>4. ASSUME UNCHANGED vars PROVE ClusterGrows /\ Copied'
  BY <1>2, <1>4 DEF vars, Mine
<1>5. ASSUME ConvertNext \/ \E g \in DOMAIN groups : ConversionStep(g)
      PROVE  ClusterGrows /\ Copied'
  BY <1>2, <1>5, ConversionFrame DEF Mine
<1>6. ASSUME NEW c \in Clients, ClientNext(c)
      PROVE  ClusterGrows /\ Copied'
  <2>1. ~CancelCleanup(c)
    BY DEF CancelCleanup, Ordered, Uncancelled
  <2>2. UNCHANGED <<cluster, worker>>
    BY <1>6, <2>1 DEF ClientNext, CreateBegin, StartBegin, CancelBegin, CreateLock, CreateInsert,
       StartPublish, StartValidate, StartBrokerDown, StartStampId, CancelRevoke,
       CancelCommit, HandlerDies
  <2> QED
    BY <1>2, <1>6, <2>2, MineKept
<1>7. ASSUME NEW w \in Workers, NEW t \in Tasks, Receive(w, t)
      PROVE  ClusterGrows /\ Copied'
  <2>1. /\ \A v \in Workers : worker'[v] = worker[v] \/ worker'[v].at = "validate"
        /\ UNCHANGED <<cluster, target>>
    BY <1>0, <1>7 DEF Receive, IdleWorker
  <2> QED
    BY <1>2, <2>1 DEF Mine
<1>8. ASSUME NEW w \in Workers, OrchestratorStep(w)
      PROVE  ClusterGrows /\ Copied'
  <2>1. /\ UNCHANGED target /\ Moved(w)
    BY <1>8, OrchestratorFrame
  <2>2. /\ \A v \in Workers : v # w => worker'[v] = worker[v] /\ Mine(v)' = Mine(v)
        /\ worker'[w].at # "idle" => Mine(w)' = Mine(w)
    BY <2>1 DEF Moved, Mine
  <2>3. ClusterGrows
    BY <1>8, OrchestratorGrows
  <2>4. \A v \in Workers : v # w => Copies(v)'
    BY <1>1, <2>2, <2>3
  <2>5. Copies(w)'
    BY <1>8, <1>l, <2>2, <2>3, OrchestratorCopies
  <2> QED
    BY <2>3, <2>4, <2>5 DEF Copied
<1>u. ASSUME NEW w \in Workers, SoftTimeLimit(w)
      PROVE  ClusterGrows /\ Copied'
  <2>1. UNCHANGED <<target, cluster>> /\ Moved(w) /\ worker'[w].at = "fail"
    BY <1>u, OrchestratorFrame, MovesAt DEF SoftTimeLimit
  <2> QED
    BY <1>2, <2>1 DEF Moved, Mine
<1>9. ClusterGrows /\ Copied'
  BY <1>3, <1>4, <1>5, <1>6, <1>7, <1>8, <1>u DEF Next, WorkerNext
<1>10. ASSUME NEW m \in Migrations, row'[m].status = "COMPLETED"
       PROVE  cluster'.vm = m /\ {m} \X Disks \subseteq cluster'.pvcs
  <2>1. CASE row[m].status = "COMPLETED"
    BY <1>0, <1>9, <1>l, <2>1 DEF CompletedHasWholeVm, WholeVms, ClusterGrows, Unlent
  <2>2. CASE row[m].status # "COMPLETED"
    <3>1. PICK w \in Workers : worker[w].at = "complete" /\ Mine(w) = m
      BY <1>10, <2>2, RowStepLemma DEF RowStep
    <3>2. cluster.vm = m /\ {m} \X Disks \subseteq cluster.pvcs
      BY <1>l, <3>1 DEF Copies, Last
    <3> QED
      BY <1>0, <1>9, <3>2 DEF ClusterGrows
  <2> QED
    BY <2>1, <2>2
<1> QED
  BY <1>9, <1>10 DEF CompletedHasWholeVm, WholeVms

(* When no start overtakes another, no message is delivered twice, nobody   *)
(* cancels and no worker dies, a completed migration has its virtual        *)
(* machine, created by this migration, and a volume for every disk the      *)
(* source has, whatever call fails, whenever a time limit expires and       *)
(* however requests for conversions interleave with it, unless one of these *)
(* tied its group to a migration or a job was taken up again: a group is    *)
(* READY only once all its jobs are enqueued, and nobody enqueues a group   *)
(* that has not a job for every disk.  A worker that runs out of time       *)
(* between two jobs leaves a group that nobody will enqueue, as its         *)
(* migration fails; one that dies there breaks it, since the next delivery  *)
(* takes the group as it is.                                                *)
THEOREM CompletedIsWhole ==
    ASSUME Alive
    PROVE  Spec => []CompletedHasWholeVm
<1> DEFINE Whole == Filled /\ Copied /\ CompletedHasWholeVm
<1>1. Init => Whole
  <2> SUFFICES ASSUME Init PROVE Whole
    OBVIOUS
  <2>1. groups = <<>> /\ \A w \in Workers : worker[w].at = "idle"
    BY DEF Init, IdleWorker
  <2>2. Filled
    BY <2>1 DEF Filled, Fills
  <2>3. Copied
    BY <2>1 DEF Copied, Copies, Last
  <2>4. CompletedHasWholeVm
    BY NoneAssumption DEF Init, CompletedHasWholeVm, WholeVms, Status, Terminal
  <2> QED
    BY <2>2, <2>3, <2>4
<1>2. (TypeOK /\ Traceable /\ Ordered) /\ (TypeOK /\ Traceable /\ Ordered)'
         /\ Whole /\ [Next]_vars => Whole'
  BY FilledStep, CopiedStep
<1>3. Whole => CompletedHasWholeVm
  OBVIOUS
<1> HIDE DEF Whole
<1> QED
  BY <1>1, <1>2, <1>3, OrderedInvariant, PTL DEF Spec, Alive

-----------------------------------------------------------------------------
(* THE DISKS OF THE SYSTEM: one migration, no manual conversion.            *)
Solitary ==
    /\ MaxOvertaken = 0 /\ MaxRedeliver = 0 /\ MaxConvert = 0 /\ MaxOverlap = 0
    /\ \A m, n \in Migrations : m = n

Past == {"configure", "context", "populate", "starting", "create", "verifying",
         "running", "stamp", "complete"}

(* There is one group, its boot disk gets the first job, and the group has  *)
(* that disk when it is READY.                                              *)
GroupRight(g) ==
    /\ g = 1 /\ groups[g].owner \in Migrations /\ groups[g].by = "task"
    /\ groups[g].jobs # {} => BootDisk \in groups[g].jobs
    /\ groups[g].enqueued # {} => groups[g].jobs # {}
    /\ groups[g].status = "READY" => BootDisk \in groups[g].ended

AllAdapted == DOMAIN groups # {} /\ \A g \in DOMAIN groups : groups[g].adapted

Sits(w) ==
    /\ worker[w].at \in {"validate", "eligible", "prepare", "group"} =>
          worker[w].left = {}
    /\ worker[w].at = "list" => DOMAIN groups = {}
    /\ worker[w].at = "jobs" =>
          /\ worker[w].own \in DOMAIN groups
          /\ Disks \subseteq groups[worker[w].own].jobs \cup worker[w].left
    /\ worker[w].at \in {"transfer", "enqueue"} =>
          /\ worker[w].own \in DOMAIN groups
          /\ worker[w].left \subseteq groups[worker[w].own].jobs
    /\ worker[w].at \in Past => AllAdapted
    /\ worker[w].at \in Past \ {"configure", "context"} =>
          worker[w].ctx \in DOMAIN groups

(* The group is adapted once the Adapter has fixed a disk.                  *)
OneGroup ==
    /\ \A g \in DOMAIN groups : GroupRight(g)
    /\ cluster.fixed # {} => AllAdapted
    /\ \A w \in Workers : Sits(w)

LEMMA SitsKept ==
    ASSUME Grows, DOMAIN groups' = DOMAIN groups, NEW v \in Workers, Sits(v),
           worker'[v] = worker[v]
    PROVE  Sits(v)'
<1>1. AllAdapted => AllAdapted'
  BY DEF AllAdapted, Grows
<1>2. CASE worker[v].at = "jobs"
  <2>1. PICK g \in DOMAIN groups :
           g = worker[v].own /\ Disks \subseteq groups[g].jobs \cup worker[v].left
    BY <1>2 DEF Sits
  <2>2. Disks \subseteq groups'[g].jobs \cup worker[v].left
    BY <2>1 DEF Grows
  <2> QED
    BY <1>2, <2>1, <2>2 DEF Sits, Past
<1>3. CASE worker[v].at \in {"transfer", "enqueue"}
  <2>1. PICK g \in DOMAIN groups :
           g = worker[v].own /\ worker[v].left \subseteq groups[g].jobs
    BY <1>3 DEF Sits
  <2>2. worker[v].left \subseteq groups'[g].jobs
    BY <2>1 DEF Grows
  <2> QED
    BY <1>3, <2>1, <2>2 DEF Sits, Past
<1>4. CASE worker[v].at \notin {"jobs", "transfer", "enqueue"}
  BY <1>1, <1>4 DEF Sits
<1> QED
  BY <1>2, <1>3, <1>4

(* A step that leaves the groups alone.                                     *)
LEMMA GroupStays ==
    ASSUME OneGroup, UNCHANGED groups, cluster'.fixed = cluster.fixed,
           \A v \in Workers : worker'[v] = worker[v] \/ Sits(v)'
    PROVE  OneGroup'
<1>1. Grows
  BY DEF Grows
<1>2. ASSUME NEW v \in Workers PROVE Sits(v)'
  BY <1>1, SitsKept DEF OneGroup
<1>3. ASSUME NEW g \in DOMAIN groups PROVE GroupRight(g)'
  BY DEF OneGroup, GroupRight
<1>4. AllAdapted => AllAdapted'
  BY DEF AllAdapted
<1> QED
  BY <1>2, <1>3, <1>4 DEF OneGroup

(* A step that updates one group.                                           *)
LEMMA GroupUpdated ==
    ASSUME TypeOK, OneGroup, Grows, DOMAIN groups' = DOMAIN groups,
           NEW g \in DOMAIN groups, GroupRight(g)', cluster'.fixed = cluster.fixed,
           \A h \in DOMAIN groups : h # g => groups'[h] = groups[h],
           \A v \in Workers : worker'[v] = worker[v] \/ Sits(v)'
    PROVE  OneGroup'
<1>1. ASSUME NEW v \in Workers PROVE Sits(v)'
  BY SitsKept DEF OneGroup
<1>2. ASSUME NEW h \in DOMAIN groups PROVE GroupRight(h)'
  <2>1. GroupRight(h)
    BY DEF OneGroup
  <2>2. CASE h = g
    BY <2>2
  <2>3. CASE h # g
    BY <2>1, <2>3 DEF GroupRight
  <2> QED
    BY <2>2, <2>3
<1>3. AllAdapted => AllAdapted'
  BY DEF AllAdapted, Grows
<1> QED
  BY <1>1, <1>2, <1>3 DEF OneGroup

(* The steps of a worker that change no group.                              *)
LEMMA OrchestratorSits ==
    ASSUME TypeOK, TypeOK', Traceable, Solitary, OneGroup, NEW w \in Workers,
           OrchestratorStep(w), UNCHANGED <<groups, cluster>>
    PROVE  Sits(w)'
<1> USE DEF data, broker
<1>0. Sits(w) /\ worker \in [Workers -> Orchestrator]
  BY DEF OneGroup, TypeOK
<1> DEFINE Early == {"validate", "eligible", "prepare", "group"}
           Sending == {"transfer", "enqueue"}
<1>1. ASSUME worker'[w].at \notin {"list", "jobs"} \cup Early \cup Sending \cup Past
      PROVE  Sits(w)'
  BY <1>1 DEF Sits
<1>a. AllAdapted => AllAdapted'
  BY DEF AllAdapted
<1>2. CASE Validate(w) \/ Prepare(w) \/ CheckEligible(w)
  <2>1. /\ worker[w].at \in Early /\ worker'[w].at \in Early \cup {"fail"}
        /\ worker'[w].left = worker[w].left
    BY <1>2, MovesAt, MovesKeep DEF Validate, Prepare, CheckEligible, Advance, Kept
  <2> QED
    BY <1>0, <1>1, <2>1 DEF Sits, Past
<1>t. CASE Transfer(w)
  <2>1. /\ worker[w].at = "transfer" /\ worker'[w].at = "enqueue"
        /\ worker'[w].left = worker[w].left /\ worker'[w].own = worker[w].own
    BY <1>t, MovesAt, MovesKeep DEF Transfer, Advance, Kept
  <2> QED
    BY <1>0, <2>1 DEF Sits, Past
<1>e. CASE Enqueue(w)
  <2>1. /\ worker[w].at = "enqueue" /\ worker'[w].own = worker[w].own
        /\ worker'[w].at \in {"enqueue", "wait", "fail"}
        /\ worker'[w].at = "enqueue" =>
              worker'[w].left \subseteq IF worker[w].left = {}
                 THEN groups[worker[w].own].jobs ELSE worker[w].left
    BY <1>e, FieldSteps DEF Enqueue
  <2> QED
    BY <1>0, <2>1 DEF Sits, Past
<1>3. CASE WaitConversions(w) \/ Complete(w)
  BY <1>1, <1>3, MovesAt DEF WaitConversions, Complete, Advance, Past
<1>4. CASE CleanupTransit(w) \/ FailGuard(w) \/ FailCommit(w)
  BY <1>1, <1>4, MovesAt DEF CleanupTransit, FailGuard, FailCommit, Past
<1>5. ASSUME worker[w].at \in Past, Kept(w), worker'[w].at \in Past \cup {"fail"},
             worker[w].at \in {"configure", "context"}
                => worker'[w].at \in {"configure", "context", "fail"}
      PROVE  Sits(w)'
  BY <1>0, <1>5, <1>a DEF Sits, Past, Kept
<1>6. CASE Configure(w) \/ SetVerifying(w)
  BY <1>5, <1>6, MovesAt, MovesKeep DEF Configure, SetVerifying, Advance, Past
<1>7. CASE SetStarting(w) \/ CreateVm(w)
  BY <1>5, <1>7, MovesAt, MovesKeep DEF SetStarting, CreateVm, Past
<1>8. CASE VerifyRunning(w) \/ StampVm(w)
  BY <1>5, <1>8, MovesAt, MovesKeep DEF VerifyRunning, StampVm, Past
<1>9. ASSUME NEW d \in Disks, Populate(w, d)
      PROVE  Sits(w)'
  <2>1. CASE worker'[w].at = "fail"
    BY <1>1, <2>1 DEF Past
  <2>2. CASE worker'[w].at # "fail"
    <3>1. /\ worker'[w].ctx = worker[w].ctx /\ worker[w].at = "populate"
          /\ worker'[w].at \in {"starting", "populate"}
      BY <1>9, <2>2, FieldSteps DEF Populate
    <3> QED
      BY <1>0, <1>a, <3>1 DEF Sits, Past
  <2> QED
    BY <2>1, <2>2
<1>10. CASE LoadContext(w)
  <2>1. CASE worker'[w].at = "fail"
    BY <1>1, <2>1 DEF Past
  <2>2. CASE worker'[w].at # "fail"
    <3>1. /\ worker'[w].at = "populate" /\ worker'[w].ctx \in DOMAIN groups
          /\ worker[w].at = "context"
      BY <1>10, <2>2, FieldSteps DEF LoadContext, ReadyGroups
    <3> QED
      BY <1>0, <1>a, <3>1 DEF Sits, Past
  <2> QED
    BY <2>1, <2>2
<1>11. CASE FindGroup(w)
  <2>1. CASE worker'[w].at = "list"
    <3>1. GroupsOf(Mine(w)) = {}
      BY <1>11, <2>1, MovesAt, <1>0 DEF FindGroup, Orchestrator
    <3>2. Mine(w) \in Migrations
      BY <1>11, BusyMine DEF FindGroup
    <3>3. DOMAIN groups = {}
      BY <3>1, <3>2 DEF GroupsOf, OneGroup, GroupRight, Solitary
    <3> QED
      BY <2>1, <3>3 DEF Sits, Past
  <2>2. CASE worker'[w].at = "transfer" /\ worker'[w].own \in GroupsOf(Mine(w))
    <3>1. worker[w].at = "group" /\ worker'[w].left = worker[w].left
      <4>1. PICK g : \/ worker' = [worker EXCEPT ![w].at = "transfer", ![w].own = g]
                     \/ worker' = [worker EXCEPT ![w].at = "list"]
        BY <1>11 DEF FindGroup, Goto
      <4> QED
        BY <1>0, <1>11, <4>1 DEF FindGroup, Orchestrator
    <3> QED
      BY <1>0, <2>2, <3>1 DEF Sits, Past, GroupsOf
  <2> QED
    BY <1>11, <2>1, <2>2, FieldSteps
<1>12. CASE CreateGroup(w)
  <2>1. worker'[w].at = "fail"
    <3> SUFFICES ASSUME worker'[w].at # "fail" PROVE FALSE
      OBVIOUS
    <3>1. groups' = Append(groups, NewGroup(Mine(w), "task"))
      BY <1>12, MovesAt DEF CreateGroup
    <3>2. Mine(w) \in Migrations
      BY <1>12, BusyMine DEF CreateGroup
    <3>3. groups \in Seq(Group) /\ NewGroup(Mine(w), "task") \in Group
      BY <3>2 DEF TypeOK, NewGroup, Group, GroupStatus
    <3>4. Len(groups') = Len(groups) + 1 /\ Len(groups) \in Nat
      BY <3>1, <3>3, AppendProperties, LenProperties
    <3> QED
      BY <3>4
  <2> QED
    BY <1>1, <2>1 DEF Past
<1>13. ASSUME NEW d \in Disks, CreateJob(w, d)
       PROVE  Sits(w)'
  <2>1. PICK g \in DOMAIN groups :
           /\ g = worker[w].own /\ Disks \subseteq groups[g].jobs \cup worker[w].left
      BY <1>0, <1>13 DEF Sits, CreateJob
  <2>2. groups' = [groups EXCEPT ![g] = [groups[g] EXCEPT !.jobs = @ \cup {d}]]
    BY <1>13, <2>1 DEF CreateJob
  <2>3. groups[g].jobs = groups[g].jobs \cup {d}
    <3>1. groups[g] \in Group /\ groups \in Seq(Group)
      BY GroupAt DEF TypeOK
    <3>2. groups'[g].jobs = groups[g].jobs \cup {d}
      BY <2>2, <3>1 DEF Group
    <3> QED
      BY <3>2
  <2>4. /\ worker'[w].own = g /\ worker'[w].left = worker[w].left \ {d}
        /\ worker'[w].at = IF worker'[w].left = {} THEN "transfer" ELSE "jobs"
    BY <1>13, <2>1, FieldSteps
  <2>5. Disks \subseteq groups[g].jobs \cup worker'[w].left
    BY <2>1, <2>3, <2>4
  <2> QED
    BY <2>4, <2>5 DEF Sits, Past
<1>14. CASE Adapt(w)
  <2>1. CASE worker'[w].at = "fail"
    BY <1>1, <2>1 DEF Past
  <2>2. CASE worker'[w].at # "fail"
    <3>0. ~Raise(w)
      BY <2>2, MovesAt
    <3>1. worker'[w].at = "configure" /\ Mine(w) \in Migrations
      BY <1>14, <2>2, MovesAt, BusyMine DEF Adapt
    <3>2. CASE cluster' = [cluster EXCEPT !.fixed = @ \cup {Mine(w)}]
      <4>1. cluster'.fixed # {}
        BY <3>2 DEF TypeOK, Cluster
      <4> QED
        BY <1>a, <3>1, <4>1 DEF OneGroup, Sits, Past
    <3>3. ASSUME NEW g \in ReadyGroups, NEW disks, Completed(g, disks),
                 ~(BootDisk \in disks /\ Mine(w) \notin cluster.fixed)
          PROVE  Sits(w)'
      <4>0. "overlap" \in Bounded /\ MaxOverlap = 0
        BY DEF Bounded, Solitary
      <4>1. BootDisk \in disks
        BY <3>3, <4>0, NothingSpent DEF Completed, ReadyGroups, OneGroup, GroupRight
      <4>2. AllAdapted
        BY <3>3, <4>1 DEF OneGroup
      <4> QED
        BY <1>a, <3>1, <4>2 DEF Sits, Past
    <3> QED
      BY <1>14, <3>0, <3>2, <3>3 DEF Adapt
  <2> QED
    BY <2>1, <2>2
<1> QED
  BY <1>2, <1>t, <1>e, <1>3, <1>4, <1>6, <1>7, <1>8, <1>9, <1>10, <1>11, <1>12, <1>13,
     <1>14 DEF OrchestratorStep

(* The steps of a worker that change a group, or what the Adapter fixed.    *)
LEMMA OrchestratorGroup ==
    ASSUME TypeOK, TypeOK', Traceable, Exclusive, Solitary, OneGroup,
           NEW w \in Workers, OrchestratorStep(w)
    PROVE  OneGroup'
<1> USE DEF data, broker
<1>0. /\ worker \in [Workers -> Orchestrator] /\ cluster \in Cluster
      /\ \A g \in DOMAIN groups : groups[g] \in Group
      /\ \A v \in Workers : v # w => worker'[v] = worker[v]
      /\ worker[w].at # "idle" /\ Mine(w) \in Migrations
  <2>1. ~Terminate(w) \/ worker[w].at # "idle"
    BY BusyMine, MovesAt DEF OrchestratorStep, Terminate, Validate, CheckEligible,
       Prepare, FindGroup, CreateGroup, CreateJob, Populate, Transfer, Enqueue,
       WaitConversions, Adapt, Configure, LoadContext, SetStarting, CreateVm,
       SetVerifying, VerifyRunning, StampVm, Complete, CleanupTransit, FailGuard,
       FailCommit, Advance
  <2> QED
    BY <2>1, OrchestratorFrame, BusyMine, GroupAt DEF Moved, TypeOK
<1>1. CASE UNCHANGED <<groups, cluster>>
  <2>1. Sits(w)'
    BY <1>1, OrchestratorSits
  <2> QED
    BY <1>0, <1>1, <2>1, GroupStays
<1>2. CASE UNCHANGED groups /\ ~UNCHANGED cluster /\ ~Adapt(w)
  <2>1. CASE \E d \in Disks : Populate(w, d)
    <3>1. PICK d \in Disks : Populate(w, d)
      BY <2>1
    <3>2. cluster'.fixed = cluster.fixed
      BY <1>0, <3>1 DEF Populate, Cluster
    <3>3. /\ worker'[w].at = "fail" \/ worker'[w].ctx = worker[w].ctx
          /\ worker'[w].at \in {"fail", "starting", "populate"}
          /\ worker[w].at = "populate"
      BY <3>1, FieldSteps DEF Populate
    <3>4. Sits(w)
      BY DEF OneGroup
    <3>5. Sits(w)'
      BY <1>2, <3>3, <3>4 DEF Sits, Past, AllAdapted
    <3> QED
      BY <1>0, <1>2, <3>2, <3>5, GroupStays
  <2>2. CASE CreateVm(w)
    <3>1. cluster'.fixed = cluster.fixed
      BY <1>0, <2>2 DEF CreateVm, Cluster
    <3>2. /\ worker'[w].ctx = worker[w].ctx /\ worker[w].at = "create"
          /\ worker'[w].at \in {"fail", "verifying"}
      BY <2>2, MovesAt, MovesKeep DEF CreateVm, Kept
    <3>3. Sits(w)
      BY DEF OneGroup
    <3>4. Sits(w)'
      BY <1>2, <3>2, <3>3 DEF Sits, Past, AllAdapted
    <3> QED
      BY <1>0, <1>2, <3>1, <3>4, GroupStays
  <2>3. CASE ~CreateVm(w) /\ ~ \E d \in Disks : Populate(w, d)
    BY <1>2, <2>3 DEF OrchestratorStep, Validate, CheckEligible, Prepare, FindGroup,
       CreateGroup, CreateJob, Transfer, Enqueue, WaitConversions, Configure,
       LoadContext, SetStarting, SetVerifying, VerifyRunning, StampVm, Complete,
       CleanupTransit, FailGuard, FailCommit, Advance
  <2> QED
    BY <2>1, <2>2, <2>3
<1>3. CASE CreateGroup(w) /\ ~UNCHANGED groups
  <2> DEFINE new == NewGroup(Mine(w), "task")
  <2>1. groups' = Append(groups, new) /\ UNCHANGED cluster
    BY <1>3 DEF CreateGroup
  <2>2. /\ new \in Group /\ new.jobs = {} /\ new.status # "READY"
        /\ new.owner = Mine(w) /\ new.by = "task" /\ new.enqueued = {}
    BY <1>0 DEF NewGroup, Group, GroupStatus
  <2> HIDE DEF new
  <2>3. /\ DOMAIN groups' = DOMAIN groups \cup {Len(groups) + 1}
        /\ groups'[Len(groups) + 1] = new
    BY <2>1, <2>2, GrowsAppend
  <2>4. DOMAIN groups = {} /\ worker[w].at = "list"
    BY <1>3 DEF OneGroup, Sits, CreateGroup
  <2>5. Len(groups) = 0
    <3>1. groups \in Seq(Group)
      BY DEF TypeOK
    <3>2. Len(groups) \in Nat /\ DOMAIN groups = 1..Len(groups)
      BY <3>1, LenProperties
    <3> QED
      BY <2>4, <3>2
  <2>6. DOMAIN groups' = {1} /\ groups'[1] = new
    BY <2>3, <2>4, <2>5
  <2>7. cluster'.fixed = {}
    BY <2>1, <2>4 DEF OneGroup, AllAdapted
  <2>8. \A g \in DOMAIN groups' : GroupRight(g)'
    BY <1>0, <2>2, <2>6 DEF GroupRight
  <2>9. ASSUME NEW v \in Workers PROVE Sits(v)'
    <3>1. CASE v = w
      <4>1. /\ worker'[w].at = "jobs" /\ worker'[w].own = 1 /\ worker'[w].left = Disks
        BY <1>3, <2>5, FieldSteps
      <4> QED
        BY <2>6, <3>1, <4>1 DEF Sits, Past
    <3>2. CASE v # w
      <4>1. worker'[v] = worker[v] /\ Sits(v)
        BY <1>0, <3>2 DEF OneGroup
      <4>2. worker[v].at = "idle"
        <5> SUFFICES ASSUME worker[v].at # "idle" PROVE FALSE
          OBVIOUS
        <5>1. Mine(v) = Mine(w)
          BY <1>0, BusyMine DEF Solitary
        <5> QED
          BY <1>0, <3>2, <5>1 DEF Exclusive, SingleOrchestrator
      <4> QED
        BY <4>1, <4>2 DEF Sits, Past
    <3> QED
      BY <3>1, <3>2
  <2> QED
    BY <2>7, <2>8, <2>9 DEF OneGroup
<1>4. ASSUME NEW d \in Disks, CreateJob(w, d)
      PROVE  OneGroup'
  <2>1. PICK g \in DOMAIN groups :
           /\ g = worker[w].own /\ Disks \subseteq groups[g].jobs \cup worker[w].left
      BY <1>4 DEF OneGroup, Sits, CreateJob
  <2> DEFINE new == [groups[g] EXCEPT !.jobs = @ \cup {d}]
  <2>2. groups' = [groups EXCEPT ![g] = new] /\ UNCHANGED cluster
    BY <1>4, <2>1 DEF CreateJob
  <2>3. /\ new.jobs = groups[g].jobs \cup {d}
        /\ new.status = groups[g].status /\ new.by = groups[g].by
        /\ new.enqueued = groups[g].enqueued /\ new.ended = groups[g].ended
        /\ new.owner = groups[g].owner /\ new.adapted = groups[g].adapted
    BY <1>0 DEF Group
  <2> HIDE DEF new
  <2>4. /\ Grows /\ DOMAIN groups' = DOMAIN groups /\ groups'[g] = new
        /\ \A h \in DOMAIN groups : h # g => groups'[h] = groups[h]
    BY <2>2, <2>3, GrowsUpdate
  <2>5. GroupRight(g)'
    <3>1. GroupRight(g)
      BY DEF OneGroup
    <3>2. BootDisk \in new.jobs
      <4>1. BootDisk \in worker[w].left => d = BootDisk
        BY <1>4 DEF CreateJob
      <4> QED
        BY <2>1, <2>3, <4>1, ConstantsAssumption
    <3> QED
      BY <2>3, <2>4, <3>1, <3>2 DEF GroupRight
  <2>6. Sits(w)'
    <3>1. /\ worker'[w].own = g /\ worker'[w].left = worker[w].left \ {d}
          /\ worker'[w].at = IF worker'[w].left = {} THEN "transfer" ELSE "jobs"
      BY <1>4, <2>1, FieldSteps
    <3>2. Disks \subseteq new.jobs \cup worker'[w].left
      BY <2>1, <2>3, <3>1
    <3> QED
      BY <2>4, <3>1, <3>2 DEF Sits, Past
  <2> QED
    BY <1>0, <2>2, <2>4, <2>5, <2>6, GroupUpdated
<1>5. ASSUME NEW d \in Disks, Enqueue(w),
             worker[w].left = {} => d \in groups[worker[w].own].jobs,
             groups' = [groups EXCEPT ![worker[w].own] =
                          [groups[worker[w].own] EXCEPT !.enqueued = @ \cup {d}]]
      PROVE  OneGroup'
  <2>1. /\ worker[w].at = "enqueue" /\ UNCHANGED cluster
    BY <1>5 DEF Enqueue
  <2>2. PICK g \in DOMAIN groups :
           /\ g = worker[w].own /\ worker[w].left \subseteq groups[g].jobs
    BY <2>1 DEF OneGroup, Sits
  <2> DEFINE new == [groups[g] EXCEPT !.enqueued = @ \cup {d}]
  <2>3. groups' = [groups EXCEPT ![g] = new]
    BY <1>5, <2>2
  <2>4. /\ new.jobs = groups[g].jobs /\ new.status = groups[g].status
        /\ new.by = groups[g].by /\ new.ended = groups[g].ended
        /\ new.owner = groups[g].owner /\ new.adapted = groups[g].adapted
    BY <1>0 DEF Group
  <2> HIDE DEF new
  <2>5. /\ Grows /\ DOMAIN groups' = DOMAIN groups /\ groups'[g] = new
        /\ \A h \in DOMAIN groups : h # g => groups'[h] = groups[h]
    BY <2>3, <2>4, GrowsUpdate
  <2>6. groups[g].jobs # {}
    BY <1>5, <2>2
  <2>7. GroupRight(g)'
    <3>1. GroupRight(g)
      BY DEF OneGroup
    <3> QED
      BY <2>4, <2>5, <2>6, <3>1 DEF GroupRight
  <2>8. Sits(w)'
    <3>1. /\ worker'[w].own = g /\ worker'[w].at \in {"enqueue", "wait", "fail"}
          /\ worker'[w].at = "enqueue" => worker'[w].left \subseteq groups[g].jobs
      BY <1>5, <2>2, FieldSteps
    <3> QED
      BY <2>4, <2>5, <3>1 DEF Sits, Past
  <2> QED
    BY <1>0, <2>1, <2>5, <2>7, <2>8, GroupUpdated
<1>6. CASE Adapt(w) /\ ~UNCHANGED <<groups, cluster>>
  <2>1. PICK g \in ReadyGroups :
           /\ groups' = [groups EXCEPT ![g].adapted = TRUE]
           /\ cluster' = [cluster EXCEPT !.fixed = @ \cup {Mine(w)}]
    BY <1>6 DEF Adapt
  <2>2. g \in DOMAIN groups
    BY DEF ReadyGroups
  <2>3. groups' = [groups EXCEPT ![g] = [groups[g] EXCEPT !.adapted = TRUE]]
    BY <2>1
  <2>4. /\ Grows /\ DOMAIN groups' = DOMAIN groups
        /\ groups'[g] = [groups[g] EXCEPT !.adapted = TRUE]
        /\ \A h \in DOMAIN groups : h # g => groups'[h] = groups[h]
    BY <1>0, <2>2, <2>3, GrowsUpdate DEF Group
  <2>5. \A h \in DOMAIN groups : h = g
    BY <2>2 DEF OneGroup, GroupRight
  <2>6. groups'[g].adapted /\ GroupRight(g)'
    <3>1. GroupRight(g) /\ groups[g] \in Group
      BY <1>0, <2>2 DEF OneGroup
    <3> QED
      BY <2>4, <3>1 DEF GroupRight, Group
  <2>7. AllAdapted'
    BY <2>2, <2>4, <2>5, <2>6 DEF AllAdapted
  <2>8. ASSUME NEW v \in Workers PROVE Sits(v)'
    <3>1. CASE v = w
      <4>1. Reload(w, "configure") \/ Raise(w)
        BY <1>6 DEF Adapt
      <4>2. worker'[w].at \in {"configure", "fail"}
        BY <4>1, MovesAt
      <4> QED
        BY <2>7, <3>1, <4>2 DEF Sits, Past
    <3>2. CASE v # w
      BY <1>0, <2>4, <3>2, SitsKept DEF OneGroup
    <3> QED
      BY <3>1, <3>2
  <2> QED
    BY <2>4, <2>5, <2>6, <2>7, <2>8 DEF OneGroup
<1> QED
  BY <1>1, <1>2, <1>3, <1>4, <1>5, <1>6, GroupSteps

LEMMA OneGroupStep ==
    ASSUME TypeOK, TypeOK', Traceable, Exclusive, Solitary, OneGroup, [Next]_vars
    PROVE  OneGroup'
<1> USE DEF data, broker
<1>0. /\ worker \in [Workers -> Orchestrator] /\ cluster \in Cluster
      /\ \A g \in DOMAIN groups : groups[g] \in Group
  BY GroupAt DEF TypeOK
<1>1. CASE UNCHANGED vars
  BY <1>1, GroupStays DEF vars
<1>2. ASSUME NEW c \in Clients, ClientNext(c) PROVE OneGroup'
  <2>1. UNCHANGED <<groups, worker>>
    BY <1>2 DEF ClientNext, CreateBegin, StartBegin, CancelBegin, CreateLock, CreateInsert,
       StartPublish, StartValidate, StartBrokerDown, StartStampId, CancelRevoke,
       CancelCommit, CancelCleanup, HandlerDies
  <2>2. cluster'.fixed = cluster.fixed
    <3>1. CASE CancelCleanup(c)
      BY <1>0, <3>1 DEF CancelCleanup, Cluster
    <3>2. CASE ~CancelCleanup(c)
      BY <1>2, <3>2 DEF ClientNext, CreateBegin, StartBegin, CancelBegin,
         CreateLock, CreateInsert, StartPublish, StartValidate, StartBrokerDown, StartStampId,
         CancelRevoke, CancelCommit, HandlerDies
    <3> QED
      BY <3>1, <3>2
  <2> QED
    BY <2>1, <2>2, GroupStays
<1>3. ASSUME NEW g \in DOMAIN groups, ConversionStep(g) PROVE OneGroup'
  <2>1. PICK new \in Group :
           /\ groups' = [groups EXCEPT ![g] = new]
           /\ groups[g].enqueued # {}
           /\ new.owner = groups[g].owner /\ new.by = groups[g].by
           /\ new.jobs = groups[g].jobs /\ new.enqueued = groups[g].enqueued
           /\ new.adapted = groups[g].adapted
           /\ new.status = "READY" => /\ new.jobs \subseteq new.enqueued
                                      /\ new.ended = new.enqueued
    BY <1>3, ConversionEffect
  <2>2. UNCHANGED <<cluster, worker>>
    BY <1>3, ConversionEffect
  <2>3. /\ Grows /\ DOMAIN groups' = DOMAIN groups /\ groups'[g] = new
        /\ \A h \in DOMAIN groups : h # g => groups'[h] = groups[h]
    BY <2>1, GrowsUpdate
  <2>4. GroupRight(g)'
    <3>1. GroupRight(g)
      BY DEF OneGroup
    <3> QED
      BY <2>1, <2>3, <3>1 DEF GroupRight
  <2> QED
    BY <2>2, <2>3, <2>4, GroupUpdated
<1>4. ~ConvertNext
  <2>1. "convert" \in Bounded /\ MaxConvert = 0
    BY DEF Bounded, Solitary
  <2>2. ~ConvertBegin
    BY <2>1, NothingSpent DEF ConvertBegin
  <2>3. ASSUME NEW g \in DOMAIN groups
        PROVE  ~ConvertJob(g) /\ ~ConvertEnqueue(g) /\ ~ConvertRefuse(g)
    BY DEF OneGroup, GroupRight, ConvertJob, ConvertEnqueue, ConvertRefuse
  <2> QED
    BY <2>2, <2>3 DEF ConvertNext
<1>5. ASSUME NEW w \in Workers, WorkerNext(w) PROVE OneGroup'
  <2>1. CASE OrchestratorStep(w)
    BY <2>1, OrchestratorGroup
  <2>2. CASE ~OrchestratorStep(w)
    <3>1. UNCHANGED <<groups, cluster>>
      BY <1>5, <2>2 DEF WorkerNext, Receive, SoftTimeLimit, Terminate, Crash, Redeliver
    <3>2. \A v \in Workers :
             \/ worker'[v] = worker[v] \/ worker'[v].at \in {"idle", "fail"}
             \/ worker'[v].at = "validate" /\ worker'[v].left = {}
      <4>1. CASE \E t \in Tasks : Receive(w, t)
        BY <1>0, <4>1 DEF Receive, IdleWorker
      <4>2. CASE SoftTimeLimit(w)
        BY <1>0, <4>2, OrchestratorFrame, MovesAt DEF SoftTimeLimit, Moved
      <4>3. CASE Terminate(w)
        BY <1>0, <4>3, OrchestratorFrame, MovesAt DEF Terminate, Moved
      <4>4. CASE Crash(w)
        BY <1>0, <4>4 DEF Crash, Finish, IdleWorker
      <4>5. CASE Redeliver(w)
        BY <4>5 DEF Redeliver
      <4> QED
        BY <1>5, <2>2, <4>1, <4>2, <4>3, <4>4, <4>5 DEF WorkerNext
    <3>3. \A v \in Workers : worker'[v] = worker[v] \/ Sits(v)'
      BY <3>2 DEF Sits, Past
    <3> QED
      BY <3>1, <3>3, GroupStays
  <2> QED
    BY <2>1, <2>2
<1> QED
  BY <1>1, <1>2, <1>3, <1>4, <1>5 DEF Next

(* The Migrator copies disks that the Adapter has fixed up, when the        *)
(* machine has one migration, nobody converts it by hand, no start          *)
(* overtakes another, no message is delivered twice and no lookup overlaps  *)
(* a job taken up again; requests may overlap, workers and handlers may     *)
(* die, be cancelled, time out or fail at any point and conversions may     *)
(* leave the status they had ended in.  Then a migration never has a second *)
(* group, so that the two services that look the group up find the same     *)
(* one, and every delivery finds the result of the first.                   *)
THEOREM PopulatesTheAdapted ==
    ASSUME Solitary
    PROVE  Spec => []PopulatesAdaptedDisks
<1>1. Init => Exclusive /\ Startable /\ OneGroup
  <2>1. Init => OneGroup
    BY DEF Init, OneGroup, Sits, Past, IdleWorker
  <2> QED
    BY <2>1, StartableInit
<1>2. (TypeOK /\ Traceable) /\ (TypeOK /\ Traceable)'
         /\ (Exclusive /\ Startable /\ OneGroup) /\ [Next]_vars
         => (Exclusive /\ Startable /\ OneGroup)'
  BY StartableStep, OneGroupStep DEF Solitary
<1>3. OneGroup => PopulatesAdaptedDisks
  BY DEF OneGroup, Sits, Past, AllAdapted, PopulatesAdaptedDisks
<1> QED
  BY <1>1, <1>2, <1>3, BaseInvariant, PTL DEF Spec

=============================================================================
