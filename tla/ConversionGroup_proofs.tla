----------------------- MODULE ConversionGroup_proofs -----------------------
(***************************************************************************)
(* What holds of ConversionGroup for every set of jobs, workers and        *)
(* clients, and every bound of its environment: the accounts of the        *)
(* deliveries and of the attempts; and, for the environments a theorem     *)
(* names, the output of a READY job and the status of the group.           *)
(***************************************************************************)
EXTENDS ConversionGroup, FiniteSetTheorems, SequenceTheorems, TLAPS

JobRec == [status : ConversionStatus, attempts : Nat, error : Bucket \cup {None}]
PodRec == [job : Jobs, num : Nat, state : {"running", "succeeded", "failed"}]
WorkRec == [at : Stages \cup {"idle"}, job : Jobs \cup {None}, retries : 0..MaxRetries,
            num : Nat, pod : Nat, failed : BOOLEAN,
            group : GroupStatus \cup {None}, agg : GroupStatus \cup {None}]
ReqRec == [at : {"idle", "enqueue", "unqueue", "ungroup", "cancel", "retry", "read",
                 "write", "cancelled", "publish"},
           todo : SUBSET Jobs, ids : SUBSET Jobs, mark : Jobs \cup {None},
           group : GroupStatus \cup {None}, agg : GroupStatus \cup {None}]

(* What a worker at a stage carries; rows is the log its number refers to.  *)
WorkOk(r, rows) ==
    /\ r.at = "idle" <=> r.job = None
    /\ r.at = "publish" => r.retries < MaxRetries
    /\ r.at = "write" => r.agg \in GroupStatus
    /\ r.at \in {"read", "write", "decide", "publish", "ack"} => r.num = 0
    /\ r.at = "attempt" => r.num <= Len(rows[r.job]) + 1
    /\ r.at \notin {"idle", "attempt"} => r.num <= Len(rows[r.job])

(* Only a retry has jobs to publish again, and a job is marked in a step of *)
(* a cancel or a retry.                                                     *)
ReqOk(r) ==
    /\ r.at \notin {"cancel", "retry"} => r.mark = None
    /\ r.at \notin {"retry", "read", "write", "publish"} => r.ids = {}
    /\ r.at = "write" => r.agg \in GroupStatus

Linked ==
    /\ \A w \in Workers : WorkOk(worker[w], log)
    /\ \A c \in Clients : ReqOk(request[c])
    /\ \A j \in Jobs : job[j].attempts <= Len(log[j])

Sound == TypeOK /\ Linked

-----------------------------------------------------------------------------
(* How a step moves a record.                                               *)

LEMMA WorkerBecomes ==
    ASSUME Sound, NEW w \in Workers, NEW r \in WorkRec, worker' = [worker EXCEPT ![w] = r]
    PROVE  /\ worker' \in [Workers -> WorkRec]
           /\ worker'[w] = r
           /\ \A u \in Workers \ {w} : worker'[u] = worker[u]
<1>1. worker \in [Workers -> WorkRec]
  BY DEF Sound, TypeOK, WorkRec
<1> QED
  BY <1>1

LEMMA RequestBecomes ==
    ASSUME Sound, NEW c \in Clients, NEW r \in ReqRec, request' = [request EXCEPT ![c] = r]
    PROVE  /\ request' \in [Clients -> ReqRec]
           /\ request'[c] = r
           /\ \A d \in Clients \ {c} : request'[d] = request[d]
<1>1. request \in [Clients -> ReqRec]
  BY DEF Sound, TypeOK, ReqRec
<1> QED
  BY <1>1

LEMMA IdleTypes ==
    /\ IdleWorker \in WorkRec /\ IdleRequest \in ReqRec
    /\ ReqOk(IdleRequest) /\ \A rows : WorkOk(IdleWorker, rows)
<1>1. 0 \in 0..MaxRetries
  BY ConstantsAssumption
<1>2. IdleWorker \in WorkRec
  BY <1>1 DEF IdleWorker, WorkRec
<1>3. \A rows : WorkOk(IdleWorker, rows)
  BY DEF IdleWorker, WorkOk
<1> QED
  BY <1>2, <1>3 DEF IdleRequest, ReqRec, ReqOk

LEMMA Parts ==
    ASSUME Sound
    PROVE  /\ job \in [Jobs -> JobRec] /\ log \in [Jobs -> Seq({"RETRYING", "READY", "FAILED"})]
           /\ pods \subseteq PodRec /\ queue \in [Messages -> Nat]
           /\ worker \in [Workers -> WorkRec] /\ request \in [Clients -> ReqRec]
           /\ spent \in [Bounded -> Nat]
           /\ \A w \in Workers : /\ worker[w] \in WorkRec /\ WorkOk(worker[w], log)
                                 /\ worker[w].at # "idle" => worker[w].job \in Jobs
           /\ \A c \in Clients : request[c] \in ReqRec /\ ReqOk(request[c])
           /\ \A j \in Jobs : job[j] \in JobRec /\ job[j].attempts <= Len(log[j])
<1>1. /\ job \in [Jobs -> JobRec] /\ log \in [Jobs -> Seq({"RETRYING", "READY", "FAILED"})]
      /\ pods \subseteq PodRec /\ queue \in [Messages -> Nat]
      /\ worker \in [Workers -> WorkRec] /\ request \in [Clients -> ReqRec]
      /\ spent \in [Bounded -> Nat]
  BY DEF Sound, TypeOK, JobRec, PodRec, WorkRec, ReqRec, Bounded
<1>2. /\ \A w \in Workers : WorkOk(worker[w], log)
      /\ \A c \in Clients : ReqOk(request[c])
      /\ \A j \in Jobs : job[j].attempts <= Len(log[j])
  BY DEF Sound, Linked
<1>3. \A w \in Workers : worker[w].at # "idle" => worker[w].job \in Jobs
  BY <1>1, <1>2 DEF WorkOk, WorkRec
<1> QED
  BY <1>1, <1>2, <1>3

LEMMA SpendType ==
    ASSUME Sound, NEW what \in Bounded, NEW max, Spend(what, max)
    PROVE  /\ spent' \in [Bounded -> Nat] /\ spent'[what] = spent[what] + 1
           /\ \A k \in Bounded \ {what} : spent'[k] = spent[k]
<1>1. spent \in [Bounded -> Nat]
  BY Parts
<1>2. spent' = [spent EXCEPT ![what] = @ + 1]
  BY DEF Spend
<1> QED
  BY <1>1, <1>2

LEMMA PublishType ==
    ASSUME Sound, NEW j \in Jobs, NEW n \in 0..MaxRetries, Publish(j, n)
    PROVE  /\ queue' \in [Messages -> Nat] /\ queue'[<<j, n>>] = queue[<<j, n>>] + 1
           /\ \A msg \in Messages \ {<<j, n>>} : queue'[msg] = queue[msg]
<1>1. queue \in [Messages -> Nat] /\ <<j, n>> \in Messages
  BY Parts DEF Messages
<1>2. queue' = [queue EXCEPT ![<<j, n>>] = @ + 1]
  BY DEF Publish
<1> QED
  BY <1>1, <1>2

LEMMA StatusType ==
    ASSUME Sound, NEW j \in Jobs, NEW s \in ConversionStatus, SetJobStatus(j, s)
    PROVE  /\ job' \in [Jobs -> JobRec]
           /\ job'[j].status = s /\ job'[j].error = job[j].error
           /\ \A k \in Jobs : job'[k].attempts = job[k].attempts
           /\ \A k \in Jobs \ {j} : job'[k] = job[k]
<1>1. job \in [Jobs -> JobRec] /\ job[j] \in JobRec
  BY Parts
<1>2. job' = [job EXCEPT ![j].status = s]
  BY DEF SetJobStatus
<1>3. [job[j] EXCEPT !.status = s] \in JobRec
  BY <1>1 DEF JobRec
<1> QED
  BY <1>1, <1>2, <1>3 DEF JobRec

LEMMA FailedType ==
    ASSUME Sound, NEW j \in Jobs, NEW b \in Bucket, SetFailed(j, b)
    PROVE  /\ job' \in [Jobs -> JobRec]
           /\ job'[j].status = "FAILED" /\ job'[j].error = b
           /\ \A k \in Jobs : job'[k].attempts = job[k].attempts
           /\ \A k \in Jobs \ {j} : job'[k] = job[k]
<1>1. job \in [Jobs -> JobRec] /\ job[j] \in JobRec
  BY Parts
<1>2. job' = [job EXCEPT ![j].status = "FAILED", ![j].error = b]
  BY DEF SetFailed
<1>3. [job[j] EXCEPT !.status = "FAILED", !.error = b] \in JobRec
  BY <1>1 DEF JobRec, ConversionStatus
<1>4. job' = [job EXCEPT ![j] = [job[j] EXCEPT !.status = "FAILED", !.error = b]]
  BY <1>1, <1>2
<1> QED
  BY <1>1, <1>3, <1>4 DEF JobRec

-----------------------------------------------------------------------------
(* TYPE CORRECTNESS                                                        *)

(* The tables and files a worker leaves have their types.                   *)
Rows == Seq({"RETRYING", "READY", "FAILED"})
Tabled ==
    /\ job' \in [Jobs -> JobRec] /\ log' \in [Jobs -> Rows]
    /\ \A j \in Jobs : Len(log[j]) <= Len(log'[j]) /\ job'[j].attempts <= Len(log'[j])
    /\ group' \in GroupStatus /\ output' \in [Jobs -> {"none", "partial", "whole"}]
    /\ pods' \subseteq PodRec /\ queue' \in [Messages -> Nat]
    /\ spent' \in [Bounded -> Nat]

LEMMA WorkerSound ==
    ASSUME Sound, Tabled, NEW w \in Workers, NEW r \in WorkRec, WorkOk(r, log'),
           worker' = [worker EXCEPT ![w] = r], request' = request
    PROVE  Sound'
<1>1. /\ worker' \in [Workers -> WorkRec] /\ worker'[w] = r
      /\ \A u \in Workers \ {w} : worker'[u] = worker[u]
  BY WorkerBecomes
<1>2. TypeOK'
  <2>1. request \in [Clients -> ReqRec]
    BY Parts
  <2> QED
    BY <1>1, <2>1 DEF Tabled, TypeOK, JobRec, PodRec, WorkRec, ReqRec, Bounded, Rows
<1>3. ASSUME NEW u \in Workers PROVE WorkOk(worker'[u], log')
  <2>1. CASE u = w
    BY <1>1, <2>1
  <2>2. CASE u # w /\ worker[u].at = "idle"
    <3>1. worker'[u] = worker[u] /\ WorkOk(worker[u], log)
      BY <1>1, <2>2, Parts
    <3> QED
      BY <2>2, <3>1 DEF WorkOk
  <2>3. CASE u # w /\ worker[u].at # "idle"
    <3>1. /\ worker'[u] = worker[u] /\ WorkOk(worker[u], log) /\ worker[u] \in WorkRec
          /\ worker[u].job \in Jobs
      BY <1>1, <2>3, Parts
    <3>2. /\ worker[u].num \in Nat /\ Len(log[worker[u].job]) \in Nat
          /\ Len(log'[worker[u].job]) \in Nat
          /\ Len(log[worker[u].job]) <= Len(log'[worker[u].job])
      <4>1. log \in [Jobs -> Rows] /\ log' \in [Jobs -> Rows]
        BY Parts DEF Tabled, Rows
      <4> QED
        BY <3>1, <4>1 DEF Tabled, WorkRec, Rows
    <3>3. PICK v : v = worker[u]
      OBVIOUS
    <3>4. PICK a \in Nat, b \in Nat : a = Len(log[v.job]) /\ b = Len(log'[v.job]) /\ a <= b
      BY <3>2, <3>3
    <3>5. (v.num <= a => v.num <= b) /\ (v.num <= a + 1 => v.num <= b + 1)
      BY <3>2, <3>3, <3>4
    <3>6. WorkOk(v, log) /\ v.at # "idle"
      BY <2>3, <3>1, <3>3
    <3>7. v.at \notin {"idle", "attempt"} => v.num <= Len(log'[v.job])
      BY <3>4, <3>5, <3>6 DEF WorkOk
    <3>8. v.at = "attempt" => v.num <= Len(log'[v.job]) + 1
      BY <3>4, <3>5, <3>6 DEF WorkOk
    <3>9. WorkOk(v, log')
      BY <3>6, <3>7, <3>8 DEF WorkOk
    <3> QED
      BY <3>1, <3>3, <3>9
  <2> QED
    BY <2>1, <2>2, <2>3
<1>4. \A c \in Clients : ReqOk(request'[c])
  BY Parts
<1>5. Linked'
  BY <1>3, <1>4 DEF Linked, Tabled
<1> QED
  BY <1>2, <1>5 DEF Sound

(* What of Tabled a step that leaves a table alone has to show.             *)
LEMMA Unmoved ==
    ASSUME Sound
    PROVE  /\ log' = log => /\ log' \in [Jobs -> Rows]
                            /\ \A j \in Jobs : Len(log[j]) <= Len(log'[j])
           /\ job' = job => job' \in [Jobs -> JobRec]
           /\ group' = group => group' \in GroupStatus
           /\ output' = output => output' \in [Jobs -> {"none", "partial", "whole"}]
           /\ pods' = pods => pods' \subseteq PodRec
           /\ queue' = queue => queue' \in [Messages -> Nat]
           /\ spent' = spent => spent' \in [Bounded -> Nat]
           /\ (log' = log /\ \A j \in Jobs : job'[j].attempts = job[j].attempts)
                 => \A j \in Jobs : job'[j].attempts <= Len(log'[j])
<1>1. \A j \in Jobs : Len(log[j]) \in Nat
  BY Parts
<1>2. group \in GroupStatus /\ output \in [Jobs -> {"none", "partial", "whole"}]
  BY DEF Sound, TypeOK
<1>3. log' = log => /\ log' \in [Jobs -> Rows]
                    /\ \A j \in Jobs : Len(log[j]) <= Len(log'[j])
  BY <1>1, Parts DEF Rows
<1>4. (log' = log /\ \A j \in Jobs : job'[j].attempts = job[j].attempts)
          => \A j \in Jobs : job'[j].attempts <= Len(log'[j])
  BY Parts
<1> QED
  BY <1>2, <1>3, <1>4, Parts

(* The worker goes on, fails, or ends.                                      *)
LEMMA GotoMoves ==
    ASSUME Sound, NEW w \in Workers, worker[w].at \notin {"idle", "attempt"},
           NEW stage \in Stages \ {"attempt", "read", "write", "decide", "publish", "ack"},
           Goto(w, stage), Tabled, log' = log, request' = request
    PROVE  Sound'
<1>1. /\ worker[w] \in WorkRec /\ WorkOk(worker[w], log)
      /\ worker \in [Workers -> WorkRec]
  BY Parts
<1>2. PICK r : r = [worker[w] EXCEPT !.at = stage]
  OBVIOUS
<1>3. r \in WorkRec /\ WorkOk(r, log')
  BY <1>1, <1>2 DEF WorkRec, WorkOk, Stages, Guarded
<1>4. worker' = [worker EXCEPT ![w] = r]
  BY <1>1, <1>2 DEF Goto
<1> QED
  BY <1>3, <1>4, WorkerSound

LEMMA FailMoves ==
    ASSUME Sound, NEW w \in Workers, worker[w].at \notin {"idle", "attempt"},
           NEW b \in Bucket, Fail(w, b), log' = log, request' = request, group' = group,
           output' \in [Jobs -> {"none", "partial", "whole"}], pods' \subseteq PodRec,
           queue' = queue, spent' \in [Bounded -> Nat]
    PROVE  Sound'
<1>1. /\ worker[w] \in WorkRec /\ WorkOk(worker[w], log) /\ worker[w].job \in Jobs
      /\ worker \in [Workers -> WorkRec]
  BY Parts
<1>2. PICK r : r = [worker[w] EXCEPT !.at = "failed", !.pod = 0, !.failed = TRUE]
  OBVIOUS
<1>3. r \in WorkRec /\ WorkOk(r, log')
  BY <1>1, <1>2 DEF WorkRec, WorkOk, Stages, Guarded
<1>4. worker' = [worker EXCEPT ![w] = r]
  BY <1>1, <1>2 DEF Fail
<1>5. /\ job' \in [Jobs -> JobRec]
      /\ \A k \in Jobs : job'[k].attempts = job[k].attempts
  BY <1>1, FailedType DEF Fail
<1>6. Tabled
  BY <1>5, Unmoved DEF Tabled
<1> QED
  BY <1>3, <1>4, <1>6, WorkerSound

(* What a worker is whose task is over, and one that left its message.      *)
Over(w) == [IdleWorker EXCEPT !.at = "ack", !.job = worker[w].job,
                              !.retries = worker[w].retries]

LEMMA OverTypes ==
    ASSUME Sound, NEW w \in Workers, worker[w].at # "idle"
    PROVE  /\ Over(w) \in WorkRec /\ Over(w).at = "ack" /\ Over(w).job = worker[w].job
           /\ Over(w).retries = worker[w].retries /\ Over(w).num = 0 /\ Over(w).pod = 0
           /\ Over(w).failed = FALSE
<1>1. worker[w] \in WorkRec
  BY Parts
<1> QED
  BY <1>1, IdleTypes DEF Over, IdleWorker, WorkRec, Stages

LEMMA FinishMoves ==
    ASSUME Sound, NEW w \in Workers, worker[w].at # "idle", Finish(w), Tabled,
           request' = request
    PROVE  Sound'
<1>1. /\ Over(w) \in WorkRec /\ Over(w).at = "ack" /\ Over(w).job \in Jobs
      /\ Over(w).num = 0
  BY OverTypes, Parts
<1>2. 0 <= Len(log'[Over(w).job])
  BY <1>1 DEF Tabled, Rows
<1>3. WorkOk(Over(w), log')
  BY <1>1, <1>2, ConstantsAssumption DEF WorkOk
<1>4. worker' = [worker EXCEPT ![w] = Over(w)]
  BY DEF Finish, Over
<1> QED
  BY <1>1, <1>3, <1>4, WorkerSound

LEMMA LeaveMoves ==
    ASSUME Sound, NEW w \in Workers, Leave(w), Tabled, request' = request
    PROVE  Sound'
  BY WorkerSound, IdleTypes DEF Leave

(* The steps of a worker, action by action.                                 *)
LEMMA CreateAttemptSound ==
    ASSUME Sound, NEW w \in Workers, CreateAttempt(w)
    PROVE  Sound'
<1>1. /\ worker[w] \in WorkRec /\ WorkOk(worker[w], log) /\ worker[w].job \in Jobs
      /\ worker \in [Workers -> WorkRec] /\ log \in [Jobs -> Rows]
  BY Parts DEF CreateAttempt, Rows
<1>2. PICK j \in Jobs : j = worker[w].job
  BY <1>1
<1>3. CASE Finish(w) /\ UNCHANGED log
  BY <1>3, Unmoved, FinishMoves DEF CreateAttempt, Tabled, files
<1>4. CASE /\ worker[w].num > Len(log[j])
           /\ log' = [log EXCEPT ![j] = Append(@, "RETRYING")] /\ Goto(w, "count")
  <2>1. Append(log[j], "RETRYING") \in Rows /\ Len(log[j]) \in Nat
        /\ Len(Append(log[j], "RETRYING")) = Len(log[j]) + 1
    BY <1>1 DEF Rows
  <2>2. /\ log' \in [Jobs -> Rows] /\ Len(log'[j]) = Len(log[j]) + 1
        /\ \A k \in Jobs : Len(log'[k]) \in Nat /\ Len(log[k]) \in Nat
        /\ \A k \in Jobs \ {j} : log'[k] = log[k]
    <3>1. log' \in [Jobs -> Rows]
      BY <1>1, <1>4, <2>1
    <3> QED
      BY <1>1, <1>4, <2>1, <3>1 DEF Rows
  <2>3. \A k \in Jobs : Len(log[k]) <= Len(log'[k])
    BY <2>1, <2>2
  <2>4. \A k \in Jobs : job'[k].attempts <= Len(log'[k])
    <3>1. job' = job /\ \A k \in Jobs : job[k].attempts \in Nat /\ job[k].attempts <= Len(log[k])
      BY Parts DEF CreateAttempt, JobRec
    <3> QED
      BY <3>1, <2>2, <2>3
  <2>5. Tabled
    BY <2>2, <2>3, <2>4, Unmoved DEF Tabled, CreateAttempt, files
  <2>6. PICK r : r = [worker[w] EXCEPT !.at = "count"]
    OBVIOUS
  <2>7. r \in WorkRec /\ r.job = j /\ r.at = "count" /\ r.num = worker[w].num
    BY <1>1, <1>2, <2>6 DEF WorkRec, Stages
  <2>8. worker[w].num <= Len(log[j]) + 1
    BY <1>1, <1>2 DEF CreateAttempt, WorkOk
  <2>9. r.num <= Len(log'[r.job]) /\ r.job # None
    BY <2>2, <2>7, <2>8, ConstantsAssumption
  <2>10. WorkOk(r, log')
    BY <2>7, <2>9 DEF WorkOk
  <2>11. worker' = [worker EXCEPT ![w] = r] /\ request' = request
    BY <1>1, <1>4, <2>6 DEF Goto, CreateAttempt
  <2> QED
    BY <2>5, <2>7, <2>10, <2>11, WorkerSound
<1> QED
  BY <1>2, <1>3, <1>4, <1>1, Parts DEF CreateAttempt, WorkRec, Rows

LEMMA CountAttemptSound ==
    ASSUME Sound, NEW w \in Workers, CountAttempt(w)
    PROVE  Sound'
<1>1. /\ worker[w] \in WorkRec /\ WorkOk(worker[w], log) /\ worker[w].job \in Jobs
      /\ job \in [Jobs -> JobRec] /\ \A k \in Jobs : job[k].attempts <= Len(log[k])
  BY Parts DEF CountAttempt
<1>2. PICK j \in Jobs, n \in Nat : j = worker[w].job /\ n = worker[w].num
  BY <1>1 DEF WorkRec
<1>3. job' = [job EXCEPT ![j].attempts = n] /\ n <= Len(log[j])
  BY <1>1, <1>2 DEF CountAttempt, WorkOk
<1>4. [job[j] EXCEPT !.attempts = n] \in JobRec
  BY <1>1 DEF JobRec
<1>5. job' \in [Jobs -> JobRec] /\ \A k \in Jobs : job'[k].attempts <= Len(log[k])
  BY <1>1, <1>3, <1>4 DEF JobRec
<1>6. Tabled
  BY <1>5, Unmoved DEF CountAttempt, Tabled, files
<1> QED
  BY <1>6, GotoMoves DEF CountAttempt, Stages, Guarded

LEMMA StageSound ==
    ASSUME Sound, NEW w \in Workers, NEW at \in Guarded, NEW s \in ConversionStatus,
           NEW next \in Guarded, SetStage(w, at, s, next)
    PROVE  Sound'
<1>1. worker[w].job \in Jobs /\ worker[w].at = at /\ at \notin {"idle", "attempt"}
  BY Parts DEF SetStage, Guarded
<1>2. /\ job' \in [Jobs -> JobRec] /\ \A k \in Jobs : job'[k].attempts = job[k].attempts
  BY <1>1, StatusType DEF SetStage
<1>3. Tabled
  BY <1>2, Unmoved DEF SetStage, Tabled, files
<1> QED
  BY <1>1, <1>3, GotoMoves DEF SetStage, Stages, Guarded

LEMMA StagesSound ==
    ASSUME Sound, NEW w \in Workers,
           Stage(w) \/ Progress(w) \/ Convert(w) \/ SetVerifying(w) \/ StageGroup(w)
    PROVE  Sound'
<1>1. CASE Stage(w) \/ Progress(w) \/ Convert(w) \/ SetVerifying(w)
  <2>1. /\ {"stage", "pull", "convert", "verify", "group", "submit", "ready"} \subseteq Guarded
        /\ {"STAGING", "CONVERTING", "VERIFYING"} \subseteq ConversionStatus
    BY DEF Guarded, ConversionStatus, InFlight
  <2> QED
    BY <1>1, <2>1, StageSound DEF Stage, Progress, Convert, SetVerifying
<1>2. CASE StageGroup(w)
  <2>1. Tabled
    BY <1>2, Unmoved DEF StageGroup, Tabled, files, GroupStatus
  <2> QED
    BY <1>2, <2>1, GotoMoves DEF StageGroup, Stages, Guarded
<1> QED
  BY <1>1, <1>2

LEMMA PullDiskSound ==
    ASSUME Sound, NEW w \in Workers, PullDisk(w)
    PROVE  Sound'
<1>1. CASE Goto(w, "convert") /\ UNCHANGED job
  <2>1. Tabled
    BY <1>1, Unmoved DEF PullDisk, Tabled, files
  <2> QED
    BY <1>1, <2>1, GotoMoves DEF PullDisk, Stages, Guarded
<1>2. ASSUME NEW b \in Bucket, Fail(w, b) PROVE Sound'
  BY <1>2, FailMoves, Unmoved DEF PullDisk, files
<1> QED
  BY <1>1, <1>2 DEF PullDisk

LEMMA SubmitPodSound ==
    ASSUME Sound, NEW w \in Workers, SubmitPod(w)
    PROVE  Sound'
<1>1. /\ worker[w] \in WorkRec /\ WorkOk(worker[w], log) /\ worker[w].job \in Jobs
      /\ worker \in [Workers -> WorkRec]
  BY Parts DEF SubmitPod
<1>2. PICK j \in Jobs, n \in Nat : j = worker[w].job /\ n = job[j].attempts
  BY <1>1, Parts DEF JobRec
<1>3. CASE /\ pods' = pods \cup {[job |-> j, num |-> n, state |-> "running"]}
           /\ output' = [output EXCEPT ![j] = "partial"]
           /\ worker' = [worker EXCEPT ![w].at = "wait", ![w].pod = n]
           /\ UNCHANGED job
  <2>1. pods' \subseteq PodRec /\ output' \in [Jobs -> {"none", "partial", "whole"}]
    BY <1>3, Parts DEF PodRec, Sound, TypeOK
  <2>2. Tabled
    BY <1>3, <2>1, Unmoved DEF SubmitPod, Tabled
  <2>3. PICK r : r = [worker[w] EXCEPT !.at = "wait", !.pod = n]
    OBVIOUS
  <2>4. r \in WorkRec /\ WorkOk(r, log')
    BY <1>1, <2>3 DEF WorkRec, WorkOk, Stages, Guarded, SubmitPod
  <2>5. worker' = [worker EXCEPT ![w] = r]
    BY <1>1, <1>3, <2>3
  <2> QED
    BY <2>2, <2>4, <2>5, WorkerSound DEF SubmitPod
<1>4. CASE Fail(w, "permanent") /\ UNCHANGED files
  BY <1>4, FailMoves, Unmoved DEF SubmitPod, files, Bucket
<1> QED
  BY <1>2, <1>3, <1>4 DEF SubmitPod

LEMMA CopyStagedSound ==
    ASSUME Sound, NEW w \in Workers, CopyStaged(w)
    PROVE  Sound'
<1>1. worker[w].job \in Jobs /\ output \in [Jobs -> {"none", "partial", "whole"}]
  BY Parts DEF CopyStaged, Sound, TypeOK
<1>2. output' \in [Jobs -> {"none", "partial", "whole"}]
  BY <1>1 DEF CopyStaged
<1>3. CASE Goto(w, "verify") /\ UNCHANGED job
  <2>1. Tabled
    BY <1>2, <1>3, Unmoved DEF CopyStaged, Tabled
  <2> QED
    BY <1>3, <2>1, GotoMoves DEF CopyStaged, Stages, Guarded
<1>4. CASE Fail(w, "permanent")
  BY <1>2, <1>4, FailMoves, Unmoved DEF CopyStaged, Bucket
<1> QED
  BY <1>3, <1>4 DEF CopyStaged

LEMMA WaitPodSound ==
    ASSUME Sound, NEW w \in Workers, WaitPod(w)
    PROVE  Sound'
<1>1. pods' \subseteq PodRec /\ spent' \in [Bounded -> Nat]
  BY Parts, SpendType, Unmoved DEF WaitPod, DeletePod, Bounded
<1>2. CASE LeavePod(w) /\ UNCHANGED job
  <2>1. Tabled
    BY <1>1, <1>2, Unmoved DEF WaitPod, Tabled
  <2>2. /\ worker[w] \in WorkRec /\ WorkOk(worker[w], log)
        /\ worker \in [Workers -> WorkRec]
    BY Parts
  <2>3. PICK r : r = [worker[w] EXCEPT !.at = "verify", !.pod = 0]
    OBVIOUS
  <2>4. r \in WorkRec /\ WorkOk(r, log')
    BY <2>2, <2>3 DEF WorkRec, WorkOk, Stages, Guarded, WaitPod
  <2>5. worker' = [worker EXCEPT ![w] = r]
    BY <2>2, <1>2, <2>3 DEF LeavePod
  <2> QED
    BY <2>1, <2>4, <2>5, WorkerSound DEF WaitPod
<1>3. ASSUME NEW b \in Bucket, Fail(w, b) PROVE Sound'
  BY <1>1, <1>3, FailMoves, Unmoved DEF WaitPod
<1> QED
  BY <1>2, <1>3 DEF WaitPod, Bucket

LEMMA VerifySound ==
    ASSUME Sound, NEW w \in Workers, Verify(w)
    PROVE  Sound'
<1>1. CASE SetJobStatus(worker[w].job, "READY") /\ Goto(w, "close")
  <2>1. /\ job' \in [Jobs -> JobRec] /\ \A k \in Jobs : job'[k].attempts = job[k].attempts
    BY <1>1, Parts, StatusType DEF Verify, ConversionStatus
  <2>2. Tabled
    BY <2>1, Unmoved DEF Verify, Tabled, files
  <2> QED
    BY <1>1, <2>2, GotoMoves DEF Verify, Stages, Guarded
<1>2. CASE Fail(w, "permanent")
  BY <1>2, FailMoves, Unmoved DEF Verify, files, Bucket
<1> QED
  BY <1>1, <1>2 DEF Verify

LEMMA CloseSound ==
    ASSUME Sound, NEW w \in Workers, NEW at \in {"close", "failed"},
           NEW final \in {"READY", "FAILED"}, CloseAttempt(w, at, final, "read")
    PROVE  Sound'
<1>1. /\ worker[w] \in WorkRec /\ WorkOk(worker[w], log) /\ worker[w].job \in Jobs
      /\ worker \in [Workers -> WorkRec] /\ log \in [Jobs -> Rows]
  BY Parts DEF CloseAttempt, Rows
<1>2. PICK j \in Jobs, n \in Nat : j = worker[w].job /\ n = worker[w].num
  BY <1>1 DEF WorkRec
<1>3. log' = [log EXCEPT ![j] = [log[j] EXCEPT ![n] = final]]
  BY <1>1, <1>2 DEF CloseAttempt
<1>4. [log[j] EXCEPT ![n] = final] \in Rows /\ Len([log[j] EXCEPT ![n] = final]) = Len(log[j])
  <2>1. PICK s \in Rows : s = log[j]
    BY <1>1
  <2>2. CASE n \in 1..Len(s)
    BY <2>1, <2>2, ExceptSeq DEF Rows
  <2>3. CASE n \notin 1..Len(s)
    <3>1. DOMAIN s = 1..Len(s) /\ s = [i \in 1..Len(s) |-> s[i]]
      BY LenProperties DEF Rows
    <3>2. [s EXCEPT ![n] = final] = s
      BY <2>3, <3>1
    <3> QED
      BY <2>1, <3>2
  <2> QED
    BY <2>2, <2>3
<1>5. /\ log' \in [Jobs -> Rows] /\ \A k \in Jobs : Len(log'[k]) = Len(log[k])
      /\ \A k \in Jobs : Len(log[k]) \in Nat
  BY <1>1, <1>3, <1>4 DEF Rows
<1>6. \A k \in Jobs : job'[k].attempts <= Len(log'[k])
  BY <1>5, Parts DEF CloseAttempt
<1>7. Tabled
  BY <1>5, <1>6, Unmoved DEF CloseAttempt, Tabled, files
<1>8. PICK r : r = [worker[w] EXCEPT !.at = "read", !.num = 0]
  OBVIOUS
<1>9. r \in WorkRec /\ r.at = "read" /\ r.num = 0 /\ r.job = j
  BY <1>1, <1>2, <1>8 DEF WorkRec, Stages
<1>10. WorkOk(r, log')
  BY <1>5, <1>9, ConstantsAssumption DEF WorkOk
<1>11. worker' = [worker EXCEPT ![w] = r]
  BY <1>1, <1>8 DEF CloseAttempt
<1> QED
  BY <1>7, <1>9, <1>10, <1>11, WorkerSound DEF CloseAttempt

LEMMA AggregateType == Aggregate \in GroupStatus
  BY DEF Aggregate, GroupStatus, FailedGroup

LEMMA ReadGroupSound ==
    ASSUME Sound, NEW w \in Workers, ReadGroup(w)
    PROVE  Sound'
<1>1. /\ worker[w] \in WorkRec /\ WorkOk(worker[w], log)
      /\ worker \in [Workers -> WorkRec] /\ group \in GroupStatus
  BY Parts DEF Sound, TypeOK
<1>2. Tabled
  BY Unmoved DEF ReadGroup, Tabled, files, tables
<1>3. PICK g, a \in GroupStatus : g = group /\ a = Aggregate
  BY <1>1, AggregateType
<1>4. PICK r : r = [worker[w] EXCEPT !.at = "write", !.group = g, !.agg = a]
  OBVIOUS
<1>5. r \in WorkRec /\ WorkOk(r, log')
  BY <1>1, <1>3, <1>4 DEF WorkRec, WorkOk, Stages, Guarded, ReadGroup, tables
<1>6. worker' = [worker EXCEPT ![w] = r]
  BY <1>1, <1>3, <1>4 DEF ReadGroup
<1> QED
  BY <1>2, <1>5, <1>6, WorkerSound DEF ReadGroup

LEMMA WriteAggregateSound ==
    ASSUME Sound, NEW w \in Workers, WriteAggregate(w)
    PROVE  Sound'
<1>1. /\ worker[w] \in WorkRec /\ WorkOk(worker[w], log)
      /\ worker \in [Workers -> WorkRec] /\ group \in GroupStatus
  BY Parts DEF Sound, TypeOK
<1>2. group' \in GroupStatus
  BY <1>1 DEF WriteAggregate, WriteGroup, WorkOk
<1>3. Tabled
  BY <1>2, Unmoved DEF WriteAggregate, Tabled, files
<1>4. CASE Finish(w)
  BY <1>3, <1>4, FinishMoves DEF WriteAggregate
<1>5. CASE worker' = [worker EXCEPT ![w].at = "decide", ![w].failed = FALSE,
                                    ![w].group = None, ![w].agg = None]
  <2>1. PICK r : r = [worker[w] EXCEPT !.at = "decide", !.failed = FALSE,
                                       !.group = None, !.agg = None]
    OBVIOUS
  <2>2. r \in WorkRec /\ WorkOk(r, log')
    BY <1>1, <2>1 DEF WorkRec, WorkOk, Stages, Guarded, WriteAggregate
  <2>3. worker' = [worker EXCEPT ![w] = r]
    BY <1>1, <1>5, <2>1
  <2> QED
    BY <1>3, <2>2, <2>3, WorkerSound DEF WriteAggregate
<1> QED
  BY <1>4, <1>5 DEF WriteAggregate

LEMMA DecideRetrySound ==
    ASSUME Sound, NEW w \in Workers, DecideRetry(w)
    PROVE  Sound'
<1>1. /\ worker[w] \in WorkRec /\ WorkOk(worker[w], log) /\ worker[w].job \in Jobs
      /\ worker \in [Workers -> WorkRec]
  BY Parts DEF DecideRetry
<1>2. CASE /\ worker[w].retries < MaxRetries
           /\ SetJobStatus(worker[w].job, "RETRYING") /\ Goto(w, "publish")
  <2>1. /\ job' \in [Jobs -> JobRec] /\ \A k \in Jobs : job'[k].attempts = job[k].attempts
    BY <1>1, <1>2, StatusType DEF ConversionStatus, InFlight
  <2>2. Tabled
    BY <2>1, Unmoved DEF DecideRetry, Tabled, files
  <2>3. PICK r : r = [worker[w] EXCEPT !.at = "publish"]
    OBVIOUS
  <2>4. r \in WorkRec /\ WorkOk(r, log')
    BY <1>1, <1>2, <2>3 DEF WorkRec, WorkOk, Stages, Guarded, DecideRetry
  <2>5. worker' = [worker EXCEPT ![w] = r]
    BY <1>1, <1>2, <2>3 DEF Goto
  <2> QED
    BY <2>2, <2>4, <2>5, WorkerSound DEF DecideRetry
<1>3. CASE Finish(w) /\ UNCHANGED job
  <2>1. Tabled
    BY <1>3, Unmoved DEF DecideRetry, Tabled, files
  <2> QED
    BY <1>3, <2>1, FinishMoves DEF DecideRetry
<1> QED
  BY <1>2, <1>3 DEF DecideRetry

LEMMA PublishRetrySound ==
    ASSUME Sound, NEW w \in Workers, PublishRetry(w)
    PROVE  Sound'
<1>1. /\ worker[w] \in WorkRec /\ WorkOk(worker[w], log) /\ worker[w].job \in Jobs
  BY Parts DEF PublishRetry
<1>2. worker[w].retries + 1 \in 0..MaxRetries
  <2>1. worker[w].retries \in 0..MaxRetries /\ worker[w].retries < MaxRetries
    BY <1>1 DEF PublishRetry, WorkOk, WorkRec
  <2> QED
    BY <2>1, ConstantsAssumption
<1>3. queue' \in [Messages -> Nat] /\ spent' \in [Bounded -> Nat]
  BY <1>1, <1>2, PublishType, SpendType, Unmoved DEF PublishRetry, Bounded
<1>4. Tabled
  BY <1>3, Unmoved DEF PublishRetry, Tabled, files, tables
<1> QED
  BY <1>4, FinishMoves DEF PublishRetry

LEMMA AckSound ==
    ASSUME Sound, NEW w \in Workers, Ack(w)
    PROVE  Sound'
<1>1. Tabled
  BY Unmoved DEF Ack, Tabled, files, tables
<1> QED
  BY <1>1, LeaveMoves DEF Ack

LEMMA ReceiveSound ==
    ASSUME Sound, NEW w \in Workers, NEW j \in Jobs, NEW n \in 0..MaxRetries, Receive(w, j, n)
    PROVE  Sound'
<1>1. /\ <<j, n>> \in Messages /\ queue \in [Messages -> Nat] /\ queue[<<j, n>>] > 0
      /\ job[j] \in JobRec /\ job[j].attempts <= Len(log[j])
      /\ worker \in [Workers -> WorkRec] /\ log \in [Jobs -> Rows]
  BY Parts DEF Messages, Receive, Rows
<1>2. queue' \in [Messages -> Nat]
  BY <1>1 DEF Receive
<1>3. Tabled
  BY <1>2, Unmoved DEF Receive, Tabled, files, tables
<1>4. CASE worker' = worker
  <2>1. PICK r : r = worker[w]
    OBVIOUS
  <2>2. worker' = [worker EXCEPT ![w] = r] /\ r \in WorkRec
    BY <1>1, <1>4, <2>1
  <2>3. WorkOk(r, log')
    BY <2>1, Parts DEF Receive, tables
  <2> QED
    BY <1>3, <2>2, <2>3, WorkerSound DEF Receive
<1>5. CASE worker' = [worker EXCEPT ![w] = [IdleWorker EXCEPT
                          !.at = "attempt", !.job = j, !.retries = n,
                          !.num = job[j].attempts + 1]]
  <2>1. PICK r : r = [IdleWorker EXCEPT !.at = "attempt", !.job = j, !.retries = n,
                                        !.num = job[j].attempts + 1]
    OBVIOUS
  <2>2. job[j].attempts + 1 \in Nat /\ job[j].attempts + 1 <= Len(log[j]) + 1
    BY <1>1 DEF JobRec, Rows
  <2>3. r \in WorkRec
    BY <2>1, <2>2, IdleTypes DEF WorkRec, IdleWorker, Stages
  <2>4. WorkOk(r, log')
    BY <2>1, <2>2, ConstantsAssumption DEF WorkOk, IdleWorker, Receive, tables
  <2>5. worker' = [worker EXCEPT ![w] = r]
    BY <1>5, <2>1
  <2> QED
    BY <1>3, <2>3, <2>4, <2>5, WorkerSound DEF Receive
<1> QED
  BY <1>4, <1>5 DEF Receive

LEMMA TimeLimitSound ==
    ASSUME Sound, NEW w \in Workers, TimeLimit(w)
    PROVE  Sound'
<1>1. worker[w].job \in Jobs /\ spent' \in [Bounded -> Nat] /\ pods' \subseteq PodRec
  BY Parts, SpendType DEF TimeLimit, Bounded
<1>2. CASE worker[w].at \in Guarded /\ Fail(w, "permanent")
  <2>1. output' \in [Jobs -> {"none", "partial", "whole"}]
    BY Unmoved DEF TimeLimit
  <2> QED
    BY <1>1, <1>2, <2>1, FailMoves DEF TimeLimit, Guarded, Bucket
<1>3. CASE SetFailed(worker[w].job, "permanent") /\ Finish(w)
  <2>1. /\ job' \in [Jobs -> JobRec] /\ \A k \in Jobs : job'[k].attempts = job[k].attempts
    BY <1>1, <1>3, FailedType DEF Bucket
  <2>2. Tabled
    BY <1>1, <2>1, Unmoved DEF TimeLimit, Tabled
  <2> QED
    BY <1>3, <2>2, FinishMoves DEF TimeLimit
<1>4. CASE Finish(w) /\ UNCHANGED <<job, pods>>
  <2>1. Tabled
    BY <1>1, <1>4, Unmoved DEF TimeLimit, Tabled
  <2> QED
    BY <1>4, <2>1, FinishMoves DEF TimeLimit
<1> QED
  BY <1>2, <1>3, <1>4 DEF TimeLimit

LEMMA ReturnedSound ==
    ASSUME Sound, NEW w \in Workers, Crash(w) \/ Redeliver(w)
    PROVE  Sound'
<1>1. /\ worker[w] \in WorkRec /\ WorkOk(worker[w], log) /\ worker[w].job \in Jobs
      /\ worker \in [Workers -> WorkRec]
  BY Parts DEF Crash, Redeliver
<1>2. worker[w].retries \in 0..MaxRetries
  BY <1>1 DEF WorkRec
<1>3. queue' \in [Messages -> Nat] /\ spent' \in [Bounded -> Nat]
  BY <1>1, <1>2, PublishType, SpendType DEF Crash, Redeliver, Bounded
<1>4. Tabled
  BY <1>3, Unmoved DEF Crash, Redeliver, Tabled, files, tables
<1>5. CASE Crash(w)
  BY <1>4, <1>5, LeaveMoves DEF Crash
<1>6. CASE Redeliver(w)
  <2>1. PICK r \in WorkRec : r = worker[w]
    BY <1>1
  <2> QED
    BY <1>1, <1>4, <1>6, <2>1, WorkerSound DEF Redeliver, tables
<1> QED
  BY <1>5, <1>6

LEMMA PodEndsSound ==
    ASSUME Sound, NEW p \in pods, PodEnds(p)
    PROVE  Sound'
<1>1. p \in PodRec /\ pods \subseteq PodRec
  BY Parts
<1>2. pods' \subseteq PodRec
  BY <1>1 DEF PodEnds, PodRec
<1>3. output' \in [Jobs -> {"none", "partial", "whole"}]
  <2>1. output \in [Jobs -> {"none", "partial", "whole"}] /\ p.job \in Jobs
    BY <1>1 DEF Sound, TypeOK, PodRec
  <2> QED
    BY <2>1 DEF PodEnds
<1>4. TypeOK'
  BY <1>2, <1>3 DEF PodEnds, Sound, TypeOK, tables, PodRec
<1> QED
  BY <1>4 DEF PodEnds, Sound, Linked, tables

-----------------------------------------------------------------------------
(* The steps of a request.                                                  *)
LEMMA RequestSound ==
    ASSUME Sound, NEW c \in Clients, NEW r \in ReqRec, ReqOk(r),
           request' = [request EXCEPT ![c] = r],
           job' \in [Jobs -> JobRec], \A j \in Jobs : job'[j].attempts <= job[j].attempts,
           group' \in GroupStatus, queue' \in [Messages -> Nat], spent' \in [Bounded -> Nat],
           UNCHANGED <<log, files, worker>>
    PROVE  Sound'
<1>1. /\ request' \in [Clients -> ReqRec] /\ request'[c] = r
      /\ \A d \in Clients \ {c} : request'[d] = request[d]
  BY RequestBecomes
<1>2. TypeOK'
  BY <1>1, Parts DEF Sound, TypeOK, JobRec, PodRec, WorkRec, ReqRec, Bounded, files
<1>3. \A d \in Clients : ReqOk(request'[d])
  BY <1>1, Parts
<1>4. ASSUME NEW j \in Jobs PROVE job'[j].attempts <= Len(log[j])
  <2>1. /\ job[j].attempts \in Nat /\ job'[j].attempts \in Nat /\ Len(log[j]) \in Nat
        /\ job[j].attempts <= Len(log[j]) /\ job'[j].attempts <= job[j].attempts
    BY Parts DEF JobRec
  <2> QED
    BY <2>1
<1>5. Linked'
  BY <1>3, <1>4, Parts DEF Linked
<1> QED
  BY <1>2, <1>5 DEF Sound

LEMMA Still ==
    ASSUME Sound
    PROVE  /\ job' = job => /\ job' \in [Jobs -> JobRec]
                            /\ \A j \in Jobs : job'[j].attempts <= job[j].attempts
           /\ group' = group => group' \in GroupStatus
<1>1. \A j \in Jobs : job[j].attempts \in Nat
  BY Parts DEF JobRec
<1>2. ASSUME job' = job
      PROVE  job' \in [Jobs -> JobRec] /\ \A j \in Jobs : job'[j].attempts <= job[j].attempts
  BY <1>1, <1>2, Parts
<1>3. group \in GroupStatus
  BY DEF Sound, TypeOK
<1> QED
  BY <1>2, <1>3

LEMMA EnqueueSound ==
    ASSUME Sound, NEW c \in Clients, NEW j \in Jobs, Enqueue(c, j)
    PROVE  Sound'
<1>1. request[c] \in ReqRec /\ ReqOk(request[c]) /\ request \in [Clients -> ReqRec]
  BY Parts
<1>2. PICK r : /\ request' = [request EXCEPT ![c] = r]
               /\ \/ r = IdleRequest
                  \/ r = [request[c] EXCEPT !.todo = @ \ {j}]
                  \/ r = [request[c] EXCEPT !.at = "unqueue", !.todo = Jobs]
  <2>1. PICK a, b, d : /\ a = IdleRequest
                       /\ b = [request[c] EXCEPT !.todo = @ \ {j}]
                       /\ d = [request[c] EXCEPT !.at = "unqueue", !.todo = Jobs]
    OBVIOUS
  <2>2. \/ request' = [request EXCEPT ![c] = a]
        \/ request' = [request EXCEPT ![c] = b]
        \/ request' = [request EXCEPT ![c] = d]
    <3>1. CASE request' = [request EXCEPT ![c] =
                IF @.todo = {j} THEN IdleRequest
                ELSE [request[c] EXCEPT !.todo = @ \ {j}]]
      <4>1. CASE request[c].todo = {j}
        BY <2>1, <3>1, <4>1
      <4>2. CASE request[c].todo # {j}
        BY <2>1, <3>1, <4>2
      <4> QED
        BY <4>1, <4>2
    <3>2. CASE request' = [request EXCEPT ![c].at = "unqueue", ![c].todo = Jobs]
      BY <1>1, <2>1, <3>2
    <3> QED
      BY <3>1, <3>2 DEF Enqueue
  <2> QED
    BY <2>1, <2>2
<1>3. r \in ReqRec /\ ReqOk(r)
  BY <1>1, <1>2, IdleTypes DEF ReqRec, ReqOk, Enqueue
<1>4. queue' \in [Messages -> Nat] /\ spent' \in [Bounded -> Nat]
  <2>1. 0 \in 0..MaxRetries
    BY ConstantsAssumption
  <2> QED
    BY <2>1, PublishType, SpendType, Unmoved DEF Enqueue, Bounded
<1> QED
  BY <1>2, <1>3, <1>4, RequestSound, Still DEF Enqueue, tables

LEMMA UnqueueSound ==
    ASSUME Sound, NEW c \in Clients, NEW j \in Jobs, Unqueue(c, j)
    PROVE  Sound'
<1>1. request[c] \in ReqRec /\ ReqOk(request[c]) /\ request \in [Clients -> ReqRec]
  BY Parts
<1>2. PICK r : /\ request' = [request EXCEPT ![c] = r]
               /\ r = [request[c] EXCEPT !.todo = @ \ {j},
                          !.at = IF request[c].todo = {j} THEN "ungroup" ELSE "unqueue"]
  BY <1>1 DEF Unqueue
<1>3. r \in ReqRec /\ ReqOk(r)
  BY <1>1, <1>2 DEF ReqRec, ReqOk, Unqueue
<1>4. /\ job' \in [Jobs -> JobRec] /\ \A k \in Jobs : job'[k].attempts = job[k].attempts
  BY StatusType DEF Unqueue, ConversionStatus
<1>5. \A k \in Jobs : job'[k].attempts <= job[k].attempts
  BY <1>4, Parts DEF JobRec
<1> QED
  BY <1>2, <1>3, <1>4, <1>5, RequestSound, Still, Unmoved DEF Unqueue

LEMMA CancelSound ==
    ASSUME Sound, NEW c \in Clients,
           \/ CancelBegin(c) \/ RetryBegin(c) \/ Ungroup(c) \/ CancelGroup(c)
           \/ \E j \in Jobs : CancelTest(c, j)
    PROVE  Sound'
<1>1. request[c] \in ReqRec /\ ReqOk(request[c]) /\ request \in [Clients -> ReqRec]
  BY Parts
<1>2. CASE CancelBegin(c) \/ RetryBegin(c)
  <2>1. PICK at \in {"cancel", "retry"} :
            request' = [request EXCEPT ![c].at = at, ![c].todo = Jobs]
    BY <1>2 DEF CancelBegin, RetryBegin
  <2>2. PICK r : r = [request[c] EXCEPT !.at = at, !.todo = Jobs]
    OBVIOUS
  <2>3. r \in ReqRec /\ ReqOk(r) /\ request' = [request EXCEPT ![c] = r]
    BY <1>1, <1>2, <2>1, <2>2 DEF ReqRec, ReqOk, CancelBegin, RetryBegin
  <2>4. spent' \in [Bounded -> Nat]
    BY <1>2, SpendType DEF CancelBegin, RetryBegin, Bounded
  <2> QED
    BY <1>2, <2>3, <2>4, RequestSound, Still, Unmoved DEF CancelBegin, RetryBegin, tables
<1>3. CASE Ungroup(c) \/ CancelGroup(c)
  <2>1. group' \in GroupStatus /\ UNCHANGED <<job, log, files, queue, worker, spent>>
        /\ request' = [request EXCEPT ![c] = IdleRequest]
    BY <1>3 DEF Ungroup, CancelGroup, WriteGroup, Respond, GroupStatus, FailedGroup, Sound, TypeOK
  <2> QED
    BY <2>1, RequestSound, Still, Unmoved, IdleTypes
<1>4. ASSUME NEW j \in Jobs, CancelTest(c, j) PROVE Sound'
  <2>1. PICK at \in {"read", "cancel"}, mark \in Jobs \cup {None} :
            /\ at = "read" => mark = None
            /\ request' = [request EXCEPT ![c].todo = request[c].todo \ {j},
                                          ![c].mark = mark, ![c].at = at]
    BY <1>4 DEF CancelTest
  <2>2. PICK r : r = [request[c] EXCEPT !.todo = request[c].todo \ {j}, !.mark = mark, !.at = at]
    OBVIOUS
  <2>3. request' = [request EXCEPT ![c] = r]
    BY <1>1, <2>1, <2>2
  <2>4. request[c].ids = {}
    BY <1>1, <1>4 DEF CancelTest, ReqOk
  <2>5. r \in ReqRec /\ r.ids = {} /\ r.at # "write" /\ (r.at = "read" => r.mark = None)
        /\ r.at \in {"read", "cancel"}
    BY <1>1, <2>1, <2>2, <2>4 DEF ReqRec
  <2> QED
    BY <1>4, <2>3, <2>5, RequestSound, Still, Unmoved DEF CancelTest, tables, ReqOk
<1> QED
  BY <1>2, <1>3, <1>4

LEMMA MarkSound ==
    ASSUME Sound, NEW c \in Clients, CancelMark(c) \/ RetryMark(c)
    PROVE  Sound'
<1>1. request[c] \in ReqRec /\ ReqOk(request[c]) /\ request \in [Clients -> ReqRec]
  BY Parts
<1>2. PICK at \in {"cancel", "retry"}, s \in {"CANCELLED", "RETRYING"} : MarkJob(c, at, s)
  BY DEF CancelMark, RetryMark
<1>3. PICK j \in Jobs : j = request[c].mark
  BY <1>1, <1>2 DEF ReqRec, MarkJob
<1>4. /\ job' \in [Jobs -> JobRec] /\ \A k \in Jobs : job'[k].attempts = job[k].attempts
  BY <1>2, <1>3, StatusType DEF MarkJob, ConversionStatus, InFlight
<1>5. \A k \in Jobs : job'[k].attempts <= job[k].attempts
  BY <1>4, Parts DEF JobRec
<1>6. PICK r : /\ request' = [request EXCEPT ![c] = r]
               /\ r = [request[c] EXCEPT !.mark = None,
                          !.at = IF request[c].todo = {} THEN "read" ELSE at]
  BY <1>1, <1>2 DEF MarkJob
<1>7. r \in ReqRec /\ ReqOk(r)
  BY <1>1, <1>2, <1>6 DEF ReqRec, ReqOk, MarkJob
<1> QED
  BY <1>2, <1>4, <1>5, <1>6, <1>7, RequestSound, Still, Unmoved DEF MarkJob

LEMMA RetryClearSound ==
    ASSUME Sound, NEW c \in Clients, NEW j \in Jobs, RetryClear(c, j)
    PROVE  Sound'
<1>1. request[c] \in ReqRec /\ ReqOk(request[c]) /\ request \in [Clients -> ReqRec]
  BY Parts
<1>2. PICK todo, ids \in SUBSET Jobs, mark \in Jobs \cup {None}, at \in {"read", "retry"} :
         /\ at = "read" => mark = None
         /\ request' = [request EXCEPT ![c] =
               IF ids = {} /\ todo = {} THEN IdleRequest
               ELSE [@ EXCEPT !.todo = todo, !.ids = ids, !.mark = mark, !.at = at]]
  <2>1. request[c].todo \ {j} \in SUBSET Jobs
    BY <1>1 DEF ReqRec
  <2>2. /\ request[c].ids \cup {j} \in SUBSET Jobs /\ request[c].ids \in SUBSET Jobs
    BY <1>1 DEF ReqRec
  <2>3. CASE job[j].status = "FAILED"
    <3>1. request' = [request EXCEPT ![c] =
               IF request[c].ids \cup {j} = {} /\ request[c].todo \ {j} = {} THEN IdleRequest
               ELSE [@ EXCEPT !.todo = request[c].todo \ {j}, !.ids = request[c].ids \cup {j},
                              !.mark = j, !.at = "retry"]]
      BY <2>3 DEF RetryClear
    <3> QED
      BY <2>1, <2>2, <3>1
  <2>4. CASE job[j].status # "FAILED"
    <3>1. PICK at \in {"read", "retry"} :
              at = IF request[c].todo \ {j} = {} THEN "read" ELSE "retry"
      OBVIOUS
    <3>2. request' = [request EXCEPT ![c] =
               IF request[c].ids = {} /\ request[c].todo \ {j} = {} THEN IdleRequest
               ELSE [@ EXCEPT !.todo = request[c].todo \ {j}, !.ids = request[c].ids,
                              !.mark = None, !.at = at]]
      BY <2>4, <3>1 DEF RetryClear
    <3> QED
      BY <2>1, <2>2, <3>2
  <2> QED
    BY <2>3, <2>4
<1>3. PICK r : r = IF ids = {} /\ todo = {} THEN IdleRequest
                   ELSE [request[c] EXCEPT !.todo = todo, !.ids = ids, !.mark = mark, !.at = at]
  OBVIOUS
<1>4. r \in ReqRec /\ ReqOk(r) /\ request' = [request EXCEPT ![c] = r]
  BY <1>1, <1>2, <1>3, IdleTypes DEF ReqRec, ReqOk
<1>5. /\ job' \in [Jobs -> JobRec] /\ \A k \in Jobs : job'[k].attempts <= job[k].attempts
  <2>1. job \in [Jobs -> JobRec] /\ job[j] \in JobRec /\ \A k \in Jobs : job[k].attempts \in Nat
    BY Parts DEF JobRec
  <2>2. CASE job' = job
    BY <2>1, <2>2
  <2>3. CASE job[j].status = "FAILED"
    <3>1. PICK n \in Nat : n = IF ResetAttempts THEN 0 ELSE job[j].attempts
      BY <2>1
    <3>2. job' = [job EXCEPT ![j] = [job[j] EXCEPT !.error = None, !.attempts = n]]
      BY <2>1, <2>3, <3>1 DEF RetryClear
    <3>3. [job[j] EXCEPT !.error = None, !.attempts = n] \in JobRec
      BY <2>1, <3>1 DEF JobRec
    <3>4. job' \in [Jobs -> JobRec]
      BY <2>1, <3>2, <3>3
    <3>5. job'[j].attempts = n /\ n <= job[j].attempts
      BY <2>1, <3>1, <3>2, <3>3 DEF JobRec
    <3> QED
      BY <2>1, <3>2, <3>4, <3>5
  <2> QED
    BY <2>2, <2>3 DEF RetryClear
<1> QED
  BY <1>4, <1>5, RequestSound, Still, Unmoved DEF RetryClear

LEMMA RetryPublishSound ==
    ASSUME Sound, NEW c \in Clients, NEW j \in Jobs, RetryPublish(c, j)
    PROVE  Sound'
<1>1. request[c] \in ReqRec /\ ReqOk(request[c]) /\ request \in [Clients -> ReqRec]
  BY Parts
<1>2. PICK r : /\ request' = [request EXCEPT ![c] = r]
               /\ \/ r = IdleRequest
                  \/ r = [request[c] EXCEPT !.ids = @ \ {j}]
  <2>1. PICK a, b : a = IdleRequest /\ b = [request[c] EXCEPT !.ids = @ \ {j}]
    OBVIOUS
  <2>2. request' = [request EXCEPT ![c] = a] \/ request' = [request EXCEPT ![c] = b]
    <3>1. CASE request' = [request EXCEPT ![c] =
                IF @.ids = {j} THEN IdleRequest
                ELSE [request[c] EXCEPT !.ids = @ \ {j}]]
      <4>1. CASE request[c].ids = {j}
        BY <2>1, <3>1, <4>1
      <4>2. CASE request[c].ids # {j}
        BY <2>1, <3>1, <4>2
      <4> QED
        BY <4>1, <4>2
    <3>2. CASE Respond(c)
      BY <2>1, <3>2 DEF Respond
    <3> QED
      BY <3>1, <3>2 DEF RetryPublish
  <2> QED
    BY <2>1, <2>2
<1>3. r \in ReqRec /\ ReqOk(r)
  BY <1>1, <1>2, IdleTypes DEF ReqRec, ReqOk, RetryPublish
<1>4. queue' \in [Messages -> Nat] /\ spent' \in [Bounded -> Nat]
  <2>1. 0 \in 0..MaxRetries
    BY ConstantsAssumption
  <2> QED
    BY <2>1, PublishType, SpendType, Unmoved DEF RetryPublish, Bounded
<1> QED
  BY <1>2, <1>3, <1>4, RequestSound, Still DEF RetryPublish, tables

LEMMA RecomputeSound ==
    ASSUME Sound, NEW c \in Clients, RequestRead(c) \/ RequestWrite(c)
    PROVE  Sound'
<1>1. /\ request[c] \in ReqRec /\ ReqOk(request[c]) /\ request \in [Clients -> ReqRec]
      /\ group \in GroupStatus
  BY Parts DEF Sound, TypeOK
<1>2. CASE RequestRead(c)
  <2>1. PICK g, a \in GroupStatus : g = group /\ a = Aggregate
    BY <1>1, AggregateType
  <2>2. PICK r : r = [request[c] EXCEPT !.at = "write", !.group = g, !.agg = a]
    OBVIOUS
  <2>3. r \in ReqRec /\ ReqOk(r) /\ request' = [request EXCEPT ![c] = r]
    BY <1>1, <1>2, <2>1, <2>2 DEF ReqRec, ReqOk, RequestRead
  <2> QED
    BY <1>2, <2>3, RequestSound, Still, Unmoved DEF RequestRead, tables
<1>3. CASE RequestWrite(c)
  <2>1. group' \in GroupStatus
    BY <1>1, <1>3 DEF RequestWrite, WriteGroup, ReqOk
  <2>2. PICK at \in {"cancelled", "publish"}, g \in GroupStatus \cup {None} :
            /\ request[c].ids = {} <=> at = "cancelled"
            /\ request' = [request EXCEPT ![c].agg = None, ![c].group = g, ![c].at = at]
    BY <1>3, <2>1 DEF RequestWrite
  <2>3. PICK r : r = [request[c] EXCEPT !.agg = None, !.group = g, !.at = at]
    OBVIOUS
  <2>4. request[c].mark = None
    BY <1>1, <1>3 DEF RequestWrite, ReqOk
  <2>5. r \in ReqRec /\ ReqOk(r) /\ request' = [request EXCEPT ![c] = r]
    BY <1>1, <2>2, <2>3, <2>4 DEF ReqRec, ReqOk
  <2> QED
    BY <1>3, <2>1, <2>5, RequestSound, Still, Unmoved DEF RequestWrite
<1> QED
  BY <1>2, <1>3

-----------------------------------------------------------------------------
LEMMA InitSound == Init => Sound
<1> SUFFICES ASSUME Init PROVE Sound
  OBVIOUS
<1>1. \A c \in Clients : request[c] \in ReqRec /\ ReqOk(request[c])
  BY IdleTypes DEF Init, ReqRec, ReqOk, IdleRequest
<1>2. \A w \in Workers : worker[w] \in WorkRec /\ WorkOk(worker[w], log)
  BY IdleTypes DEF Init
<1>3. /\ job \in [Jobs -> JobRec] /\ log \in [Jobs -> Rows] /\ group \in GroupStatus
      /\ spent \in [Bounded -> Nat] /\ queue \in [Messages -> Nat]
      /\ output \in [Jobs -> {"none", "partial", "whole"}] /\ pods \subseteq PodRec
  BY EmptySeq DEF Init, JobRec, ConversionStatus, InFlight, Rows, GroupStatus, Bounded
<1>4. worker \in [Workers -> WorkRec] /\ request \in [Clients -> ReqRec]
  BY <1>1, <1>2 DEF Init
<1>5. TypeOK
  BY <1>3, <1>4 DEF TypeOK, JobRec, PodRec, WorkRec, ReqRec, Bounded, Rows
<1>6. \A j \in Jobs : job[j].attempts <= Len(log[j])
  BY EmptySeq DEF Init
<1> QED
  BY <1>1, <1>2, <1>5, <1>6 DEF Sound, Linked

LEMMA WorkerStepSound ==
    ASSUME Sound, NEW w \in Workers, WorkerStep(w) \/ Progress(w)
    PROVE  Sound'
  BY CreateAttemptSound, CountAttemptSound, StagesSound, PullDiskSound, SubmitPodSound,
     CopyStagedSound, WaitPodSound, VerifySound, CloseSound, ReadGroupSound,
     WriteAggregateSound, DecideRetrySound, PublishRetrySound, AckSound
  DEF WorkerStep, CloseReady, CloseFailed

LEMMA StepSound == Sound /\ [Next]_vars => Sound'
<1> SUFFICES ASSUME Sound, [Next]_vars PROVE Sound'
  OBVIOUS
<1>1. ASSUME NEW c \in Clients, HandlerStep(c) \/ CancelBegin(c) \/ RetryBegin(c)
      PROVE  Sound'
  BY <1>1, EnqueueSound, UnqueueSound, CancelSound, MarkSound, RetryClearSound,
     RetryPublishSound, RecomputeSound DEF HandlerStep
<1>2. ASSUME NEW w \in Workers, NEW msg \in Messages, Receive(w, msg[1], msg[2])
      PROVE  Sound'
  BY <1>2, ReceiveSound DEF Messages
<1>3. ASSUME NEW w \in Workers, WorkerStep(w) \/ Progress(w) \/ TimeLimit(w) \/ Crash(w)
                                \/ Redeliver(w)
      PROVE  Sound'
  BY <1>3, WorkerStepSound, TimeLimitSound, ReturnedSound
<1>4. ASSUME NEW p \in pods, PodEnds(p) PROVE Sound'
  BY <1>4, PodEndsSound
<1>5. CASE UNCHANGED vars
  BY <1>5 DEF vars, tables, files, Sound, TypeOK, Linked
<1> QED
  BY <1>1, <1>2, <1>3, <1>4, <1>5 DEF Next, Rest

(* The tables, the broker, the workers and the requests have their types.   *)
THEOREM TypeCorrect == Spec => []TypeOK
<1>1. Sound /\ [Next]_vars => Sound'
  BY StepSound
<1>2. Sound => TypeOK
  BY DEF Sound
<1> QED
  BY <1>1, <1>2, InitSound, PTL DEF Spec

-----------------------------------------------------------------------------
(* THE ACCOUNT OF THE DELIVERIES                                           *)

(* A client that is about to publish a job, or may still decide to.         *)
Owes(r, j) ==
    \/ r.at = "enqueue" /\ j \in r.todo
    \/ r.at = "retry" /\ j \in r.todo \cup r.ids
    \/ r.at \in {"read", "write", "publish"} /\ j \in r.ids
Debt(j) == {c \in Clients : Owes(request[c], j)}

(* Each delivery of a job is with a worker, in the broker or with a client. *)
Accounted ==
    \A j \in Jobs :
        /\ IsFiniteSet(Busy(j)) /\ IsFiniteSet(Copies(j)) /\ IsFiniteSet(Debt(j))
        /\ Cardinality(Busy(j)) + Cardinality(Copies(j)) + Cardinality(Debt(j))
               <= 1 + spent["retry"] + spent["redeliver"] + spent["unacked"]

(* Finite sets that shrink, lose an element or gain one.                    *)
LEMMA SetShrinks ==
    ASSUME NEW S, NEW T, IsFiniteSet(S), T \subseteq S
    PROVE  /\ IsFiniteSet(T) /\ Cardinality(T) <= Cardinality(S)
           /\ Cardinality(T) \in Nat /\ Cardinality(S) \in Nat
  BY FS_Subset, FS_CardinalityType

LEMMA SetLoses ==
    ASSUME NEW S, NEW T, NEW x \in S, IsFiniteSet(S), T \subseteq S \ {x}
    PROVE  /\ IsFiniteSet(T) /\ Cardinality(T) + 1 <= Cardinality(S)
           /\ Cardinality(T) \in Nat /\ Cardinality(S) \in Nat
<1>1. IsFiniteSet(S \ {x}) /\ Cardinality(S \ {x}) = Cardinality(S) - 1
  BY FS_RemoveElement
<1> QED
  BY <1>1, SetShrinks, FS_CardinalityType

LEMMA SetGains ==
    ASSUME NEW S, NEW T, NEW x, IsFiniteSet(S), T \subseteq S \cup {x}
    PROVE  /\ IsFiniteSet(T) /\ Cardinality(T) <= Cardinality(S) + 1
           /\ Cardinality(T) \in Nat /\ Cardinality(S) \in Nat
<1>1. IsFiniteSet(S \cup {x}) /\ Cardinality(S \cup {x}) <= Cardinality(S) + 1
  <2>1. Cardinality(S) \in Nat
    BY FS_CardinalityType
  <2>2. /\ IsFiniteSet(S \cup {x})
        /\ Cardinality(S \cup {x}) =
               IF x \in S THEN Cardinality(S) ELSE Cardinality(S) + 1
    BY FS_AddElement
  <2> QED
    BY <2>1, <2>2
<1> QED
  BY <1>1, SetShrinks, FS_CardinalityType

(* The copies of a job's messages when the queue is q.                      *)
CopiesIn(q, j) == UNION {{n} \X (1..q[<<j, n>>]) : n \in 0..MaxRetries}

LEMMA CopiesMembers ==
    ASSUME NEW q \in [Messages -> Nat], NEW j \in Jobs, NEW x
    PROVE  x \in CopiesIn(q, j)
             <=> \E n \in 0..MaxRetries, i \in Nat :
                     x = <<n, i>> /\ 1 <= i /\ i <= q[<<j, n>>]
<1>1. \A n \in 0..MaxRetries : q[<<j, n>>] \in Nat
  BY DEF Messages
<1>2. ASSUME NEW n \in 0..MaxRetries, NEW i \in Nat, x = <<n, i>>, 1 <= i, i <= q[<<j, n>>]
      PROVE  x \in CopiesIn(q, j)
  <2>1. x \in {n} \X (1..q[<<j, n>>])
    BY <1>1, <1>2
  <2> QED
    BY <2>1 DEF CopiesIn
<1>3. ASSUME x \in CopiesIn(q, j)
      PROVE  \E n \in 0..MaxRetries, i \in Nat : x = <<n, i>> /\ 1 <= i /\ i <= q[<<j, n>>]
  <2>1. PICK n \in 0..MaxRetries : x \in {n} \X (1..q[<<j, n>>])
    BY <1>3 DEF CopiesIn
  <2>2. PICK i \in 1..q[<<j, n>>] : x = <<n, i>>
    BY <2>1
  <2> QED
    BY <1>1, <2>2
<1> QED
  BY <1>2, <1>3

LEMMA CopiesShrink ==
    ASSUME NEW q \in [Messages -> Nat], NEW p \in [Messages -> Nat], NEW j \in Jobs,
           \A n \in 0..MaxRetries : p[<<j, n>>] <= q[<<j, n>>]
    PROVE  CopiesIn(p, j) \subseteq CopiesIn(q, j)
<1>1. \A n \in 0..MaxRetries : q[<<j, n>>] \in Nat /\ p[<<j, n>>] \in Nat
  BY DEF Messages
<1>2. ASSUME NEW x \in CopiesIn(p, j) PROVE x \in CopiesIn(q, j)
  <2>1. PICK n \in 0..MaxRetries, i \in Nat : x = <<n, i>> /\ 1 <= i /\ i <= p[<<j, n>>]
    BY <1>2, CopiesMembers
  <2>2. i <= q[<<j, n>>]
    BY <1>1, <2>1
  <2> QED
    BY <2>1, <2>2, CopiesMembers
<1> QED
  BY <1>2

LEMMA CopiesGain ==
    ASSUME NEW q \in [Messages -> Nat], NEW p \in [Messages -> Nat], NEW j \in Jobs,
           NEW n \in 0..MaxRetries, p[<<j, n>>] = q[<<j, n>>] + 1,
           \A m \in (0..MaxRetries) \ {n} : p[<<j, m>>] = q[<<j, m>>]
    PROVE  CopiesIn(p, j) \subseteq CopiesIn(q, j) \cup {<<n, q[<<j, n>>] + 1>>}
<1>1. \A m \in 0..MaxRetries : q[<<j, m>>] \in Nat /\ p[<<j, m>>] \in Nat
  BY DEF Messages
<1>2. SUFFICES ASSUME NEW x \in CopiesIn(p, j)
               PROVE  x \in CopiesIn(q, j) \cup {<<n, q[<<j, n>>] + 1>>}
  OBVIOUS
<1>3. PICK m \in 0..MaxRetries, i \in Nat : x = <<m, i>> /\ 1 <= i /\ i <= p[<<j, m>>]
  <2>1. x \in CopiesIn(p, j) <=> \E m \in 0..MaxRetries, i \in Nat :
            x = <<m, i>> /\ 1 <= i /\ i <= p[<<j, m>>]
    BY Zenon, CopiesMembers
  <2> QED
    BY <1>2, <2>1
<1>4. CASE m = n /\ i = q[<<j, n>>] + 1
  BY <1>3, <1>4
<1>5. CASE ~(m = n /\ i = q[<<j, n>>] + 1)
  <2>1. i <= q[<<j, m>>]
    BY <1>1, <1>3, <1>5
  <2> QED
    BY <1>3, <2>1, CopiesMembers
<1> QED
  BY <1>4, <1>5

LEMMA CopiesLose ==
    ASSUME NEW q \in [Messages -> Nat], NEW p \in [Messages -> Nat], NEW j \in Jobs,
           NEW n \in 0..MaxRetries, q[<<j, n>>] > 0, p[<<j, n>>] = q[<<j, n>>] - 1,
           \A m \in (0..MaxRetries) \ {n} : p[<<j, m>>] = q[<<j, m>>]
    PROVE  /\ <<n, q[<<j, n>>]>> \in CopiesIn(q, j)
           /\ CopiesIn(p, j) \subseteq CopiesIn(q, j) \ {<<n, q[<<j, n>>]>>}
<1>1. \A m \in 0..MaxRetries : q[<<j, m>>] \in Nat /\ p[<<j, m>>] \in Nat
  BY DEF Messages
<1>2. <<n, q[<<j, n>>]>> \in CopiesIn(q, j)
  <2>1. PICK i \in Nat : i = q[<<j, n>>] /\ 1 <= i
    BY <1>1
  <2>2. PICK x : x = <<n, q[<<j, n>>]>>
    OBVIOUS
  <2>3. x = <<n, i>> /\ 1 <= i /\ i <= q[<<j, n>>]
    BY <2>1, <2>2
  <2>4. x \in CopiesIn(q, j)
    BY <2>3, CopiesMembers
  <2> QED
    BY <2>2, <2>4
<1>3. ASSUME NEW x \in CopiesIn(p, j)
      PROVE  x \in CopiesIn(q, j) \ {<<n, q[<<j, n>>]>>}
  <2>1. PICK m \in 0..MaxRetries, i \in Nat : x = <<m, i>> /\ 1 <= i /\ i <= p[<<j, m>>]
    <3>1. x \in CopiesIn(p, j) <=> \E m \in 0..MaxRetries, i \in Nat :
              x = <<m, i>> /\ 1 <= i /\ i <= p[<<j, m>>]
      BY Zenon, CopiesMembers
    <3> QED
      BY <1>3, <3>1
  <2>2. i <= q[<<j, m>>] /\ x # <<n, q[<<j, n>>]>>
    BY <1>1, <2>1
  <2> QED
    BY <2>1, <2>2, CopiesMembers
<1> QED
  BY <1>2, <1>3

-----------------------------------------------------------------------------
(* Who has a job after a step.                                              *)

(* Nobody takes a job up.                                                   *)
NoneTaken == \A j \in Jobs : Busy(j)' \subseteq Busy(j)
NoneOwed ==
    \A c \in Clients, j \in Jobs : Owes(request'[c], j) => Owes(request[c], j)
LEMMA Holders ==
    /\ NoneTaken => \A j \in Jobs : Busy(j)' \subseteq Busy(j)
    /\ NoneOwed => \A j \in Jobs : Debt(j)' \subseteq Debt(j)
    /\ \A j \in Jobs : Copies(j) = CopiesIn(queue, j) /\ Copies(j)' = CopiesIn(queue', j)
    /\ request' = request => NoneOwed
    /\ worker' = worker => NoneTaken
  BY ConstantsAssumption DEF NoneTaken, NoneOwed, Busy, Debt, Copies, CopiesIn

(* What a client may ask for and the broker send again only grows.          *)
Spent == /\ spent["retry"] <= spent'["retry"] /\ spent["redeliver"] <= spent'["redeliver"]
         /\ spent["unacked"] <= spent'["unacked"]
         /\ {spent["retry"], spent["redeliver"], spent["unacked"],
             spent'["retry"], spent'["redeliver"], spent'["unacked"]} \subseteq Nat

LEMMA SpentGrows ==
    ASSUME Sound,
           \/ spent' = spent
           \/ \E what \in Bounded, max \in Nat : Spend(what, max)
    PROVE  Spent
<1>1. spent \in [Bounded -> Nat]
  BY Parts
<1>2. CASE spent' = spent
  BY <1>1, <1>2 DEF Spent, Bounded
<1>3. ASSUME NEW what \in Bounded, NEW max \in Nat, Spend(what, max) PROVE Spent
  <2>1. spent' = [spent EXCEPT ![what] = @ + 1]
    BY <1>3 DEF Spend
  <2> QED
    BY <1>1, <2>1 DEF Spent, Bounded
<1> QED
  BY <1>2, <1>3

(* Steps that give nobody a job.                                            *)
LEMMA NothingTaken ==
    ASSUME Accounted, Sound, NoneTaken, NoneOwed, queue' = queue, Spent
    PROVE  Accounted'
<1> SUFFICES ASSUME NEW j \in Jobs
             PROVE  /\ IsFiniteSet(Busy(j)') /\ IsFiniteSet(Copies(j)') /\ IsFiniteSet(Debt(j)')
                    /\ Cardinality(Busy(j)') + Cardinality(Copies(j)') + Cardinality(Debt(j)')
                           <= 1 + spent'["retry"] + spent'["redeliver"] + spent'["unacked"]
  BY DEF Accounted
<1>1. Busy(j)' \subseteq Busy(j) /\ Copies(j)' \subseteq Copies(j) /\ Debt(j)' \subseteq Debt(j)
  BY Holders
<1>2. /\ IsFiniteSet(Busy(j)') /\ IsFiniteSet(Copies(j)') /\ IsFiniteSet(Debt(j)')
      /\ Cardinality(Busy(j)') <= Cardinality(Busy(j))
      /\ Cardinality(Copies(j)') <= Cardinality(Copies(j))
      /\ Cardinality(Debt(j)') <= Cardinality(Debt(j))
      /\ {Cardinality(Busy(j)'), Cardinality(Copies(j)'), Cardinality(Debt(j)'),
          Cardinality(Busy(j)), Cardinality(Copies(j)), Cardinality(Debt(j))} \subseteq Nat
  BY <1>1, SetShrinks DEF Accounted
<1>3. Cardinality(Busy(j)) + Cardinality(Copies(j)) + Cardinality(Debt(j))
          <= 1 + spent["retry"] + spent["redeliver"] + spent["unacked"]
  BY DEF Accounted
<1> QED
  BY <1>2, <1>3 DEF Spent

(* Steps that put a message of job k into the broker, on the account of     *)
(* whoever had it, or of a counter.                                         *)
LEMMA Published ==
    ASSUME Accounted, Sound, NoneTaken, NoneOwed, NEW k \in Jobs, NEW n \in 0..MaxRetries,
           Publish(k, n), Spent,
           \/ \E w \in Workers : w \in Busy(k) /\ w \notin Busy(k)'
           \/ \E c \in Clients : Owes(request[c], k) /\ ~Owes(request'[c], k)
           \/ spent'["redeliver"] = spent["redeliver"] + 1
           \/ spent'["unacked"] = spent["unacked"] + 1
    PROVE  Accounted'
<1> SUFFICES ASSUME NEW j \in Jobs
             PROVE  /\ IsFiniteSet(Busy(j)') /\ IsFiniteSet(Copies(j)') /\ IsFiniteSet(Debt(j)')
                    /\ Cardinality(Busy(j)') + Cardinality(Copies(j)') + Cardinality(Debt(j)')
                           <= 1 + spent'["retry"] + spent'["redeliver"] + spent'["unacked"]
  BY DEF Accounted
<1>1. Busy(j)' \subseteq Busy(j) /\ Debt(j)' \subseteq Debt(j)
  BY Holders
<1>2. queue \in [Messages -> Nat] /\ queue' \in [Messages -> Nat]
  BY Parts, PublishType
<1>3. /\ IsFiniteSet(Busy(j)) /\ IsFiniteSet(Copies(j)) /\ IsFiniteSet(Debt(j))
      /\ Cardinality(Busy(j)) + Cardinality(Copies(j)) + Cardinality(Debt(j))
          <= 1 + spent["retry"] + spent["redeliver"] + spent["unacked"]
  BY DEF Accounted
<1>4. CASE j # k
  <2>1. \A m \in 0..MaxRetries : <<j, m>> \in Messages \ {<<k, n>>}
    BY <1>4 DEF Messages
  <2>2. \A m \in 0..MaxRetries : queue'[<<j, m>>] <= queue[<<j, m>>]
    <3>1. ASSUME NEW m \in 0..MaxRetries PROVE queue'[<<j, m>>] <= queue[<<j, m>>]
      <4>1. queue'[<<j, m>>] = queue[<<j, m>>] /\ queue[<<j, m>>] \in Nat
        BY <1>2, <2>1, PublishType
      <4> QED
        BY <4>1
    <3> QED
      BY <3>1
  <2>3. Copies(j)' \subseteq Copies(j)
    BY <1>2, <2>2, CopiesShrink, Holders
  <2>4. /\ IsFiniteSet(Busy(j)') /\ IsFiniteSet(Copies(j)') /\ IsFiniteSet(Debt(j)')
        /\ Cardinality(Busy(j)') <= Cardinality(Busy(j))
        /\ Cardinality(Copies(j)') <= Cardinality(Copies(j))
        /\ Cardinality(Debt(j)') <= Cardinality(Debt(j))
        /\ {Cardinality(Busy(j)'), Cardinality(Copies(j)'), Cardinality(Debt(j)'),
            Cardinality(Busy(j)), Cardinality(Copies(j)), Cardinality(Debt(j))} \subseteq Nat
    BY <1>1, <1>3, <2>3, SetShrinks
  <2> QED
    BY <1>3, <2>4 DEF Spent
<1>5. CASE j = k
  <2>1. /\ queue'[<<j, n>>] = queue[<<j, n>>] + 1
        /\ \A m \in (0..MaxRetries) \ {n} : queue'[<<j, m>>] = queue[<<j, m>>]
    BY <1>5, PublishType DEF Messages
  <2>2. PICK x : Copies(j)' \subseteq Copies(j) \cup {x}
    <3>1. CopiesIn(queue', j) \subseteq CopiesIn(queue, j) \cup {<<n, queue[<<j, n>>] + 1>>}
      BY <1>2, <2>1, CopiesGain
    <3> QED
      BY <3>1, Holders
  <2>3. /\ IsFiniteSet(Copies(j)') /\ Cardinality(Copies(j)') <= Cardinality(Copies(j)) + 1
        /\ Cardinality(Copies(j)') \in Nat /\ Cardinality(Copies(j)) \in Nat
    BY <1>3, <2>2, SetGains
  <2>4. /\ IsFiniteSet(Busy(j)') /\ IsFiniteSet(Debt(j)')
        /\ Cardinality(Busy(j)') <= Cardinality(Busy(j))
        /\ Cardinality(Debt(j)') <= Cardinality(Debt(j))
        /\ {Cardinality(Busy(j)'), Cardinality(Debt(j)'),
            Cardinality(Busy(j)), Cardinality(Debt(j))} \subseteq Nat
    BY <1>1, <1>3, SetShrinks
  <2>5. ASSUME NEW w \in Workers, w \in Busy(k), w \notin Busy(k)'
        PROVE  Cardinality(Busy(j)') + 1 <= Cardinality(Busy(j))
    <3>1. w \in Busy(j) /\ Busy(j)' \subseteq Busy(j) \ {w}
      BY <1>1, <1>5, <2>5
    <3> QED
      BY <1>3, <3>1, SetLoses
  <2>6. ASSUME NEW c \in Clients, Owes(request[c], k), ~Owes(request'[c], k)
        PROVE  Cardinality(Debt(j)') + 1 <= Cardinality(Debt(j))
    <3>1. c \in Debt(j) /\ Debt(j)' \subseteq Debt(j) \ {c}
      BY <1>1, <1>5, <2>6 DEF Debt
    <3> QED
      BY <1>3, <3>1, SetLoses
  <2>7. \/ Cardinality(Busy(j)') + 1 <= Cardinality(Busy(j))
        \/ Cardinality(Debt(j)') + 1 <= Cardinality(Debt(j))
        \/ spent'["redeliver"] = spent["redeliver"] + 1
        \/ spent'["unacked"] = spent["unacked"] + 1
    BY <2>5, <2>6
  <2> QED
    BY <1>3, <2>3, <2>4, <2>7 DEF Spent
<1> QED
  BY <1>4, <1>5

(* A worker takes a message: it is the message's turn to be accounted for.  *)
LEMMA ReceiveAccounted ==
    ASSUME Accounted, Sound, NEW w \in Workers, NEW k \in Jobs, NEW n \in 0..MaxRetries,
           Receive(w, k, n)
    PROVE  Accounted'
<1> SUFFICES ASSUME NEW j \in Jobs
             PROVE  /\ IsFiniteSet(Busy(j)') /\ IsFiniteSet(Copies(j)') /\ IsFiniteSet(Debt(j)')
                    /\ Cardinality(Busy(j)') + Cardinality(Copies(j)') + Cardinality(Debt(j)')
                           <= 1 + spent'["retry"] + spent'["redeliver"] + spent'["unacked"]
  BY DEF Accounted
<1>1. /\ queue \in [Messages -> Nat] /\ queue' \in [Messages -> Nat]
      /\ queue' = [queue EXCEPT ![<<k, n>>] = @ - 1] /\ queue[<<k, n>>] > 0
      /\ worker \in [Workers -> WorkRec]
  <2>1. queue \in [Messages -> Nat] /\ worker \in [Workers -> WorkRec] /\ <<k, n>> \in Messages
    BY Parts DEF Messages
  <2> QED
    BY <2>1 DEF Receive
<1>2. /\ IsFiniteSet(Busy(j)) /\ IsFiniteSet(Copies(j)) /\ IsFiniteSet(Debt(j))
      /\ Cardinality(Busy(j)) + Cardinality(Copies(j)) + Cardinality(Debt(j))
          <= 1 + spent["retry"] + spent["redeliver"] + spent["unacked"]
  BY DEF Accounted
<1>3. \A u \in Workers : worker'[u] = worker[u] \/ (u = w /\ worker'[u].job = k)
  BY <1>1 DEF Receive, IdleWorker
<1>4. Debt(j)' = Debt(j) /\ spent' = spent
  BY DEF Receive, Debt
<1>5. /\ spent["retry"] \in Nat /\ spent["redeliver"] \in Nat /\ spent["unacked"] \in Nat
      /\ Cardinality(Debt(j)) \in Nat
  BY <1>2, Parts, FS_CardinalityType DEF Bounded
<1>6. CASE j # k
  <2>1. Busy(j)' \subseteq Busy(j)
    BY <1>3, <1>6 DEF Busy
  <2>2. \A m \in 0..MaxRetries : queue'[<<j, m>>] <= queue[<<j, m>>]
    <3>1. ASSUME NEW m \in 0..MaxRetries PROVE queue'[<<j, m>>] <= queue[<<j, m>>]
      <4>1. <<j, m>> \in Messages /\ <<j, m>> # <<k, n>>
        BY <1>6 DEF Messages
      <4>2. queue'[<<j, m>>] = queue[<<j, m>>] /\ queue[<<j, m>>] \in Nat
        BY <1>1, <4>1
      <4> QED
        BY <4>2
    <3> QED
      BY <3>1
  <2>3. Copies(j)' \subseteq Copies(j)
    <3>1. CopiesIn(queue', j) \subseteq CopiesIn(queue, j)
      BY <1>1, <2>2, CopiesShrink
    <3> QED
      BY <3>1, Holders
  <2>4. /\ IsFiniteSet(Busy(j)') /\ IsFiniteSet(Copies(j)')
        /\ Cardinality(Busy(j)') <= Cardinality(Busy(j))
        /\ Cardinality(Copies(j)') <= Cardinality(Copies(j))
        /\ {Cardinality(Busy(j)'), Cardinality(Copies(j)'),
            Cardinality(Busy(j)), Cardinality(Copies(j))} \subseteq Nat
    BY <1>2, <2>1, <2>3, SetShrinks
  <2> QED
    BY <1>2, <1>4, <1>5, <2>4
<1>7. CASE j = k
  <2>1. Busy(j)' \subseteq Busy(j) \cup {w}
    BY <1>3, <1>7 DEF Busy
  <2>2. /\ <<k, n>> \in Messages
        /\ \A m \in (0..MaxRetries) \ {n} : <<k, m>> \in Messages /\ <<k, m>> # <<k, n>>
    BY DEF Messages
  <2>3. /\ queue'[<<j, n>>] = queue[<<j, n>>] - 1 /\ queue[<<j, n>>] > 0
        /\ \A m \in (0..MaxRetries) \ {n} : queue'[<<j, m>>] = queue[<<j, m>>]
    BY <1>1, <1>7, <2>2
  <2>4. PICK x : x \in Copies(j) /\ Copies(j)' \subseteq Copies(j) \ {x}
    <3>1. /\ <<n, queue[<<j, n>>]>> \in CopiesIn(queue, j)
          /\ CopiesIn(queue', j) \subseteq CopiesIn(queue, j) \ {<<n, queue[<<j, n>>]>>}
      <4>1. queue \in [Messages -> Nat] /\ queue' \in [Messages -> Nat]
        BY <1>1
      <4> QED
        BY <4>1, <2>3, CopiesLose
    <3> QED
      BY <3>1, Holders
  <2>5. /\ IsFiniteSet(Copies(j)') /\ Cardinality(Copies(j)') + 1 <= Cardinality(Copies(j))
        /\ Cardinality(Copies(j)') \in Nat /\ Cardinality(Copies(j)) \in Nat
    BY <1>2, <2>4, SetLoses
  <2>6. /\ IsFiniteSet(Busy(j)') /\ Cardinality(Busy(j)') <= Cardinality(Busy(j)) + 1
        /\ Cardinality(Busy(j)') \in Nat /\ Cardinality(Busy(j)) \in Nat
    BY <1>2, <2>1, SetGains
  <2> QED
    BY <1>2, <1>4, <1>5, <2>5, <2>6
<1> QED
  BY <1>6, <1>7

(* A client asks for a retry, which may publish every job once.             *)
LEMMA RetryBeginAccounted ==
    ASSUME Accounted, Sound, NEW c \in Clients, RetryBegin(c)
    PROVE  Accounted'
<1> SUFFICES ASSUME NEW j \in Jobs
             PROVE  /\ IsFiniteSet(Busy(j)') /\ IsFiniteSet(Copies(j)') /\ IsFiniteSet(Debt(j)')
                    /\ Cardinality(Busy(j)') + Cardinality(Copies(j)') + Cardinality(Debt(j)')
                           <= 1 + spent'["retry"] + spent'["redeliver"] + spent'["unacked"]
  BY DEF Accounted
<1>1. /\ IsFiniteSet(Busy(j)) /\ IsFiniteSet(Copies(j)) /\ IsFiniteSet(Debt(j))
      /\ Cardinality(Busy(j)) + Cardinality(Copies(j)) + Cardinality(Debt(j))
          <= 1 + spent["retry"] + spent["redeliver"] + spent["unacked"]
  BY DEF Accounted
<1>2. Busy(j)' = Busy(j) /\ Copies(j)' = Copies(j)
  BY DEF RetryBegin, Busy, Copies
<1>3. Debt(j)' \subseteq Debt(j) \cup {c}
  <2>1. request \in [Clients -> ReqRec]
    BY Parts
  <2>2. \A d \in Clients \ {c} : request'[d] = request[d]
    BY <2>1 DEF RetryBegin
  <2> QED
    BY <2>2 DEF Debt
<1>4. /\ spent'["retry"] = spent["retry"] + 1 /\ spent'["redeliver"] = spent["redeliver"]
      /\ spent'["unacked"] = spent["unacked"]
      /\ spent["retry"] \in Nat /\ spent["redeliver"] \in Nat /\ spent["unacked"] \in Nat
  BY Parts, SpendType DEF RetryBegin, Bounded
<1>5. /\ IsFiniteSet(Debt(j)') /\ Cardinality(Debt(j)') <= Cardinality(Debt(j)) + 1
      /\ Cardinality(Debt(j)') \in Nat /\ Cardinality(Debt(j)) \in Nat
  BY <1>1, <1>3, SetGains
<1>6. Cardinality(Busy(j)) \in Nat /\ Cardinality(Copies(j)) \in Nat
  BY <1>1, FS_CardinalityType
<1> QED
  BY <1>1, <1>2, <1>4, <1>5, <1>6

(* The steps of a worker on its job.                                        *)
LEMMA CarriesOn ==
    ASSUME Sound, NEW w \in Workers, WorkerStep(w) \/ Progress(w) \/ TimeLimit(w) \/ Crash(w)
    PROVE  /\ \A u \in Workers \ {w} : worker'[u] = worker[u]
           /\ \/ worker'[w] = IdleWorker
              \/ worker'[w] = Over(w)
              \/ /\ worker'[w].job = worker[w].job /\ worker'[w].retries = worker[w].retries
                 /\ worker'[w].at \notin {"idle", "ack"}
<1> DEFINE Goes == /\ \A u \in Workers \ {w} : worker'[u] = worker[u]
                   /\ worker'[w].job = worker[w].job /\ worker'[w].retries = worker[w].retries
                   /\ worker'[w].at \notin {"idle", "ack"}
           Stops == /\ \A u \in Workers \ {w} : worker'[u] = worker[u]
                    /\ worker'[w] \in {IdleWorker, Over(w)}
<1>1. worker \in [Workers -> WorkRec] /\ worker[w] \in WorkRec
  BY Parts
<1>2. \A s : s \notin {"idle", "ack"} /\ Goto(w, s) => Goes
  BY <1>1 DEF Goto, WorkRec
<1>3. (\E b : Fail(w, b)) => Goes
  BY <1>1 DEF Fail, WorkRec
<1>4. Finish(w) \/ Leave(w) => Stops
  BY <1>1 DEF Finish, Leave, Over
<1>5. worker' = [worker EXCEPT ![w].at = "decide", ![w].failed = FALSE,
                               ![w].group = None, ![w].agg = None] => Goes
  BY <1>1 DEF WorkRec
<1>6. /\ \A n : worker' = [worker EXCEPT ![w].at = "wait", ![w].pod = n] => Goes
      /\ LeavePod(w) => Goes
  BY <1>1 DEF WorkRec, LeavePod
<1>7. CloseReady(w) \/ CloseFailed(w) \/ ReadGroup(w) => Goes
  BY <1>1 DEF CloseReady, CloseFailed, ReadGroup, CloseAttempt, WorkRec
<1> HIDE DEF Goes, Stops
<1>8. CASE CreateAttempt(w) \/ CountAttempt(w) \/ Stage(w) \/ StageGroup(w) \/ Convert(w)
           \/ SetVerifying(w) \/ Progress(w) \/ CloseReady(w) \/ CloseFailed(w)
           \/ ReadGroup(w)
  <2>1. \/ Goto(w, "count") \/ Goto(w, "stage") \/ Goto(w, "group") \/ Goto(w, "pull")
        \/ Goto(w, "submit") \/ Goto(w, "ready") \/ Finish(w) \/ Goes
    BY <1>7, <1>8 DEF CreateAttempt, CountAttempt, Stage, StageGroup, Convert,
       SetVerifying, Progress, SetStage
  <2>2. Goes \/ Stops
    BY <1>2, <1>4, <2>1
  <2> QED
    BY <2>2 DEF Goes, Stops
<1>9. CASE \/ PullDisk(w) \/ CopyStaged(w) \/ Verify(w) \/ SubmitPod(w) \/ WaitPod(w)
           \/ WriteAggregate(w) \/ DecideRetry(w) \/ PublishRetry(w) \/ Ack(w) \/ Crash(w)
           \/ TimeLimit(w)
  <2>1. \/ Goto(w, "convert") \/ Goto(w, "verify") \/ Goto(w, "close") \/ Goto(w, "publish")
        \/ Finish(w) \/ Leave(w) \/ Goes
    <3>1. PullDisk(w) \/ CopyStaged(w) \/ Verify(w)
            => Goto(w, "convert") \/ Goto(w, "verify") \/ Goto(w, "close") \/ Goes
      BY <1>3 DEF PullDisk, CopyStaged, Verify
    <3>2. SubmitPod(w) \/ WaitPod(w) => Goes
      BY <1>3, <1>6 DEF SubmitPod, WaitPod
    <3>3. WriteAggregate(w) \/ DecideRetry(w) => Finish(w) \/ Goto(w, "publish") \/ Goes
      BY <1>5 DEF WriteAggregate, DecideRetry
    <3>4. PublishRetry(w) \/ Ack(w) \/ Crash(w) \/ TimeLimit(w)
            => Finish(w) \/ Leave(w) \/ Goes
      BY <1>3 DEF PublishRetry, Ack, Crash, TimeLimit
    <3> QED
      BY <1>9, <3>1, <3>2, <3>3, <3>4
  <2>2. Goes \/ Stops
    BY <1>2, <1>4, <2>1
  <2> QED
    BY <2>2 DEF Goes, Stops
<1> QED
  BY <1>8, <1>9 DEF WorkerStep

(* The message is left, done with, or the task goes on.                     *)
LEMMA WorksOn ==
    ASSUME Sound, NEW w \in Workers, WorkerStep(w) \/ Progress(w) \/ TimeLimit(w) \/ Crash(w)
    PROVE  /\ \A u \in Workers \ {w} : worker'[u] = worker[u]
           /\ worker[w].at # "idle" /\ worker[w].job \in Jobs
           /\ \/ worker'[w] = IdleWorker
              \/ worker'[w] = Over(w) /\ worker[w].at # "ack"
              \/ /\ worker'[w].job = worker[w].job /\ worker'[w].retries = worker[w].retries
                 /\ worker[w].at # "ack" /\ worker'[w].at \notin {"idle", "ack"}
<1>1. worker[w].at # "idle"
  BY DEF WorkerStep, Progress, TimeLimit, Crash, CreateAttempt, CountAttempt, Stage,
     StageGroup, PullDisk, Convert, SubmitPod, CopyStaged, WaitPod, SetVerifying, Verify,
     CloseReady, CloseFailed, CloseAttempt, ReadGroup, WriteAggregate, DecideRetry,
     PublishRetry, Ack, SetStage
<1>2. CASE Ack(w) \/ Crash(w)
  <2>1. worker'[w] = IdleWorker
    BY <1>2, Parts DEF Ack, Crash, Leave
  <2> QED
    BY <1>1, <2>1, CarriesOn, Parts
<1>3. CASE ~Ack(w) /\ ~Crash(w)
  <2>1. worker[w].at # "ack"
    BY <1>3 DEF WorkerStep, Progress, TimeLimit, CreateAttempt, CountAttempt, Stage,
       StageGroup, PullDisk, Convert, SubmitPod, CopyStaged, WaitPod, SetVerifying, Verify,
       CloseReady, CloseFailed, CloseAttempt, ReadGroup, WriteAggregate, DecideRetry,
       PublishRetry, SetStage
  <2> QED
    BY <1>1, <2>1, CarriesOn, Parts
<1> QED
  BY <1>2, <1>3

(* Once the task is over, nothing but the message is left.                  *)
LEMMA OnlyAck ==
    ASSUME Sound, NEW w \in Workers, WorkerStep(w) \/ Progress(w) \/ TimeLimit(w) \/ Crash(w),
           worker[w].at = "ack"
    PROVE  (Ack(w) \/ Crash(w)) /\ UNCHANGED <<tables, files>>
  BY DEF WorkerStep, Progress, TimeLimit, CreateAttempt, CountAttempt, Stage,
     StageGroup, PullDisk, Convert, SubmitPod, CopyStaged, WaitPod, SetVerifying, Verify,
     CloseReady, CloseFailed, CloseAttempt, ReadGroup, WriteAggregate, DecideRetry,
     PublishRetry, SetStage, Ack, Crash, Guarded

(* A request drops jobs it has to publish, and takes none up.               *)
LEMMA HandlerOwes ==
    ASSUME Sound, NEW c \in Clients, HandlerStep(c) \/ CancelBegin(c)
    PROVE  NoneOwed
<1>1. /\ request \in [Clients -> ReqRec] /\ request[c] \in ReqRec /\ ReqOk(request[c])
  BY Parts
<1> SUFFICES ASSUME NEW d \in Clients, NEW k \in Jobs, Owes(request'[d], k)
             PROVE  Owes(request[d], k)
  BY DEF NoneOwed
<1>2. CASE Ungroup(c) \/ CancelGroup(c) \/ CancelBegin(c) \/ RequestRead(c) \/ RequestWrite(c)
           \/ CancelMark(c) \/ RetryMark(c)
  <2>1. CASE Ungroup(c) \/ CancelGroup(c)
    BY <1>1, <2>1 DEF Ungroup, CancelGroup, Respond, Owes, IdleRequest
  <2>2. CASE CancelBegin(c)
    BY <1>1, <2>2 DEF CancelBegin, Owes, ReqRec
  <2>3. CASE RequestRead(c)
    BY <1>1, <2>3 DEF RequestRead, Owes, ReqRec
  <2>4. CASE RequestWrite(c)
    BY <1>1, <2>4 DEF RequestWrite, Owes, ReqRec
  <2>5. CASE CancelMark(c)
    BY <1>1, <2>5 DEF CancelMark, MarkJob, Owes, ReqOk, ReqRec
  <2>6. CASE RetryMark(c)
    BY <1>1, <2>6 DEF RetryMark, MarkJob, Owes, ReqRec
  <2> QED
    BY <1>2, <2>1, <2>2, <2>3, <2>4, <2>5, <2>6
<1>3. ASSUME NEW j \in Jobs, Unqueue(c, j) \/ CancelTest(c, j) PROVE Owes(request[d], k)
  BY <1>1, <1>3 DEF Unqueue, CancelTest, Owes, ReqOk, ReqRec
<1>4. ASSUME NEW j \in Jobs, Enqueue(c, j) PROVE Owes(request[d], k)
  <2>1. CASE request' = [request EXCEPT ![c].at = "unqueue", ![c].todo = Jobs]
    BY <1>1, <1>4, <2>1 DEF Owes, ReqRec, Enqueue
  <2>2. CASE request' = [request EXCEPT ![c] = IdleRequest]
    BY <1>1, <2>2 DEF Owes, IdleRequest
  <2>3. CASE request' = [request EXCEPT ![c] = [request[c] EXCEPT !.todo = @ \ {j}]]
    BY <1>1, <1>4, <2>3 DEF Owes, ReqRec, Enqueue
  <2> QED
    BY <1>4, <2>1, <2>2, <2>3 DEF Enqueue
<1>5. ASSUME NEW j \in Jobs, RetryPublish(c, j) PROVE Owes(request[d], k)
  <2>1. CASE request' = [request EXCEPT ![c] = IdleRequest]
    BY <1>1, <2>1 DEF Owes, IdleRequest
  <2>2. CASE request' = [request EXCEPT ![c] = [request[c] EXCEPT !.ids = @ \ {j}]]
    BY <1>1, <1>5, <2>2 DEF Owes, ReqRec, RetryPublish
  <2> QED
    BY <1>5, <2>1, <2>2 DEF RetryPublish, Respond
<1>6. ASSUME NEW j \in Jobs, RetryClear(c, j) PROVE Owes(request[d], k)
  <2>1. PICK ids, todo, mark, at :
          /\ ids \subseteq request[c].ids \cup {j} /\ todo = request[c].todo \ {j}
          /\ request' = [request EXCEPT ![c] =
                IF ids = {} /\ todo = {} THEN IdleRequest
                ELSE [@ EXCEPT !.todo = todo, !.ids = ids, !.mark = mark, !.at = at]]
          /\ at \in {"read", "retry"}
    <3>1. CASE job[j].status = "FAILED"
      BY <1>6, <3>1 DEF RetryClear
    <3>2. CASE job[j].status # "FAILED"
      BY <1>6, <3>2 DEF RetryClear
    <3> QED
      BY <3>1, <3>2
  <2>2. request[c].at = "retry" /\ j \in request[c].todo
    BY <1>6 DEF RetryClear
  <2>3. CASE request' = [request EXCEPT ![c] = IdleRequest]
    BY <1>1, <2>3 DEF Owes, IdleRequest
  <2>4. CASE request' = [request EXCEPT ![c] = [request[c] EXCEPT
                           !.todo = todo, !.ids = ids, !.mark = mark, !.at = at]]
    <3>1. CASE d # c
      BY <1>1, <2>4, <3>1
    <3>2. CASE d = c
      <4>1. request'[c] = [request[c] EXCEPT
                              !.todo = todo, !.ids = ids, !.mark = mark, !.at = at]
        BY <1>1, <2>4
      <4>2. request'[c].todo = todo /\ request'[c].ids = ids /\ request'[c].at = at
        BY <1>1, <4>1 DEF ReqRec
      <4>3. k \in todo \cup ids
        BY <2>1, <3>2, <4>2 DEF Owes
      <4> QED
        BY <2>1, <2>2, <3>2, <4>3 DEF Owes
    <3> QED
      BY <3>1, <3>2
  <2> QED
    BY <2>1, <2>3, <2>4
<1> QED
  BY <1>2, <1>3, <1>4, <1>5, <1>6 DEF HandlerStep

LEMMA HandlerAccounted ==
    ASSUME Accounted, Sound, NEW c \in Clients, HandlerStep(c) \/ CancelBegin(c)
    PROVE  Accounted'
<1>1. NoneOwed
  BY HandlerOwes
<1>2. worker' = worker
  BY DEF HandlerStep, CancelBegin, Enqueue, Unqueue, CancelTest, RetryClear, RetryPublish,
     Ungroup, CancelMark, CancelGroup, RetryMark, MarkJob, RequestRead, RequestWrite
<1>3. NoneTaken
  BY <1>2, Holders
<1>4. "broker" \in Bounded /\ "cancel" \in Bounded /\ MaxBrokerFail \in Nat /\ MaxCancel \in Nat
      /\ 0 \in 0..MaxRetries
  BY ConstantsAssumption DEF Bounded
<1>5. spent' = spent \/ Spend("broker", MaxBrokerFail) \/ Spend("cancel", MaxCancel)
  BY DEF HandlerStep, CancelBegin, Enqueue, Unqueue, CancelTest, RetryClear, RetryPublish,
     Ungroup, CancelMark, CancelGroup, RetryMark, MarkJob, RequestRead, RequestWrite
<1>6. Spent
  BY <1>4, <1>5, SpentGrows
<1>7. \/ queue' = queue
      \/ \E j \in Jobs : /\ Publish(j, 0) /\ Owes(request[c], j)
                         /\ ~Owes(request'[c], j)
  <2>1. request \in [Clients -> ReqRec] /\ request[c] \in ReqRec
    BY Parts
  <2>2. ASSUME NEW j \in Jobs, Enqueue(c, j), queue' # queue
        PROVE  Publish(j, 0) /\ Owes(request[c], j) /\ ~Owes(request'[c], j)
    <3>1. CASE request' = [request EXCEPT ![c] = IdleRequest]
      BY <2>1, <2>2, <3>1 DEF Enqueue, Owes, IdleRequest
    <3>2. CASE request' = [request EXCEPT ![c] = [request[c] EXCEPT !.todo = @ \ {j}]]
      BY <2>1, <2>2, <3>2 DEF Enqueue, Owes, ReqRec
    <3> QED
      BY <2>2, <3>1, <3>2 DEF Enqueue
  <2>3. ASSUME NEW j \in Jobs, RetryPublish(c, j), queue' # queue
        PROVE  Publish(j, 0) /\ Owes(request[c], j) /\ ~Owes(request'[c], j)
    <3>1. CASE request' = [request EXCEPT ![c] = IdleRequest]
      BY <2>1, <2>3, <3>1 DEF RetryPublish, Owes, IdleRequest
    <3>2. CASE request' = [request EXCEPT ![c] = [request[c] EXCEPT !.ids = @ \ {j}]]
      BY <2>1, <2>3, <3>2 DEF RetryPublish, Owes, ReqRec
    <3> QED
      BY <2>3, <3>1, <3>2 DEF RetryPublish
  <2> QED
    BY <2>2, <2>3 DEF HandlerStep, CancelBegin, Unqueue, CancelTest, RetryClear,
       Ungroup, CancelMark, CancelGroup, RetryMark, MarkJob, RequestRead, RequestWrite
<1> QED
  BY <1>1, <1>3, <1>4, <1>6, <1>7, NothingTaken, Published

LEMMA WorkAccounted ==
    ASSUME Accounted, Sound, NEW w \in Workers,
           WorkerStep(w) \/ Progress(w) \/ TimeLimit(w) \/ Crash(w) \/ Redeliver(w)
    PROVE  Accounted'
<1>1. /\ {"broker", "limit", "crash", "unacked", "redeliver", "undeleted"} \subseteq Bounded
      /\ {MaxBrokerFail, MaxTimeLimit, MaxCrash, MaxUnacked, MaxRedeliver, MaxUndeleted}
             \subseteq Nat
  BY ConstantsAssumption DEF Bounded
<1>2. request' = request
  BY DEF WorkerStep, Progress, TimeLimit, Crash, Redeliver, CreateAttempt, CountAttempt, Stage,
     StageGroup, PullDisk, Convert, SubmitPod, CopyStaged, WaitPod, SetVerifying, Verify,
     CloseReady, CloseFailed, CloseAttempt, ReadGroup, WriteAggregate, DecideRetry,
     PublishRetry, Ack, SetStage
<1>3. NoneOwed
  BY <1>2, Holders
<1>4. NoneTaken
  <2>1. CASE Redeliver(w)
    BY <2>1, Holders DEF Redeliver
  <2>2. CASE WorkerStep(w) \/ Progress(w) \/ TimeLimit(w) \/ Crash(w)
    <3> SUFFICES ASSUME NEW j \in Jobs, NEW u \in Busy(j)' PROVE u \in Busy(j)
      BY DEF NoneTaken
    <3>1. CASE u # w
      BY <2>2, <3>1, WorksOn DEF Busy
    <3>2. CASE u = w
      <4>1. worker'[w].job = j /\ worker'[w].at # "ack" /\ worker[w].at # "idle"
        BY <2>2, <3>2, WorksOn DEF Busy
      <4>2. worker'[w] # Over(w)
        BY <4>1, OverTypes
      <4>3. worker'[w] # IdleWorker
        BY <4>1, ConstantsAssumption DEF IdleWorker
      <4> QED
        BY <2>2, <3>2, <4>1, <4>2, <4>3, WorksOn DEF Busy
    <3> QED
      BY <3>1, <3>2
  <2> QED
    BY <2>1, <2>2
<1>5. \/ spent' = spent
      \/ Spend("broker", MaxBrokerFail) \/ Spend("undeleted", MaxUndeleted)
      \/ Spend("limit", MaxTimeLimit) \/ Spend("crash", MaxCrash)
      \/ Spend("unacked", MaxUnacked) \/ Spend("redeliver", MaxRedeliver)
  BY DEF WorkerStep, Progress, TimeLimit, Crash, Redeliver, CreateAttempt, CountAttempt, Stage,
     StageGroup, PullDisk, Convert, SubmitPod, CopyStaged, WaitPod, SetVerifying, Verify,
     CloseReady, CloseFailed, CloseAttempt, ReadGroup, WriteAggregate, DecideRetry,
     PublishRetry, Ack, SetStage, DeletePod
<1>6. Spent
  BY <1>1, <1>5, SpentGrows
<1>7. ASSUME queue' = queue PROVE Accounted'
  BY <1>3, <1>4, <1>6, <1>7, NothingTaken
<1>8. /\ worker \in [Workers -> WorkRec] /\ worker[w] \in WorkRec /\ WorkOk(worker[w], log)
      /\ worker[w].at # "idle" => worker[w].job \in Jobs
  BY Parts
<1>9. CASE Redeliver(w)
  <2>1. /\ Publish(worker[w].job, worker[w].retries)
        /\ worker[w].job \in Jobs /\ worker[w].retries \in 0..MaxRetries
        /\ spent'["redeliver"] = spent["redeliver"] + 1
    BY <1>1, <1>8, <1>9, SpendType DEF Redeliver, WorkRec
  <2> QED
    BY <1>3, <1>4, <1>6, <2>1, Published
<1>10. CASE Crash(w)
  <2>1. /\ Publish(worker[w].job, worker[w].retries)
        /\ worker[w].job \in Jobs /\ worker[w].retries \in 0..MaxRetries
        /\ worker'[w] = IdleWorker
    <3>1. worker[w].job \in Jobs
      BY <1>10, WorksOn
    <3> QED
      BY <1>8, <1>10, <3>1 DEF Crash, WorkRec, Leave
  <2>2. CASE worker[w].at = "ack"
    <3>1. Spend("unacked", MaxUnacked)
      BY <1>10, <2>2 DEF Crash
    <3>2. spent'["unacked"] = spent["unacked"] + 1
      BY <1>1, <3>1, SpendType
    <3> QED
      BY <1>3, <1>4, <1>6, <2>1, <3>2, Published
  <2>3. CASE worker[w].at # "ack"
    <3>1. PICK k \in Jobs : k = worker[w].job
      BY <2>1
    <3>2. w \in Busy(k) /\ w \notin Busy(k)'
      BY <2>1, <2>3, <3>1, ConstantsAssumption DEF Busy, IdleWorker
    <3> QED
      BY <1>3, <1>4, <1>6, <2>1, <3>1, <3>2, Published
  <2> QED
    BY <2>2, <2>3
<1>11. CASE PublishRetry(w) /\ queue' # queue
  <2>1. /\ Publish(worker[w].job, worker[w].retries + 1)
        /\ worker[w].job \in Jobs /\ worker[w].retries \in 0..MaxRetries
        /\ worker[w].retries < MaxRetries
        /\ worker[w].at # "ack" /\ worker'[w].at = "ack"
    <3>1. worker[w].at = "publish" /\ Finish(w) /\ WorkerStep(w)
      BY <1>11 DEF PublishRetry, WorkerStep
    <3>2. worker'[w] = Over(w)
      BY <1>8, <3>1 DEF Finish, Over
    <3>3. Publish(worker[w].job, worker[w].retries + 1)
      BY <1>11 DEF PublishRetry
    <3> QED
      BY <1>8, <3>1, <3>2, <3>3, OverTypes DEF WorkRec, WorkOk
  <2>3. PICK k \in Jobs : k = worker[w].job
    BY <2>1
  <2>4. w \in Busy(k) /\ w \notin Busy(k)'
    BY <2>1, <2>3 DEF Busy
  <2>2. worker[w].retries + 1 \in 0..MaxRetries
    BY <2>1, ConstantsAssumption
  <2> QED
    BY <1>3, <1>4, <1>6, <2>1, <2>2, <2>3, <2>4, Published
<1>12. CASE /\ WorkerStep(w) \/ Progress(w) \/ TimeLimit(w)
            /\ ~PublishRetry(w)
  <2>1. queue' = queue
    BY <1>12 DEF WorkerStep, Progress, TimeLimit, CreateAttempt, CountAttempt, Stage,
       StageGroup, PullDisk, Convert, SubmitPod, CopyStaged, WaitPod, SetVerifying, Verify,
       CloseReady, CloseFailed, CloseAttempt, ReadGroup, WriteAggregate, DecideRetry, Ack,
       SetStage
  <2> QED
    BY <1>7, <2>1
<1> QED
  BY <1>7, <1>9, <1>10, <1>11, <1>12

LEMMA AccountedStep == Accounted /\ Sound /\ [Next]_vars => Accounted'
<1> SUFFICES ASSUME Accounted, Sound, [Next]_vars PROVE Accounted'
  OBVIOUS
<1>1. ASSUME NEW p \in pods, PodEnds(p) PROVE Accounted'
  <2>1. UNCHANGED <<queue, worker, request, spent>>
    BY <1>1 DEF PodEnds
  <2> QED
    BY <2>1, NothingTaken, Holders, SpentGrows
<1>2. CASE UNCHANGED vars
  <2>1. UNCHANGED <<queue, worker, request, spent>>
    BY <1>2 DEF vars
  <2> QED
    BY <2>1, NothingTaken, Holders, SpentGrows
<1>3. ASSUME NEW w \in Workers, NEW msg \in Messages, Receive(w, msg[1], msg[2])
      PROVE  Accounted'
  BY <1>3, ReceiveAccounted DEF Messages
<1> QED
  BY <1>1, <1>2, <1>3, HandlerAccounted, RetryBeginAccounted, WorkAccounted DEF Next, Rest

LEMMA InitAccounted == Init => Accounted
<1> SUFFICES ASSUME Init, NEW j \in Jobs
             PROVE  /\ IsFiniteSet(Busy(j)) /\ IsFiniteSet(Copies(j)) /\ IsFiniteSet(Debt(j))
                    /\ Cardinality(Busy(j)) + Cardinality(Copies(j)) + Cardinality(Debt(j))
                           <= 1 + spent["retry"] + spent["redeliver"] + spent["unacked"]
  BY DEF Accounted
<1>1. Busy(j) = {}
  BY ConstantsAssumption DEF Init, Busy, IdleWorker
<1>2. Copies(j) = {}
  <2>1. \A n \in 0..MaxRetries : queue[<<j, n>>] = 0
    BY DEF Init, Messages
  <2>2. queue \in [Messages -> Nat]
    BY InitSound, Parts
  <2>3. ASSUME NEW x, x \in CopiesIn(queue, j) PROVE FALSE
    <3>1. PICK n \in 0..MaxRetries, i \in Nat : 1 <= i /\ i <= queue[<<j, n>>]
      BY <2>2, <2>3, CopiesMembers
    <3> QED
      BY <2>1, <3>1
  <2> QED
    BY <2>3, Holders
<1>3. Debt(j) = {Submitter}
  BY ConstantsAssumption DEF Init, Debt, Owes, IdleRequest
<1>4. spent["retry"] = 0 /\ spent["redeliver"] = 0 /\ spent["unacked"] = 0
  BY DEF Init, Bounded
<1>5. /\ IsFiniteSet({}) /\ Cardinality({}) = 0
      /\ IsFiniteSet({Submitter}) /\ Cardinality({Submitter}) = 1
  BY FS_EmptySet, FS_Singleton
<1> QED
  BY <1>1, <1>2, <1>3, <1>4, <1>5

(* The deliveries of every job are accounted for, whatever crashes, is      *)
(* redelivered, cancelled or retried.                                       *)
THEOREM DeliveriesAccounted == Spec => []OneConverterPerJob
<1>1. Accounted /\ Sound /\ [Next]_vars => Accounted'
  BY AccountedStep
<1>2. Accounted /\ Sound => OneConverterPerJob
  <2> SUFFICES ASSUME Accounted, Sound, NEW j \in Jobs
               PROVE  Cardinality(Busy(j)) + Cardinality(Copies(j))
                          <= 1 + spent["retry"] + spent["redeliver"] + spent["unacked"]
    BY DEF OneConverterPerJob, Waiting
  <2>1. {Cardinality(Busy(j)), Cardinality(Copies(j)), Cardinality(Debt(j))} \subseteq Nat
    BY FS_CardinalityType DEF Accounted
  <2>2. spent["retry"] \in Nat /\ spent["redeliver"] \in Nat /\ spent["unacked"] \in Nat
    BY Parts DEF Bounded
  <2> QED
    BY <2>1, <2>2 DEF Accounted
<1> QED
  BY <1>1, <1>2, InitSound, InitAccounted, StepSound, PTL DEF Spec

-----------------------------------------------------------------------------
(* THE ACCOUNT OF THE ATTEMPTS                                             *)

(* A worker owns the attempt it has created until it closes it.             *)
Owns(w, j) == worker[w].job = j /\ worker[w].at \notin {"attempt", "ack"}
Open(j) == {n \in DOMAIN log[j] : log[j][n] = "RETRYING"}
Orphans(j) == {n \in Open(j) : \A w \in Workers : Owns(w, j) => worker[w].num # n}

(* An open attempt that no worker owns was lost with a worker.              *)
Answered ==
    \A j \in Jobs : /\ IsFiniteSet(Orphans(j))
                    /\ Cardinality(Orphans(j)) <= spent["crash"] + spent["limit"]

LEMMA OpenMembers ==
    ASSUME Sound, NEW j \in Jobs, NEW n \in Open(j)
    PROVE  n \in 1..Len(log[j]) /\ n # 0
<1>1. log[j] \in Rows
  BY Parts DEF Rows
<1>2. DOMAIN log[j] = 1..Len(log[j]) /\ Len(log[j]) \in Nat
  BY <1>1, LenProperties DEF Rows
<1> QED
  BY <1>2 DEF Open

LostOnly == /\ spent["crash"] <= spent'["crash"] /\ spent["limit"] <= spent'["limit"]
            /\ {spent["crash"], spent["limit"], spent'["crash"], spent'["limit"]} \subseteq Nat

LEMMA LostGrows ==
    ASSUME Sound,
           \/ spent' = spent
           \/ \E what \in Bounded, max \in Nat : Spend(what, max)
    PROVE  LostOnly
<1>1. spent \in [Bounded -> Nat]
  BY Parts
<1>2. CASE spent' = spent
  BY <1>1, <1>2 DEF LostOnly, Bounded
<1>3. ASSUME NEW what \in Bounded, NEW max \in Nat, Spend(what, max) PROVE LostOnly
  <2>1. spent' = [spent EXCEPT ![what] = @ + 1]
    BY <1>3 DEF Spend
  <2> QED
    BY <1>1, <2>1 DEF LostOnly, Bounded
<1> QED
  BY <1>2, <1>3

LEMMA NothingLost ==
    ASSUME Answered, LostOnly, \A j \in Jobs : Orphans(j)' \subseteq Orphans(j)
    PROVE  Answered'
<1> SUFFICES ASSUME NEW j \in Jobs
             PROVE  /\ IsFiniteSet(Orphans(j)')
                    /\ Cardinality(Orphans(j)') <= spent'["crash"] + spent'["limit"]
  BY DEF Answered
<1>1. /\ IsFiniteSet(Orphans(j)') /\ Cardinality(Orphans(j)') <= Cardinality(Orphans(j))
      /\ Cardinality(Orphans(j)') \in Nat /\ Cardinality(Orphans(j)) \in Nat
  BY SetShrinks DEF Answered
<1> QED
  BY <1>1 DEF Answered, LostOnly

LEMMA OneLost ==
    ASSUME Answered, LostOnly, NEW x, \A j \in Jobs : Orphans(j)' \subseteq Orphans(j) \cup {x},
           spent["crash"] + spent["limit"] + 1 <= spent'["crash"] + spent'["limit"]
    PROVE  Answered'
<1> SUFFICES ASSUME NEW j \in Jobs
             PROVE  /\ IsFiniteSet(Orphans(j)')
                    /\ Cardinality(Orphans(j)') <= spent'["crash"] + spent'["limit"]
  BY DEF Answered
<1>1. /\ IsFiniteSet(Orphans(j)') /\ Cardinality(Orphans(j)') <= Cardinality(Orphans(j)) + 1
      /\ Cardinality(Orphans(j)') \in Nat /\ Cardinality(Orphans(j)) \in Nat
  BY SetGains DEF Answered
<1> QED
  BY <1>1 DEF Answered, LostOnly

(* The log stays, and who owned an attempt owns it still, or had closed it. *)
LEMMA OwnersStay ==
    ASSUME Sound, log' = log,
           \A u \in Workers, j \in Jobs :
               Owns(u, j) => \/ Owns(u, j)' /\ worker'[u].num = worker[u].num
                             \/ worker[u].num = 0
    PROVE  \A j \in Jobs : Orphans(j)' \subseteq Orphans(j)
<1> SUFFICES ASSUME NEW j \in Jobs, NEW n \in Orphans(j)' PROVE n \in Orphans(j)
  OBVIOUS
<1>1. n \in Open(j) /\ \A u \in Workers : Owns(u, j)' => worker'[u].num # n
  BY DEF Orphans, Open
<1>2. n # 0
  BY <1>1, OpenMembers
<1> QED
  BY <1>1, <1>2 DEF Orphans

LEMMA NumberKept ==
    ASSUME Sound, NEW w \in Workers, worker[w].at # "attempt",
           \/ CountAttempt(w) \/ Stage(w) \/ StageGroup(w) \/ PullDisk(w) \/ Convert(w)
           \/ SubmitPod(w) \/ CopyStaged(w) \/ WaitPod(w) \/ SetVerifying(w) \/ Verify(w)
           \/ ReadGroup(w) \/ WriteAggregate(w) \/ DecideRetry(w) \/ PublishRetry(w)
           \/ Progress(w)
    PROVE  /\ log' = log
           /\ \/ worker'[w].at \notin {"attempt", "ack"} /\ worker'[w].num = worker[w].num
              \/ worker[w].num = 0
<1>1. worker \in [Workers -> WorkRec] /\ worker[w] \in WorkRec /\ WorkOk(worker[w], log)
  BY Parts
<1>2. ASSUME NEW s \in Stages \ {"attempt", "ack"}, Goto(w, s)
      PROVE  worker'[w].at \notin {"attempt", "ack"} /\ worker'[w].num = worker[w].num
  BY <1>1, <1>2 DEF Goto, WorkRec
<1>3. ASSUME NEW b \in Bucket, Fail(w, b)
      PROVE  worker'[w].at \notin {"attempt", "ack"} /\ worker'[w].num = worker[w].num
  BY <1>1, <1>3 DEF Fail, WorkRec
<1>4. {"permanent", "transient"} = Bucket
  BY DEF Bucket
<1>5. CASE CountAttempt(w) \/ Stage(w) \/ StageGroup(w) \/ Convert(w) \/ SetVerifying(w)
           \/ Progress(w)
  BY <1>2, <1>5 DEF CountAttempt, Stage, StageGroup, Convert, SetVerifying, Progress, SetStage,
     Stages, Guarded
<1>6. CASE PullDisk(w) \/ CopyStaged(w) \/ Verify(w)
  BY <1>2, <1>3, <1>4, <1>6 DEF PullDisk, CopyStaged, Verify, Stages, Guarded
<1>7. CASE SubmitPod(w) \/ WaitPod(w)
  <2>1. CASE \E b \in Bucket : Fail(w, b)
    BY <1>3, <1>7, <2>1 DEF SubmitPod, WaitPod
  <2>2. CASE \E n : worker' = [worker EXCEPT ![w].at = "wait", ![w].pod = n]
    BY <1>1, <1>7, <2>2 DEF WorkRec, SubmitPod, WaitPod
  <2>3. CASE LeavePod(w)
    BY <1>1, <1>7, <2>3 DEF WorkRec, LeavePod, SubmitPod, WaitPod
  <2> QED
    BY <1>4, <1>7, <2>1, <2>2, <2>3 DEF SubmitPod, WaitPod
<1>8. CASE ReadGroup(w) \/ WriteAggregate(w) \/ DecideRetry(w) \/ PublishRetry(w)
  BY <1>1, <1>8 DEF ReadGroup, WriteAggregate, DecideRetry, PublishRetry, WorkOk, tables
<1> QED
  BY <1>5, <1>6, <1>7, <1>8

LEMMA CreateAnswered ==
    ASSUME Answered, Sound, NEW w \in Workers, CreateAttempt(w)
    PROVE  Answered'
<1>1. /\ worker[w] \in WorkRec /\ WorkOk(worker[w], log) /\ worker[w].job \in Jobs
      /\ worker \in [Workers -> WorkRec] /\ log \in [Jobs -> Rows]
      /\ worker[w].at = "attempt"
  BY Parts DEF CreateAttempt, Rows
<1>2. LostOnly
  BY LostGrows DEF CreateAttempt
<1>3. \A u \in Workers \ {w} : worker'[u] = worker[u]
  BY WorksOn DEF WorkerStep
<1>4. CASE log' = log
  <2>1. \A u \in Workers, j \in Jobs :
            Owns(u, j) => Owns(u, j)' /\ worker'[u].num = worker[u].num
    BY <1>1, <1>3 DEF Owns
  <2> QED
    BY <1>2, <1>4, <2>1, OwnersStay, NothingLost
<1>5. CASE log' # log
  <2>1. PICK i \in Jobs : i = worker[w].job
    BY <1>1
  <2>2. /\ worker[w].num \in Nat /\ Len(log[i]) \in Nat /\ worker[w].num > Len(log[i])
        /\ log' = [log EXCEPT ![i] = Append(log[i], "RETRYING")] /\ Goto(w, "count")
    BY <1>1, <1>5, <2>1 DEF CreateAttempt, WorkRec, Rows
  <2>3. worker[w].num = Len(log[i]) + 1
    BY <1>1, <2>1, <2>2 DEF WorkOk
  <2>4. Owns(w, i)' /\ worker'[w].num = Len(log[i]) + 1
    BY <1>1, <2>1, <2>2, <2>3 DEF Owns, Goto, WorkRec
  <2>5. /\ Append(log[i], "RETRYING") \in Rows
        /\ DOMAIN Append(log[i], "RETRYING") = 1..(Len(log[i]) + 1)
        /\ \A n \in 1..Len(log[i]) : Append(log[i], "RETRYING")[n] = log[i][n]
        /\ DOMAIN log[i] = 1..Len(log[i])
    BY <1>1 DEF Rows
  <2>6. Open(i)' \subseteq Open(i) \cup {Len(log[i]) + 1}
    <3>1. log'[i] = Append(log[i], "RETRYING")
      BY <1>1, <2>2
    <3>2. ASSUME NEW n \in Open(i)' PROVE n \in Open(i) \cup {Len(log[i]) + 1}
      <4>1. n \in 1..(Len(log[i]) + 1) /\ log'[i][n] = "RETRYING"
        BY <2>5, <3>1, <3>2 DEF Open
      <4> QED
        BY <2>2, <2>5, <3>1, <4>1 DEF Open
    <3> QED
      BY <3>2
  <2>7. \A k \in Jobs \ {i} : Open(k)' = Open(k)
    BY <1>1, <2>2 DEF Open
  <2>8. \A u \in Workers \ {w}, k \in Jobs : Owns(u, k) => Owns(u, k)'
    BY <1>3 DEF Owns
  <2>9. ASSUME NEW k \in Jobs, NEW n \in Orphans(k)' PROVE n \in Orphans(k)
    <3>1. n \in Open(k)' /\ \A u \in Workers : Owns(u, k)' => worker'[u].num # n
      BY <2>9 DEF Orphans
    <3>2. n \in Open(k)
      BY <2>4, <2>6, <2>7, <3>1
    <3>3. \A u \in Workers : Owns(u, k) => worker[u].num # n
      BY <1>1, <1>3, <2>8, <3>1 DEF Owns
    <3> QED
      BY <3>2, <3>3 DEF Orphans
  <2> QED
    BY <1>2, <2>9, NothingLost
<1> QED
  BY <1>4, <1>5

LEMMA CloseAnswered ==
    ASSUME Answered, Sound, NEW w \in Workers, CloseReady(w) \/ CloseFailed(w)
    PROVE  Answered'
<1>1. PICK final \in {"READY", "FAILED"}, at \in {"close", "failed"} :
          CloseAttempt(w, at, final, "read")
  BY DEF CloseReady, CloseFailed
<1>2. /\ worker[w] \in WorkRec /\ worker[w].job \in Jobs /\ worker[w].at = at
      /\ worker \in [Workers -> WorkRec] /\ log \in [Jobs -> Rows]
  BY <1>1, Parts DEF CloseAttempt, Rows
<1>3. PICK i \in Jobs, m \in Nat : i = worker[w].job /\ m = worker[w].num
  BY <1>2 DEF WorkRec
<1>4. log' = [log EXCEPT ![i] = [log[i] EXCEPT ![m] = final]]
  BY <1>1, <1>2, <1>3 DEF CloseAttempt
<1>5. LostOnly
  BY <1>1, LostGrows DEF CloseAttempt
<1>6. \A u \in Workers \ {w} : worker'[u] = worker[u]
  BY WorksOn DEF WorkerStep
<1>7. Open(i)' \subseteq Open(i) \ {m}
  <2>1. log'[i] = [log[i] EXCEPT ![m] = final]
    BY <1>2, <1>4
  <2>2. PICK s \in Rows : s = log[i]
    BY <1>2
  <2>3. s \in [1..Len(s) -> {"RETRYING", "READY", "FAILED"}] /\ DOMAIN s = 1..Len(s)
    BY LenProperties DEF Rows
  <2>4. /\ DOMAIN [s EXCEPT ![m] = final] = DOMAIN s
        /\ \A n \in DOMAIN s : [s EXCEPT ![m] = final][n] = IF n = m THEN final ELSE s[n]
    BY <2>3
  <2> QED
    BY <2>1, <2>2, <2>4 DEF Open
<1>8. \A k \in Jobs \ {i} : Open(k)' = Open(k)
  BY <1>2, <1>4 DEF Open
<1>9. ASSUME NEW k \in Jobs, NEW n \in Orphans(k)' PROVE n \in Orphans(k)
  <2>1. n \in Open(k)' /\ \A u \in Workers : Owns(u, k)' => worker'[u].num # n
    BY <1>9 DEF Orphans
  <2>2. n \in Open(k)
    BY <1>7, <1>8, <2>1
  <2>3. \A u \in Workers \ {w} : Owns(u, k) => worker[u].num # n
    BY <1>6, <2>1 DEF Owns
  <2>4. Owns(w, k) => worker[w].num # n
    BY <1>3, <1>7, <2>1 DEF Owns
  <2> QED
    BY <2>2, <2>3, <2>4 DEF Orphans
<1> QED
  BY <1>5, <1>9, NothingLost

LEMMA LostAnswered ==
    ASSUME Answered, Sound, NEW w \in Workers, TimeLimit(w) \/ Crash(w),
           worker[w].at # "ack"
    PROVE  Answered'
<1>1. /\ spent["crash"] + spent["limit"] + 1 <= spent'["crash"] + spent'["limit"]
      /\ LostOnly
  <2>1. CASE TimeLimit(w)
    <3>1. /\ spent'["limit"] = spent["limit"] + 1 /\ spent'["crash"] = spent["crash"]
          /\ spent["crash"] \in Nat /\ spent["limit"] \in Nat
      BY <2>1, SpendType, Parts DEF TimeLimit, Bounded
    <3> QED
      BY <3>1 DEF LostOnly
  <2>2. CASE Crash(w)
    <3>1. /\ spent'["crash"] = spent["crash"] + 1 /\ spent'["limit"] = spent["limit"]
          /\ spent["crash"] \in Nat /\ spent["limit"] \in Nat
      BY <2>2, SpendType, Parts DEF Crash, Bounded
    <3> QED
      BY <3>1 DEF LostOnly
  <2> QED
    BY <2>1, <2>2
<1>2. log' = log
  BY DEF TimeLimit, Crash, tables
<1>3. \A u \in Workers \ {w} : worker'[u] = worker[u]
  BY WorksOn
<1>4. PICK x : x = worker[w].num
  OBVIOUS
<1>5. ASSUME NEW k \in Jobs, NEW n \in Orphans(k)' PROVE n \in Orphans(k) \cup {x}
  BY <1>2, <1>3, <1>4, <1>5 DEF Orphans, Open, Owns
<1> QED
  BY <1>1, <1>5, OneLost

LEMMA WorkAnswered ==
    ASSUME Answered, Sound, NEW w \in Workers,
           WorkerStep(w) \/ Progress(w) \/ TimeLimit(w) \/ Crash(w) \/ Redeliver(w)
    PROVE  Answered'
<1>1. CASE (TimeLimit(w) \/ Crash(w)) /\ worker[w].at # "ack"
  BY <1>1, LostAnswered
<1>2. CASE CreateAttempt(w)
  BY <1>2, CreateAnswered
<1>3. CASE CloseReady(w) \/ CloseFailed(w)
  BY <1>3, CloseAnswered
<1>4. {"broker", "redeliver", "undeleted", "unacked"} \subseteq Bounded
      /\ {MaxBrokerFail, MaxRedeliver, MaxUndeleted, MaxUnacked} \subseteq Nat
  BY ConstantsAssumption DEF Bounded
<1>5. CASE Redeliver(w)
  <2>1. LostOnly
    BY <1>4, <1>5, LostGrows DEF Redeliver
  <2>2. log' = log /\ worker' = worker
    BY <1>5 DEF Redeliver, tables
  <2>3. \A j \in Jobs : Orphans(j)' = Orphans(j)
    BY <2>2 DEF Orphans, Open, Owns
  <2> QED
    BY <2>1, <2>3, NothingLost
<1>6. CASE \/ CountAttempt(w) \/ Stage(w) \/ StageGroup(w) \/ PullDisk(w) \/ Convert(w)
           \/ SubmitPod(w) \/ CopyStaged(w) \/ WaitPod(w) \/ SetVerifying(w) \/ Verify(w)
           \/ ReadGroup(w) \/ WriteAggregate(w) \/ DecideRetry(w) \/ PublishRetry(w)
           \/ Progress(w)
  <2>1. worker[w].at # "attempt"
    BY <1>6 DEF CountAttempt, Stage, StageGroup, PullDisk, Convert, SubmitPod, CopyStaged,
       WaitPod, SetVerifying, Verify, ReadGroup, WriteAggregate, DecideRetry, PublishRetry,
       Progress, SetStage
  <2>2. /\ log' = log
        /\ \/ worker'[w].at \notin {"attempt", "ack"} /\ worker'[w].num = worker[w].num
           \/ worker[w].num = 0
    BY <1>6, <2>1, NumberKept
  <2>3. /\ \A u \in Workers \ {w} : worker'[u] = worker[u]
        /\ worker'[w] = IdleWorker \/ worker'[w].job = worker[w].job
    BY <1>6, WorksOn, OverTypes DEF WorkerStep
  <2>4. spent' = spent \/ Spend("broker", MaxBrokerFail) \/ Spend("undeleted", MaxUndeleted)
    BY <1>6 DEF CountAttempt, Stage, StageGroup, PullDisk, Convert, SubmitPod, CopyStaged,
       WaitPod, SetVerifying, Verify, ReadGroup, WriteAggregate, DecideRetry, PublishRetry,
       Progress, SetStage, DeletePod
  <2>5. LostOnly
    BY <1>4, <2>4, LostGrows
  <2>6. worker'[w] = IdleWorker => worker[w].num = 0 \/ worker'[w].num = 0
    BY DEF IdleWorker
  <2>7. ASSUME NEW u \in Workers, NEW j \in Jobs, Owns(u, j)
        PROVE  \/ Owns(u, j)' /\ worker'[u].num = worker[u].num
               \/ worker[u].num = 0
    BY <2>2, <2>3, <2>6, <2>7 DEF Owns
  <2> QED
    BY <2>2, <2>5, <2>7, OwnersStay, NothingLost
<1>7. CASE Ack(w) \/ (Crash(w) /\ worker[w].at = "ack")
  <2>1. /\ worker[w].at = "ack" /\ log' = log
        /\ spent' = spent \/ Spend("unacked", MaxUnacked)
    BY <1>7 DEF Ack, Crash, tables
  <2>2. LostOnly
    BY <1>4, <2>1, LostGrows
  <2>3. \A u \in Workers \ {w} : worker'[u] = worker[u]
    BY <1>7, WorksOn DEF WorkerStep
  <2>4. \A u \in Workers, j \in Jobs :
            Owns(u, j) => Owns(u, j)' /\ worker'[u].num = worker[u].num
    BY <2>1, <2>3 DEF Owns
  <2> QED
    BY <2>1, <2>2, <2>4, OwnersStay, NothingLost
<1>8. TimeLimit(w) => worker[w].at # "ack"
  BY DEF TimeLimit
<1> QED
  BY <1>1, <1>2, <1>3, <1>5, <1>6, <1>7, <1>8 DEF WorkerStep

LEMMA AnsweredStep == Answered /\ Sound /\ [Next]_vars => Answered'
<1> SUFFICES ASSUME Answered, Sound, [Next]_vars PROVE Answered'
  OBVIOUS
<1>1. ASSUME LostOnly, log' = log, worker' = worker PROVE Answered'
  <2>1. \A j \in Jobs : Orphans(j)' = Orphans(j)
    BY <1>1 DEF Orphans, Open, Owns
  <2> QED
    BY <1>1, <2>1, NothingLost
<1>2. ASSUME NEW p \in pods, PodEnds(p) PROVE Answered'
  BY <1>1, <1>2, LostGrows DEF PodEnds, tables
<1>3. CASE UNCHANGED vars
  BY <1>1, <1>3, LostGrows DEF vars, tables
<1>4. ASSUME NEW w \in Workers, NEW msg \in Messages, Receive(w, msg[1], msg[2])
      PROVE  Answered'
  <2>1. LostOnly /\ log' = log
    BY <1>4, LostGrows DEF Receive, tables
  <2>2. worker \in [Workers -> WorkRec] /\ WorkOk(worker[w], log)
    BY Parts
  <2>3. worker[w].job = None /\ \A u \in Workers \ {w} : worker'[u] = worker[u]
    BY <1>4, <2>2 DEF Receive, WorkOk
  <2>4. \A u \in Workers, j \in Jobs :
            Owns(u, j) => Owns(u, j)' /\ worker'[u].num = worker[u].num
    BY <2>3, ConstantsAssumption DEF Owns
  <2> QED
    BY <2>1, <2>4, OwnersStay, NothingLost
<1>5. ASSUME NEW c \in Clients, HandlerStep(c) \/ CancelBegin(c) \/ RetryBegin(c)
      PROVE  Answered'
  <2>1. {"broker", "cancel", "retry"} \subseteq Bounded
        /\ {MaxBrokerFail, MaxCancel, MaxRetry} \subseteq Nat
    BY ConstantsAssumption DEF Bounded
  <2>2. \/ spent' = spent
        \/ Spend("broker", MaxBrokerFail) \/ Spend("cancel", MaxCancel)
        \/ Spend("retry", MaxRetry)
    BY <1>5 DEF HandlerStep, CancelBegin, RetryBegin, Enqueue, Unqueue, CancelTest, RetryClear,
       RetryPublish, Ungroup, CancelMark, CancelGroup, RetryMark, MarkJob, RequestRead,
       RequestWrite
  <2>3. log' = log /\ worker' = worker
    BY <1>5 DEF HandlerStep, CancelBegin, RetryBegin, Enqueue, Unqueue, CancelTest, RetryClear,
       RetryPublish, Ungroup, CancelMark, CancelGroup, RetryMark, MarkJob, RequestRead,
       RequestWrite, tables
  <2> QED
    BY <1>1, <2>1, <2>2, <2>3, LostGrows
<1> QED
  BY <1>2, <1>3, <1>4, <1>5, WorkAnswered DEF Next, Rest

LEMMA InitAnswered == Init => Answered
<1> SUFFICES ASSUME Init, NEW j \in Jobs
             PROVE  /\ IsFiniteSet(Orphans(j))
                    /\ Cardinality(Orphans(j)) <= spent["crash"] + spent["limit"]
  BY DEF Answered
<1>1. Orphans(j) = {}
  BY DEF Init, Orphans, Open
<1> QED
  BY <1>1, FS_EmptySet DEF Init, Bounded

(* The owned attempts are no more than the workers of the job.              *)
LEMMA OwnedCount ==
    ASSUME Sound, Accounted, Answered
    PROVE  OpenAttemptsHaveOwners
<1> SUFFICES ASSUME NEW j \in Jobs
             PROVE  Cardinality({n \in DOMAIN log[j] : log[j][n] = "RETRYING"})
                        <= Cardinality(Busy(j)) + spent["crash"] + spent["limit"]
  BY DEF OpenAttemptsHaveOwners
<1> DEFINE owners == {w \in Workers : Owns(w, j)}
           owned == {worker[w].num : w \in owners}
           number == [w \in owners |-> worker[w].num]
<1>1. owners \subseteq Busy(j)
  BY DEF Owns, Busy
<1>2. /\ IsFiniteSet(owners) /\ Cardinality(owners) <= Cardinality(Busy(j))
      /\ Cardinality(owners) \in Nat /\ Cardinality(Busy(j)) \in Nat
  BY <1>1, SetShrinks DEF Accounted
<1>3. number \in Surjection(owners, owned)
  BY DEF Surjection
<1>4. /\ IsFiniteSet(owned) /\ Cardinality(owned) <= Cardinality(owners)
      /\ Cardinality(owned) \in Nat
  BY <1>2, <1>3, FS_Surjection, FS_CardinalityType
<1>5. Open(j) \subseteq Orphans(j) \cup owned
  BY DEF Orphans
<1>6. /\ IsFiniteSet(Orphans(j)) /\ Cardinality(Orphans(j)) <= spent["crash"] + spent["limit"]
      /\ Cardinality(Orphans(j)) \in Nat
  BY FS_CardinalityType DEF Answered
<1>7. /\ IsFiniteSet(Orphans(j) \cup owned)
      /\ Cardinality(Orphans(j) \cup owned) <= Cardinality(Orphans(j)) + Cardinality(owned)
      /\ Cardinality(Orphans(j) \cup owned) \in Nat
  <2>1. /\ IsFiniteSet(Orphans(j) \cup owned)
        /\ Cardinality(Orphans(j) \cup owned)
              = Cardinality(Orphans(j)) + Cardinality(owned) - Cardinality(Orphans(j) \cap owned)
    BY <1>4, <1>6, FS_Union
  <2>2. Cardinality(Orphans(j) \cap owned) \in Nat
    <3>1. Orphans(j) \cap owned \subseteq owned
      OBVIOUS
    <3> QED
      BY <1>4, <3>1, SetShrinks
  <2>3. Cardinality(Orphans(j) \cup owned) \in Nat
    BY <2>1, FS_CardinalityType
  <2> QED
    BY <1>4, <1>6, <2>1, <2>2, <2>3
<1>8. Cardinality(Open(j)) <= Cardinality(Orphans(j) \cup owned) /\ Cardinality(Open(j)) \in Nat
  BY <1>5, <1>7, SetShrinks
<1>9. spent["crash"] \in Nat /\ spent["limit"] \in Nat
  BY Parts DEF Bounded
<1>10. Cardinality(Open(j)) <= Cardinality(Busy(j)) + spent["crash"] + spent["limit"]
  BY <1>2, <1>4, <1>6, <1>7, <1>8, <1>9
<1> QED
  BY <1>10 DEF Open

(* Every provisional attempt has a worker that will close it, but for those *)
(* whose worker died or ran out of time.                                    *)
THEOREM AttemptsAnswered == Spec => []AttemptsConsistent
<1>1. Accounted /\ Answered /\ Sound /\ [Next]_vars => Accounted' /\ Answered' /\ Sound'
  BY AccountedStep, AnsweredStep, StepSound
<1>2. Accounted /\ Answered /\ Sound => AttemptsConsistent
  BY OwnedCount DEF AttemptsConsistent, Sound
<1> QED
  BY <1>1, <1>2, InitSound, InitAccounted, InitAnswered, PTL DEF Spec

-----------------------------------------------------------------------------
(* A CANCELLED JOB STAYS                                                   *)

(* What a request that is about to change jobs has seen of them.            *)
Unspoilt ==
    \A c \in Clients :
        /\ request[c].at \in {"enqueue", "unqueue"}
              => \A j \in Jobs : job[j].status # "CANCELLED"
        /\ request[c].at = "retry" /\ request[c].mark \in Jobs
              => job[request[c].mark].status # "CANCELLED"

(* A worker writes to its own job only, and never CANCELLED.                *)
LEMMA WritesOwn ==
    ASSUME Sound, NEW w \in Workers,
           WorkerStep(w) \/ Progress(w) \/ TimeLimit(w) \/ Crash(w)
    PROVE  \A k \in Jobs :
               \/ job'[k] = job[k]
               \/ k = worker[w].job /\ job'[k].status \in ConversionStatus \ {"CANCELLED"}
               \/ k = worker[w].job /\ job'[k].status = job[k].status
<1>1. /\ job \in [Jobs -> JobRec] /\ worker[w] \in WorkRec
      /\ worker[w].at # "idle" => worker[w].job \in Jobs
  BY Parts
<1> DEFINE Post == \A k \in Jobs :
               \/ job'[k] = job[k]
               \/ k = worker[w].job /\ job'[k].status \in ConversionStatus \ {"CANCELLED"}
               \/ k = worker[w].job /\ job'[k].status = job[k].status
<1>2. ASSUME NEW s \in ConversionStatus \ {"CANCELLED"}, SetJobStatus(worker[w].job, s),
             worker[w].at # "idle"
      PROVE  Post
  BY <1>1, <1>2, StatusType
<1>3. ASSUME NEW b \in Bucket, SetFailed(worker[w].job, b), worker[w].at # "idle"
      PROVE  Post
  BY <1>1, <1>3, FailedType DEF ConversionStatus
<1>4. {"permanent", "transient"} = Bucket
      /\ {"STAGING", "CONVERTING", "VERIFYING", "READY", "RETRYING"}
             \subseteq ConversionStatus \ {"CANCELLED"}
  BY DEF Bucket, ConversionStatus, InFlight
<1>5. CASE job' = job
  BY <1>5
<1>6. CASE CountAttempt(w)
  <2>1. job' = [job EXCEPT ![worker[w].job].attempts = worker[w].num]
    BY <1>6 DEF CountAttempt
  <2> QED
    BY <1>1, <2>1 DEF JobRec
<1>7. CASE Stage(w) \/ Progress(w) \/ Convert(w) \/ SetVerifying(w)
  BY <1>2, <1>4, <1>7 DEF Stage, Progress, Convert, SetVerifying, SetStage
<1>8. CASE \/ PullDisk(w) \/ SubmitPod(w) \/ CopyStaged(w) \/ WaitPod(w) \/ Verify(w)
           \/ DecideRetry(w) \/ TimeLimit(w)
  <2>1. worker[w].at # "idle"
    BY <1>8 DEF PullDisk, SubmitPod, CopyStaged, WaitPod, Verify, DecideRetry, TimeLimit
  <2>2. \/ job' = job
        \/ \E b \in Bucket : SetFailed(worker[w].job, b)
        \/ SetJobStatus(worker[w].job, "READY") \/ SetJobStatus(worker[w].job, "RETRYING")
    BY <1>4, <1>8 DEF PullDisk, SubmitPod, CopyStaged, WaitPod, Verify, DecideRetry, TimeLimit,
       Fail
  <2> QED
    BY <1>2, <1>3, <1>4, <1>5, <2>1, <2>2
<1>9. CASE \/ CreateAttempt(w) \/ StageGroup(w) \/ CloseReady(w) \/ CloseFailed(w)
           \/ ReadGroup(w) \/ WriteAggregate(w) \/ PublishRetry(w) \/ Ack(w) \/ Crash(w)
  BY <1>5, <1>9 DEF CreateAttempt, StageGroup, CloseReady, CloseFailed, CloseAttempt, ReadGroup,
     WriteAggregate, PublishRetry, Ack, Crash, tables
<1> QED
  BY <1>6, <1>7, <1>8, <1>9 DEF WorkerStep

LEMMA UnspoiltStep ==
    ASSUME Clients = {Submitter}, Unspoilt, Sound, [Next]_vars
    PROVE  Unspoilt'
<1>1. request \in [Clients -> ReqRec] /\ job \in [Jobs -> JobRec]
  BY Parts
<1>2. ASSUME request' = request,
             \A k \in Jobs : job'[k].status = "CANCELLED" => job[k].status = "CANCELLED"
      PROVE  Unspoilt'
  BY <1>2 DEF Unspoilt
<1>3. ASSUME NEW w \in Workers,
             WorkerStep(w) \/ Progress(w) \/ TimeLimit(w) \/ Crash(w) \/ Redeliver(w)
      PROVE  Unspoilt'
  <2>1. request' = request
    BY <1>3 DEF WorkerStep, Progress, TimeLimit, Crash, Redeliver, CreateAttempt, CountAttempt,
       Stage, StageGroup, PullDisk, Convert, SubmitPod, CopyStaged, WaitPod, SetVerifying, Verify,
       CloseReady, CloseFailed, CloseAttempt, ReadGroup, WriteAggregate, DecideRetry,
       PublishRetry, Ack, SetStage
  <2>2. \A k \in Jobs : job'[k].status = "CANCELLED" => job[k].status = "CANCELLED"
    <3>1. CASE Redeliver(w)
      BY <3>1 DEF Redeliver, tables
    <3>2. CASE WorkerStep(w) \/ Progress(w) \/ TimeLimit(w) \/ Crash(w)
      BY <3>2, WritesOwn
    <3> QED
      BY <1>3, <3>1, <3>2
  <2> QED
    BY <1>2, <2>1, <2>2
<1>4. ASSUME UNCHANGED <<job, request>> PROVE Unspoilt'
  BY <1>2, <1>4
<1>5. ASSUME NEW c \in Clients, HandlerStep(c) \/ CancelBegin(c) \/ RetryBegin(c)
      PROVE  Unspoilt'
  <2>1. \A d \in Clients : d = c
    BY <1>5
  <2>2. request[c] \in ReqRec
    BY <1>1
  <2>3. CASE CancelBegin(c) \/ \E j \in Jobs : CancelTest(c, j)
    <3>1. request'[c].at \in {"cancel", "read"}
      <4>1. CASE CancelBegin(c)
        BY <1>1, <2>2, <4>1 DEF CancelBegin, ReqRec
      <4>2. ASSUME NEW j \in Jobs, CancelTest(c, j) PROVE request'[c].at \in {"cancel", "read"}
        BY <1>1, <2>2, <4>2 DEF CancelTest, ReqRec
      <4> QED
        BY <2>3, <4>1, <4>2
    <3> QED
      BY <2>1, <3>1 DEF Unspoilt
  <2>4. CASE RetryBegin(c)
    <3>1. request'[c].at = "retry" /\ request'[c].mark = request[c].mark
      BY <1>1, <2>2, <2>4 DEF RetryBegin, ReqRec
    <3>2. request[c].mark = None
      BY <2>4, Parts DEF RetryBegin, ReqOk
    <3> QED
      BY <2>1, <3>1, <3>2, ConstantsAssumption DEF Unspoilt
  <2>5. CASE Ungroup(c) \/ CancelGroup(c) \/ RequestRead(c) \/ RequestWrite(c)
    <3>1. request'[c].at \in {"idle", "write", "cancelled", "publish"}
      <4>1. CASE Ungroup(c) \/ CancelGroup(c)
        BY <1>1, <4>1 DEF Ungroup, CancelGroup, Respond, IdleRequest
      <4>2. CASE RequestRead(c)
        BY <1>1, <2>2, <4>2 DEF RequestRead, ReqRec
      <4>3. CASE RequestWrite(c)
        BY <1>1, <2>2, <4>3 DEF RequestWrite, ReqRec
      <4> QED
        BY <2>5, <4>1, <4>2, <4>3
    <3> QED
      BY <2>1, <3>1 DEF Unspoilt
  <2>6. CASE CancelMark(c) \/ RetryMark(c)
    <3>1. /\ request'[c].mark = None
          /\ request'[c].at \in {"read", "cancel", "retry"}
      BY <1>1, <2>2, <2>6 DEF CancelMark, RetryMark, MarkJob, ReqRec
    <3> QED
      BY <2>1, <3>1, ConstantsAssumption DEF Unspoilt
  <2>7. ASSUME NEW j \in Jobs, Enqueue(c, j) PROVE Unspoilt'
    <3>1. job' = job /\ request[c].at = "enqueue"
      BY <2>7 DEF Enqueue, tables
    <3>2. request'[c].at \in {"idle", "enqueue", "unqueue"}
      <4>1. CASE request' = [request EXCEPT ![c] = IdleRequest]
        BY <1>1, <4>1 DEF IdleRequest
      <4>2. CASE request' = [request EXCEPT ![c] = [request[c] EXCEPT !.todo = @ \ {j}]]
        BY <1>1, <2>2, <3>1, <4>2 DEF ReqRec
      <4>3. CASE request' = [request EXCEPT ![c].at = "unqueue", ![c].todo = Jobs]
        BY <1>1, <2>2, <4>3 DEF ReqRec
      <4> QED
        BY <2>7, <4>1, <4>2, <4>3 DEF Enqueue
    <3> QED
      BY <2>1, <3>1, <3>2 DEF Unspoilt
  <2>8. ASSUME NEW j \in Jobs, Unqueue(c, j) PROVE Unspoilt'
    <3>1. /\ \A k \in Jobs : job'[k].status = "CANCELLED" => job[k].status = "CANCELLED"
          /\ request[c].at = "unqueue"
      BY <2>8, StatusType DEF Unqueue, ConversionStatus
    <3>2. request'[c].at \in {"ungroup", "unqueue"}
      BY <1>1, <2>2, <2>8 DEF Unqueue, ReqRec
    <3> QED
      BY <2>1, <3>1, <3>2 DEF Unspoilt
  <2>9. ASSUME NEW j \in Jobs, RetryClear(c, j) PROVE Unspoilt'
    <3>1. \A k \in Jobs : job'[k].status = job[k].status
      BY <1>1, <2>9 DEF RetryClear, JobRec
    <3>2. \/ request'[c].at = "idle"
          \/ /\ request'[c].at \in {"retry", "read"}
             /\ request'[c].mark # None => request'[c].mark = j /\ job[j].status = "FAILED"
      <4>1. CASE request' = [request EXCEPT ![c] = IdleRequest]
        BY <1>1, <4>1 DEF IdleRequest
      <4>2. CASE \E todo, ids, at, mark :
                    /\ request' = [request EXCEPT ![c] = [@ EXCEPT
                           !.todo = todo, !.ids = ids, !.mark = mark, !.at = at]]
                    /\ at \in {"retry", "read"}
                    /\ mark # None => mark = j /\ job[j].status = "FAILED"
        BY <1>1, <2>2, <4>2 DEF ReqRec
      <4> QED
        BY <2>9, <4>1, <4>2 DEF RetryClear
    <3> QED
      BY <2>1, <3>1, <3>2, ConstantsAssumption DEF Unspoilt
  <2>10. ASSUME NEW j \in Jobs, RetryPublish(c, j) PROVE Unspoilt'
    <3>1. request'[c].at \in {"idle", "publish"}
      <4>1. CASE request' = [request EXCEPT ![c] = IdleRequest]
        BY <1>1, <4>1 DEF IdleRequest
      <4>2. CASE request' = [request EXCEPT ![c] = [request[c] EXCEPT !.ids = @ \ {j}]]
        BY <1>1, <2>2, <2>10, <4>2 DEF ReqRec, RetryPublish
      <4> QED
        BY <2>10, <4>1, <4>2 DEF RetryPublish, Respond
    <3> QED
      BY <2>1, <3>1 DEF Unspoilt
  <2> QED
    BY <1>5, <2>3, <2>4, <2>5, <2>6, <2>7, <2>8, <2>9, <2>10 DEF HandlerStep
<1>6. ASSUME NEW w \in Workers, NEW msg \in Messages, Receive(w, msg[1], msg[2])
      PROVE  Unspoilt'
  BY <1>4, <1>6 DEF Receive, tables
<1>7. ASSUME NEW p \in pods, PodEnds(p) PROVE Unspoilt'
  BY <1>4, <1>7 DEF PodEnds, tables
<1>8. CASE UNCHANGED vars
  BY <1>4, <1>8 DEF vars, tables
<1> QED
  BY <1>3, <1>5, <1>6, <1>7, <1>8 DEF Next, Rest

LEMMA CancelledStep ==
    ASSUME Unspoilt, Sound, [Next]_vars, NEW j \in Jobs,
           job[j].status = "CANCELLED", Busy(j) = {}
    PROVE  job'[j].status = "CANCELLED" /\ Busy(j)' = {}
<1>1. /\ request \in [Clients -> ReqRec] /\ job \in [Jobs -> JobRec]
      /\ worker \in [Workers -> WorkRec]
  BY Parts
<1>2. \A w \in Workers : worker[w].job = j => worker[w].at = "ack"
  BY DEF Busy
<1>3. ASSUME worker' = worker PROVE Busy(j)' = {}
  BY <1>3 DEF Busy
<1>4. ASSUME NEW w \in Workers,
             WorkerStep(w) \/ Progress(w) \/ TimeLimit(w) \/ Crash(w)
      PROVE  job'[j].status = "CANCELLED" /\ Busy(j)' = {}
  <2>1. job'[j] = job[j]
    <3>1. CASE worker[w].job = j
      BY <1>2, <1>4, <3>1, OnlyAck DEF tables
    <3>2. CASE worker[w].job # j
      BY <1>4, <3>2, WritesOwn
    <3> QED
      BY <3>1, <3>2
  <2>2. ASSUME worker'[w].job = j, worker'[w].at # "ack" PROVE FALSE
    <3>1. worker'[w] # IdleWorker
      BY <2>2, ConstantsAssumption DEF IdleWorker
    <3>2. worker[w].at # "idle"
      BY <1>4, WorksOn
    <3>3. worker'[w] # Over(w)
      BY <2>2, <3>2, OverTypes
    <3> QED
      BY <1>2, <1>4, <2>2, <3>1, <3>3, WorksOn
  <2>3. \A u \in Workers \ {w} : worker'[u] = worker[u]
    BY <1>4, WorksOn
  <2> QED
    BY <1>2, <2>1, <2>2, <2>3 DEF Busy
<1>5. ASSUME NEW w \in Workers, NEW msg \in Messages, Receive(w, msg[1], msg[2])
      PROVE  job'[j].status = "CANCELLED" /\ Busy(j)' = {}
  <2>1. worker' = worker \/ worker'[w].job # j
    BY <1>1, <1>5 DEF Receive, IdleWorker
  <2>2. \A u \in Workers \ {w} : worker'[u].job = j => worker'[u].at = "ack"
    BY <1>1, <1>2, <1>5 DEF Receive
  <2> QED
    BY <1>3, <1>5, <2>1, <2>2 DEF Receive, Busy, tables
<1>6. ASSUME NEW c \in Clients, HandlerStep(c) \/ CancelBegin(c) \/ RetryBegin(c)
      PROVE  job'[j].status = "CANCELLED" /\ Busy(j)' = {}
  <2>1. worker' = worker
    BY <1>6 DEF HandlerStep, CancelBegin, RetryBegin, Enqueue, Unqueue, CancelTest, RetryClear,
       RetryPublish, Ungroup, CancelMark, CancelGroup, RetryMark, MarkJob, RequestRead,
       RequestWrite
  <2>2. CASE job' = job
    BY <1>3, <2>1, <2>2
  <2>3. CASE CancelMark(c)
    <3>1. PICK k \in Jobs : k = request[c].mark /\ SetJobStatus(k, "CANCELLED")
      BY <1>1, <2>3 DEF CancelMark, MarkJob, ReqRec
    <3>2. job'[j].status = "CANCELLED"
      BY <3>1, StatusType DEF ConversionStatus
    <3> QED
      BY <1>3, <2>1, <3>2
  <2>4. CASE RetryMark(c)
    <3>1. PICK k \in Jobs : /\ k = request[c].mark /\ SetJobStatus(k, "RETRYING")
                            /\ request[c].at = "retry"
      BY <1>1, <2>4 DEF RetryMark, MarkJob, ReqRec
    <3>2. k # j
      BY <3>1 DEF Unspoilt
    <3>3. job'[j] = job[j]
      BY <3>1, <3>2, StatusType DEF ConversionStatus, InFlight
    <3> QED
      BY <1>3, <2>1, <3>3
  <2>5. ASSUME NEW k \in Jobs, Unqueue(c, k) PROVE FALSE
    BY <2>5 DEF Unqueue, Unspoilt
  <2>6. ASSUME NEW k \in Jobs, RetryClear(c, k)
        PROVE  job'[j].status = "CANCELLED" /\ Busy(j)' = {}
    <3>1. job'[j].status = job[j].status
      BY <1>1, <2>6 DEF RetryClear, JobRec
    <3> QED
      BY <1>3, <2>1, <3>1
  <2>7. \/ job' = job \/ CancelMark(c) \/ RetryMark(c)
        \/ \E k \in Jobs : Unqueue(c, k) \/ RetryClear(c, k)
    BY <1>6 DEF HandlerStep, CancelBegin, RetryBegin, Enqueue, CancelTest, RetryPublish, Ungroup,
       CancelGroup, RequestRead, RequestWrite, tables
  <2> QED
    BY <2>2, <2>3, <2>4, <2>5, <2>6, <2>7
<1>7. ASSUME UNCHANGED <<job, worker>>
      PROVE  job'[j].status = "CANCELLED" /\ Busy(j)' = {}
  BY <1>3, <1>7
<1> QED
  BY <1>4, <1>5, <1>6, <1>7 DEF Next, Rest, Redeliver, PodEnds, vars, tables

LEMMA InitUnspoilt == Init => Unspoilt
  BY ConstantsAssumption DEF Init, Unspoilt, IdleRequest

(* While the requests on the group come one at a time, a job that is        *)
(* CANCELLED with no worker on it stays as it is.                           *)
THEOREM CancelHolds ==
    ASSUME Clients = {Submitter}
    PROVE  Spec => CancelledJobStays
<1>1. Unspoilt /\ Sound /\ [Next]_vars => Unspoilt' /\ Sound'
  BY UnspoiltStep, StepSound
<1>2. Unspoilt /\ Sound /\ [Next]_vars
        => [\A j \in Jobs : job[j].status = "CANCELLED" /\ Busy(j) = {}
              => job'[j].status = "CANCELLED" /\ Busy(j)' = {}]_vars
  BY CancelledStep
<1> QED
  BY <1>1, <1>2, InitSound, InitUnspoilt, PTL DEF Spec, CancelledJobStays

-----------------------------------------------------------------------------
(* THE OUTPUT OF A READY JOB                                               *)
(*                                                                         *)
(* Where no worker dies, no message is redelivered and no client retries:  *)
(* time limits, cancels, automatic retries, brokers that do not answer and *)
(* cluster Jobs that cannot be deleted are all allowed.                    *)

Undisturbed == MaxCrash = 0 /\ MaxUnacked = 0 /\ MaxRedeliver = 0 /\ MaxRetry = 0

Unspent == /\ \A what \in {"crash", "unacked", "redeliver", "retry"} : spent[what] = 0
           /\ \A c \in Clients : request[c].at # "retry" /\ request[c].ids = {}

LEMMA UnspentStep ==
    ASSUME Undisturbed, Unspent, Sound, [Next]_vars
    PROVE  /\ Unspent'
           /\ \A w \in Workers : ~Crash(w) /\ ~Redeliver(w)
           /\ \A c \in Clients : ~RetryBegin(c) /\ ~RetryMark(c)
           /\ \A c \in Clients, j \in Jobs : ~RetryClear(c, j) /\ ~RetryPublish(c, j)
<1>1. /\ \A w \in Workers : ~Crash(w) /\ ~Redeliver(w)
      /\ \A c \in Clients : ~RetryBegin(c)
  BY DEF Undisturbed, Unspent, Crash, Redeliver, RetryBegin, Spend
<1>2. /\ \A c \in Clients : ~RetryMark(c)
      /\ \A c \in Clients, j \in Jobs : ~RetryClear(c, j) /\ ~RetryPublish(c, j)
  BY DEF Unspent, RetryClear, RetryPublish, RetryMark, MarkJob
<1>3. /\ spent \in [Bounded -> Nat] /\ request \in [Clients -> ReqRec]
      /\ \A c \in Clients : request[c] \in ReqRec /\ ReqOk(request[c])
  BY Parts
<1>4. ASSUME \/ spent' = spent
             \/ \E what \in Bounded \ {"crash", "unacked", "redeliver", "retry"} :
                    \E max : Spend(what, max)
      PROVE  \A k \in {"crash", "unacked", "redeliver", "retry"} : spent'[k] = 0
  BY <1>3, <1>4, SpendType DEF Unspent, Bounded
<1>5. ASSUME NEW c \in Clients, HandlerStep(c) \/ CancelBegin(c) PROVE Unspent'
  <2>1. spent' = spent \/ Spend("broker", MaxBrokerFail) \/ Spend("cancel", MaxCancel)
    BY <1>5 DEF HandlerStep, CancelBegin, Enqueue, Unqueue, CancelTest, RetryClear, RetryPublish,
       Ungroup, CancelMark, CancelGroup, RetryMark, MarkJob, RequestRead, RequestWrite
  <2>2. ASSUME NEW at \in {"idle", "enqueue", "unqueue", "ungroup", "cancel", "read", "write",
                           "cancelled", "publish"},
               request'[c].at = at, request'[c].ids = {},
               \A d \in Clients \ {c} : request'[d] = request[d]
        PROVE  \A d \in Clients : request'[d].at # "retry" /\ request'[d].ids = {}
    BY <2>2 DEF Unspent
  <2>3. \A d \in Clients : request'[d].at # "retry" /\ request'[d].ids = {}
    <3>1. request[c].at # "retry" /\ request[c].ids = {}
      BY DEF Unspent
    <3>2. CASE CancelBegin(c) \/ RequestRead(c)
      BY <1>3, <2>2, <3>1, <3>2 DEF CancelBegin, RequestRead, ReqRec
    <3>3. CASE RequestWrite(c)
      BY <1>3, <2>2, <3>1, <3>3 DEF RequestWrite, ReqRec
    <3>4. CASE Ungroup(c) \/ CancelGroup(c)
      BY <1>3, <2>2, <3>4 DEF Ungroup, CancelGroup, Respond, IdleRequest
    <3>5. CASE CancelMark(c)
      BY <1>3, <2>2, <3>1, <3>5 DEF CancelMark, MarkJob, ReqRec
    <3>6. ASSUME NEW j \in Jobs, Unqueue(c, j) \/ CancelTest(c, j)
          PROVE  \A d \in Clients : request'[d].at # "retry" /\ request'[d].ids = {}
      <4>1. CASE Unqueue(c, j)
        BY <1>3, <2>2, <3>1, <4>1 DEF Unqueue, ReqRec
      <4>2. CASE CancelTest(c, j)
        <5>1. PICK at \in {"read", "cancel"} :
                  at = IF job[j].status \notin InFlight /\ request[c].todo \ {j} = {}
                       THEN "read" ELSE "cancel"
          OBVIOUS
        <5>2. PICK todo, mark : request' = [request EXCEPT ![c].todo = todo,
                                              ![c].mark = mark, ![c].at = at]
          BY <4>2, <5>1 DEF CancelTest
        <5>3. /\ request'[c].at = at /\ request'[c].ids = request[c].ids
              /\ \A d \in Clients \ {c} : request'[d] = request[d]
          BY <1>3, <5>2 DEF ReqRec
        <5> QED
          BY <2>2, <3>1, <5>1, <5>3
      <4> QED
        BY <3>6, <4>1, <4>2
    <3>7. ASSUME NEW j \in Jobs, Enqueue(c, j)
          PROVE  \A d \in Clients : request'[d].at # "retry" /\ request'[d].ids = {}
      <4>1. CASE request' = [request EXCEPT ![c] = IdleRequest]
        BY <1>3, <2>2, <4>1 DEF IdleRequest
      <4>2. CASE request' = [request EXCEPT ![c] = [request[c] EXCEPT !.todo = @ \ {j}]]
        BY <1>3, <2>2, <3>1, <3>7, <4>2 DEF ReqRec, Enqueue
      <4>3. CASE request' = [request EXCEPT ![c].at = "unqueue", ![c].todo = Jobs]
        BY <1>3, <2>2, <3>1, <4>3 DEF ReqRec
      <4> QED
        BY <3>7, <4>1, <4>2, <4>3 DEF Enqueue
    <3> QED
      BY <1>2, <1>5, <3>2, <3>3, <3>4, <3>5, <3>6, <3>7 DEF HandlerStep
  <2> QED
    BY <1>4, <2>1, <2>3 DEF Unspent, Bounded
<1>6. ASSUME NEW w \in Workers, WorkerStep(w) \/ Progress(w) \/ TimeLimit(w) PROVE Unspent'
  <2>1. /\ spent' = spent \/ Spend("broker", MaxBrokerFail) \/ Spend("undeleted", MaxUndeleted)
           \/ Spend("limit", MaxTimeLimit)
        /\ request' = request
    BY <1>6 DEF WorkerStep, Progress, TimeLimit, CreateAttempt, CountAttempt, Stage,
       StageGroup, PullDisk, Convert, SubmitPod, CopyStaged, WaitPod, SetVerifying, Verify,
       CloseReady, CloseFailed, CloseAttempt, ReadGroup, WriteAggregate, DecideRetry,
       PublishRetry, Ack, SetStage, DeletePod
  <2> QED
    BY <1>4, <2>1 DEF Unspent, Bounded
<1>7. ASSUME UNCHANGED <<spent, request>> PROVE Unspent'
  BY <1>7 DEF Unspent
<1>8. Unspent'
  BY <1>1, <1>5, <1>6, <1>7 DEF Next, Rest, vars, PodEnds, Receive
<1> QED
  BY <1>1, <1>2, <1>8

(* A job is in one place at a time.                                         *)
LEMMA Alone ==
    ASSUME Unspent, Accounted, NEW j \in Jobs
    PROVE  /\ \A u, w \in Busy(j) : u = w
           /\ Busy(j) # {} => Copies(j) = {} /\ Debt(j) = {}
           /\ Copies(j) # {} => Debt(j) = {}
<1>1. /\ IsFiniteSet(Busy(j)) /\ IsFiniteSet(Copies(j)) /\ IsFiniteSet(Debt(j))
      /\ Cardinality(Busy(j)) + Cardinality(Copies(j)) + Cardinality(Debt(j)) <= 1
  BY DEF Accounted, Unspent
<1>2. /\ Cardinality(Busy(j)) \in Nat /\ Cardinality(Copies(j)) \in Nat
      /\ Cardinality(Debt(j)) \in Nat
      /\ Cardinality(Busy(j)) = 0 <=> Busy(j) = {}
      /\ Cardinality(Copies(j)) = 0 <=> Copies(j) = {}
      /\ Cardinality(Debt(j)) = 0 <=> Debt(j) = {}
  BY <1>1, FS_CardinalityType, FS_EmptySet
<1>3. ASSUME NEW u \in Busy(j), NEW w \in Busy(j) PROVE u = w
  <2>1. Cardinality(Busy(j)) = 1
    BY <1>1, <1>2, <1>3
  <2>2. PICK x : Busy(j) = {x}
    BY <1>1, <2>1, FS_Singleton
  <2> QED
    BY <1>3, <2>2
<1> QED
  BY <1>1, <1>2, <1>3

Clear(j) == \A p \in pods : p.job = j => p.state # "running"
Whole(j) == job[j].status = "READY" => output[j] = "whole" /\ Clear(j)

(* What a worker at a stage of job j can rely on.                           *)
WorkFit(w, j) ==
    /\ worker[w].at \in {"attempt", "count", "stage", "group", "pull", "convert", "submit",
                         "publish"}
           => Clear(j) /\ job[j].status # "READY"
    /\ worker[w].at = "wait" =>
           /\ job[j].status # "READY"
           /\ \A p \in pods : p.job = j =>
                 /\ p.state = "running" => p.num = worker[w].pod
                 /\ p.state = "succeeded" /\ p.num = worker[w].pod => output[j] = "whole"
    /\ worker[w].at \in {"verify", "ready"} =>
           Clear(j) /\ output[j] = "whole" /\ job[j].status # "READY"
    /\ \/ worker[w].at \in {"failed", "decide"}
       \/ worker[w].at \in {"read", "write"} /\ worker[w].failed
       => job[j].status # "READY" /\ (job[j].error = "transient" => Clear(j))
    /\ worker[w].at \notin {"failed", "read", "write"} => ~worker[w].failed

(* A job that nobody has taken up has nothing that writes to its output.    *)
Fit(j) ==
    /\ Whole(j)
    /\ (Copies(j) # {} \/ Debt(j) # {}) => Clear(j) /\ job[j].status # "READY"
    /\ \A w \in Busy(j) : WorkFit(w, j)

OneOfAName == \A p, q \in pods : p.job = q.job /\ p.num = q.num => p = q

Steady == OneOfAName /\ \A j \in Jobs : Fit(j)

(* The cluster Jobs of a job are the same after the step.                   *)
SamePods(j) == \A p : p.job = j => (p \in pods' <=> p \in pods)
FewerPods(j) == \A p \in pods' : p.job = j => p \in pods

(* A step that does not take the job up, write its output or make it READY. *)
LEMMA FitKeeps ==
    ASSUME NEW j \in Jobs, Fit(j), FewerPods(j), output'[j] = output[j],
           \/ job'[j].status = job[j].status
           \/ job'[j].status \in {"FAILED", "CANCELLED"},
           job'[j].error = job[j].error,
           Copies(j)' \subseteq Copies(j), Debt(j)' \subseteq Debt(j),
           \A w \in Busy(j)' : w \in Busy(j) /\ worker'[w] = worker[w]
    PROVE  Fit(j)'
<1>1. Clear(j) => Clear(j)'
  BY DEF Clear, FewerPods
<1>2. Whole(j)'
  BY <1>1 DEF Fit, Whole
<1>3. (Copies(j)' # {} \/ Debt(j)' # {}) => Clear(j)' /\ job'[j].status # "READY"
  BY <1>1 DEF Fit
<1>4. ASSUME NEW w \in Busy(j)' PROVE WorkFit(w, j)'
  <2>1. WorkFit(w, j) /\ worker'[w] = worker[w]
    BY <1>4 DEF Fit
  <2> QED
    BY <1>1, <2>1 DEF WorkFit, FewerPods
<1> QED
  BY <1>2, <1>3, <1>4 DEF Fit

(* The worker of a job moves it, and nobody else has it.                    *)
LEMMA FitMoves ==
    ASSUME NEW w \in Workers, NEW j \in Jobs, Unspent, Accounted, Sound, worker[w].job = j,
           worker[w].at # "ack", \A u \in Workers \ {w} : worker'[u] = worker[u],
           queue' = queue, request' = request, Whole(j)',
           worker'[w].job = j => WorkFit(w, j)'
    PROVE  Fit(j)'
<1>1. w \in Busy(j)
  BY DEF Busy
<1>2. Copies(j) = {} /\ Debt(j) = {} /\ \A u \in Busy(j) : u = w
  BY <1>1, Alone
<1>3. Copies(j)' = {} /\ Debt(j)' = {}
  BY <1>2 DEF Copies, Debt
<1>4. ASSUME NEW u \in Busy(j)', u # w PROVE FALSE
  <2>1. u \in Workers /\ worker'[u] = worker[u]
    BY <1>4 DEF Busy
  <2>2. u \in Busy(j)
    BY <1>4, <2>1 DEF Busy
  <2> QED
    BY <1>2, <1>4, <2>2
<1>5. ASSUME NEW u \in Busy(j)' PROVE WorkFit(u, j)'
  <2>1. u = w /\ worker'[w].job = j
    BY <1>4, <1>5 DEF Busy
  <2> QED
    BY <2>1
<1> QED
  BY <1>3, <1>5 DEF Fit

(* What a step of a worker leaves to the other jobs.                        *)
LEMMA FilesOwn ==
    ASSUME Sound, NEW w \in Workers, WorkerStep(w) \/ Progress(w) \/ TimeLimit(w)
    PROVE  \A k \in Jobs \ {worker[w].job} : output'[k] = output[k] /\ SamePods(k)
<1>1. /\ output \in [Jobs -> {"none", "partial", "whole"}]
      /\ worker[w].at # "idle" => worker[w].job \in Jobs
  BY Parts DEF Sound, TypeOK
<1>2. CASE SubmitPod(w)
  <2>1. PICK i \in Jobs : i = worker[w].job
    BY <1>1, <1>2 DEF SubmitPod
  <2>2. CASE UNCHANGED files
    BY <2>2 DEF files, SamePods
  <2>3. CASE /\ output' = [output EXCEPT ![i] = "partial"]
             /\ \E n : pods' = pods \cup {[job |-> i, num |-> n, state |-> "running"]}
    BY <1>1, <2>1, <2>3 DEF SamePods
  <2> QED
    BY <1>2, <2>1, <2>2, <2>3 DEF SubmitPod
<1>3. CASE CopyStaged(w)
  <2>1. PICK i \in Jobs : i = worker[w].job
    BY <1>1, <1>3 DEF CopyStaged
  <2>2. output' \in {[output EXCEPT ![i] = "whole"], [output EXCEPT ![i] = "none"]}
        /\ pods' = pods
    BY <1>3, <2>1 DEF CopyStaged
  <2> QED
    BY <1>1, <2>1, <2>2 DEF SamePods
<1>4. CASE WaitPod(w)
  BY <1>4 DEF WaitPod, DeletePod, SamePods
<1>5. CASE TimeLimit(w)
  BY <1>5 DEF TimeLimit, SamePods
<1>6. CASE ~(SubmitPod(w) \/ CopyStaged(w) \/ WaitPod(w) \/ TimeLimit(w))
  <2>1. UNCHANGED files
    BY <1>6 DEF WorkerStep, Progress, CreateAttempt, CountAttempt, Stage,
       StageGroup, PullDisk, Convert, SetVerifying, Verify, CloseReady, CloseFailed,
       CloseAttempt, ReadGroup, WriteAggregate, DecideRetry, PublishRetry, Ack, SetStage
  <2> QED
    BY <2>1 DEF files, SamePods
<1> QED
  BY <1>2, <1>3, <1>4, <1>5, <1>6

(* What the worker of a job makes of it, stage by stage.                    *)
Made(w, j) == Whole(j)' /\ (worker'[w].job = j => WorkFit(w, j)')

LEMMA FailMade ==
    ASSUME Sound, NEW w \in Workers, NEW j \in Jobs, worker[w].job = j, NEW b \in Bucket,
           Fail(w, b), b = "transient" => Clear(j)'
    PROVE  Made(w, j)
<1>1. worker \in [Workers -> WorkRec] /\ worker[w] \in WorkRec
  BY Parts
<1>2. worker'[w].at = "failed"
  BY <1>1 DEF Fail, WorkRec
<1>3. job'[j].status = "FAILED" /\ job'[j].error = b
  BY FailedType DEF Fail
<1> QED
  BY <1>2, <1>3 DEF Made, Whole, WorkFit

LEMMA EndMade ==
    ASSUME NEW w \in Workers, NEW j \in Jobs, Sound, worker[w].job = j,
           worker'[w] = Over(w), Whole(j)'
    PROVE  Made(w, j)
<1>1. worker[w].at # "idle"
  BY ConstantsAssumption, Parts DEF WorkOk
<1>2. worker'[w].at = "ack" /\ worker'[w].failed = FALSE
  BY <1>1, OverTypes
<1> QED
  BY <1>2 DEF Made, WorkFit

LEMMA StageMade ==
    ASSUME Sound, NEW w \in Workers, NEW j \in Jobs, worker[w].job = j, WorkFit(w, j),
           Whole(j),
           \/ CreateAttempt(w) \/ CountAttempt(w) \/ Stage(w) \/ StageGroup(w)
           \/ Convert(w) \/ SetVerifying(w) \/ Progress(w)
    PROVE  Made(w, j)
<1>1. /\ worker \in [Workers -> WorkRec] /\ worker[w] \in WorkRec
      /\ job \in [Jobs -> JobRec]
  BY Parts
<1>2. UNCHANGED files
  BY DEF CreateAttempt, CountAttempt, Stage, StageGroup, Convert, SetVerifying, Progress, SetStage
<1>3. Clear(j)' <=> Clear(j)
  BY <1>2 DEF Clear, files
<1>4. ASSUME NEW s \in Stages, Goto(w, s)
      PROVE  worker'[w].at = s /\ worker'[w].failed = worker[w].failed
  BY <1>1, <1>4 DEF Goto, WorkRec
<1>5. CASE CreateAttempt(w)
  <2>1. job' = job
    BY <1>5 DEF CreateAttempt
  <2>2. Whole(j)'
    BY <1>2, <1>3, <2>1 DEF Whole, files
  <2>3. CASE Finish(w)
    <3>1. worker'[w] = Over(w)
      BY <1>1, <2>3 DEF Finish, Over
    <3> QED
      BY <2>2, <3>1, EndMade
  <2>4. CASE Goto(w, "count")
    <3>1. worker'[w].at = "count" /\ worker'[w].failed = worker[w].failed
      BY <1>4, <2>4 DEF Stages
    <3> QED
      BY <1>3, <1>5, <2>1, <2>2, <3>1 DEF Made, WorkFit, CreateAttempt
  <2> QED
    BY <1>5, <2>3, <2>4 DEF CreateAttempt
<1>6. CASE CountAttempt(w)
  <2>1. job'[j].status = job[j].status
    BY <1>1, <1>6 DEF CountAttempt, JobRec
  <2>2. worker'[w].at = "stage" /\ worker'[w].failed = worker[w].failed
    BY <1>4, <1>6 DEF CountAttempt, Stages, Guarded
  <2> QED
    BY <1>2, <1>3, <1>6, <2>1, <2>2 DEF Made, WorkFit, CountAttempt, Whole, files
<1>7. CASE StageGroup(w)
  <2>1. worker'[w].at = "pull" /\ worker'[w].failed = worker[w].failed /\ job' = job
    BY <1>4, <1>7 DEF StageGroup, Stages, Guarded
  <2> QED
    BY <1>2, <1>3, <1>7, <2>1 DEF Made, WorkFit, StageGroup, Whole, files
<1>8. CASE Stage(w) \/ Convert(w) \/ Progress(w)
  <2>1. PICK at \in {"stage", "convert", "pull"}, s \in {"STAGING", "CONVERTING"},
             next \in {"group", "submit", "pull"} : SetStage(w, at, s, next)
    BY <1>8 DEF Stage, Convert, Progress
  <2>2. job'[j].status = s
    BY <2>1, StatusType DEF SetStage, ConversionStatus, InFlight
  <2>3. worker'[w].at = next /\ worker'[w].failed = worker[w].failed
    BY <1>4, <2>1 DEF SetStage, Stages, Guarded
  <2> QED
    BY <1>3, <2>1, <2>2, <2>3 DEF Made, WorkFit, SetStage, Whole
<1>9. CASE SetVerifying(w)
  <2>1. SetStage(w, "verify", "VERIFYING", "ready")
    BY <1>9 DEF SetVerifying
  <2>2. job'[j].status = "VERIFYING"
    BY <2>1, StatusType DEF SetStage, ConversionStatus, InFlight
  <2>3. worker'[w].at = "ready" /\ worker'[w].failed = worker[w].failed
    BY <1>4, <2>1 DEF SetStage, Stages, Guarded
  <2> QED
    BY <1>2, <1>3, <2>1, <2>2, <2>3 DEF Made, WorkFit, SetStage, Whole, files
<1> QED
  BY <1>5, <1>6, <1>7, <1>8, <1>9

LEMMA FilesMade ==
    ASSUME Sound, NEW w \in Workers, NEW j \in Jobs, worker[w].job = j, WorkFit(w, j),
           OneOfAName, PullDisk(w) \/ SubmitPod(w) \/ CopyStaged(w) \/ WaitPod(w) \/ Verify(w)
    PROVE  Made(w, j)
<1>1. /\ worker \in [Workers -> WorkRec] /\ worker[w] \in WorkRec
      /\ job \in [Jobs -> JobRec] /\ output \in [Jobs -> {"none", "partial", "whole"}]
  BY Parts DEF Sound, TypeOK
<1>2. ASSUME NEW s \in Stages, Goto(w, s)
      PROVE  worker'[w].at = s /\ worker'[w].failed = worker[w].failed
  BY <1>1, <1>2 DEF Goto, WorkRec
<1>3. "permanent" \in Bucket
  BY DEF Bucket
<1>4. CASE PullDisk(w)
  <2>1. Clear(j) /\ Clear(j)' /\ job[j].status # "READY" /\ ~worker[w].failed
    BY <1>4 DEF PullDisk, WorkFit, Clear, files
  <2>2. CASE Goto(w, "convert") /\ UNCHANGED job
    <3>1. worker'[w].at = "convert" /\ worker'[w].failed = worker[w].failed
      BY <1>2, <2>2 DEF Stages, Guarded
    <3> QED
      BY <2>1, <2>2, <3>1 DEF Made, WorkFit, Whole
  <2> QED
    BY <1>4, <2>1, <2>2, FailMade DEF PullDisk
<1>5. CASE SubmitPod(w)
  <2>1. Clear(j) /\ job[j].status # "READY" /\ ~worker[w].failed
    BY <1>5 DEF SubmitPod, WorkFit
  <2>2. CASE Fail(w, "permanent")
    BY <1>3, <2>2, FailMade
  <2>3. ASSUME NEW n, n = job[j].attempts,
               pods' = pods \cup {[job |-> j, num |-> n, state |-> "running"]},
               worker' = [worker EXCEPT ![w].at = "wait", ![w].pod = n], job' = job,
               \A p \in pods : p.job # j \/ p.num # n
        PROVE  Made(w, j)
    <3>1. worker'[w].at = "wait" /\ worker'[w].pod = n /\ worker'[w].failed = worker[w].failed
      BY <1>1, <2>3 DEF WorkRec
    <3>2. ASSUME NEW p \in pods', p.job = j
          PROVE  (p.state = "running" => p.num = n) /\ ~(p.state = "succeeded" /\ p.num = n)
      BY <2>1, <2>3, <3>2 DEF Clear
    <3> QED
      BY <2>1, <2>3, <3>1, <3>2 DEF Made, WorkFit, Whole
  <2> QED
    BY <1>5, <2>2, <2>3 DEF SubmitPod
<1>6. CASE CopyStaged(w)
  <2>1. Clear(j) /\ Clear(j)' /\ job[j].status # "READY" /\ ~worker[w].failed
    BY <1>6 DEF CopyStaged, WorkFit, Clear
  <2>2. CASE output' = [output EXCEPT ![j] = "whole"] /\ Goto(w, "verify") /\ UNCHANGED job
    <3>1. worker'[w].at = "verify" /\ worker'[w].failed = worker[w].failed
      BY <1>2, <2>2 DEF Stages, Guarded
    <3>2. output'[j] = "whole"
      BY <1>1, <2>2
    <3> QED
      BY <2>1, <2>2, <3>1, <3>2 DEF Made, WorkFit, Whole
  <2>3. CASE Fail(w, "permanent")
    BY <1>3, <2>3, FailMade
  <2> QED
    BY <1>6, <2>2, <2>3 DEF CopyStaged
<1>7. CASE WaitPod(w)
  <2>1. /\ job[j].status # "READY" /\ ~worker[w].failed /\ output' = output
        /\ pods' \subseteq pods
        /\ \A p \in pods : p.job = j =>
              /\ p.state = "running" => p.num = worker[w].pod
              /\ p.state = "succeeded" /\ p.num = worker[w].pod => output[j] = "whole"
    BY <1>7 DEF WaitPod, WorkFit, DeletePod
  <2>2. ASSUME NEW p \in pods, p.job = j, p.num = worker[w].pod, p.state # "running"
        PROVE  Clear(j)'
    BY <2>1, <2>2 DEF Clear, OneOfAName
  <2>3. CASE LeavePod(w) /\ UNCHANGED job
            /\ \E p \in pods : p.job = j /\ p.num = worker[w].pod /\ p.state = "succeeded"
    <3>1. Clear(j)' /\ output'[j] = "whole"
      BY <2>1, <2>2, <2>3
    <3>2. worker'[w].at = "verify" /\ worker'[w].failed = worker[w].failed
      BY <1>1, <2>3 DEF LeavePod, WorkRec
    <3> QED
      BY <2>1, <2>3, <3>1, <3>2 DEF Made, WorkFit, Whole
  <2>4. ASSUME NEW b \in Bucket, Fail(w, b),
               \E p \in pods : p.job = j /\ p.num = worker[w].pod /\ p.state = "failed"
        PROVE  Made(w, j)
    BY <2>2, <2>4, FailMade
  <2>5. CASE Fail(w, "permanent")
    BY <1>3, <2>5, FailMade
  <2> QED
    BY <1>7, <2>3, <2>4, <2>5 DEF WaitPod
<1>8. CASE Verify(w)
  <2>1. /\ Clear(j) /\ Clear(j)' /\ output[j] = "whole" /\ output' = output
        /\ job[j].status # "READY" /\ ~worker[w].failed
    BY <1>8 DEF Verify, WorkFit, Clear, files
  <2>2. SetJobStatus(j, "READY") /\ Goto(w, "close")
    BY <1>8, <2>1 DEF Verify
  <2>3. worker'[w].at = "close" /\ worker'[w].failed = worker[w].failed
    BY <1>2, <2>2 DEF Stages, Guarded
  <2> QED
    BY <2>1, <2>3 DEF Made, WorkFit, Whole
<1> QED
  BY <1>4, <1>5, <1>6, <1>7, <1>8

LEMMA ClosingMade ==
    ASSUME Sound, NEW w \in Workers, NEW j \in Jobs, worker[w].job = j, WorkFit(w, j),
           Whole(j),
           \/ CloseReady(w) \/ CloseFailed(w) \/ ReadGroup(w) \/ WriteAggregate(w)
           \/ DecideRetry(w) \/ PublishRetry(w) \/ TimeLimit(w)
    PROVE  Made(w, j)
<1>1. /\ worker \in [Workers -> WorkRec] /\ worker[w] \in WorkRec
      /\ job \in [Jobs -> JobRec]
  BY Parts
<1>2. ASSUME Finish(w) PROVE worker'[w] = Over(w)
  BY <1>1, <1>2 DEF Finish, Over
<1>3. ASSUME UNCHANGED files PROVE Clear(j)' <=> Clear(j)
  BY <1>3 DEF Clear, files
<1>4. CASE CloseReady(w) \/ CloseFailed(w) \/ ReadGroup(w)
  <2>1. worker'[w].failed = worker[w].failed /\ worker'[w].at \in {"read", "write"}
    BY <1>1, <1>4 DEF CloseReady, CloseFailed, CloseAttempt, ReadGroup, WorkRec
  <2>2. UNCHANGED <<job, files>>
    BY <1>4 DEF CloseReady, CloseFailed, CloseAttempt, ReadGroup, tables
  <2>3. worker[w].at \in {"close", "failed", "read"}
    BY <1>4 DEF CloseReady, CloseFailed, CloseAttempt, ReadGroup
  <2> QED
    BY <1>3, <2>1, <2>2, <2>3 DEF Made, WorkFit, Whole, files
<1>5. CASE WriteAggregate(w)
  <2>1. Whole(j)' /\ (Clear(j)' <=> Clear(j)) /\ job' = job
    BY <1>3, <1>5 DEF WriteAggregate, Whole, files
  <2>2. CASE Finish(w)
    BY <1>2, <2>1, <2>2, EndMade
  <2>3. CASE /\ worker[w].failed
             /\ worker' = [worker EXCEPT ![w].at = "decide", ![w].failed = FALSE,
                                         ![w].group = None, ![w].agg = None]
    <3>1. worker'[w].at = "decide" /\ ~worker'[w].failed
      BY <1>1, <2>3 DEF WorkRec
    <3> QED
      BY <1>5, <2>1, <2>3, <3>1 DEF Made, WorkFit, WriteAggregate
  <2> QED
    BY <1>5, <2>2, <2>3 DEF WriteAggregate
<1>6. CASE DecideRetry(w)
  <2>1. /\ (Clear(j)' <=> Clear(j)) /\ job[j].status # "READY" /\ ~worker[w].failed
        /\ job[j].error = "transient" => Clear(j)
    BY <1>3, <1>6 DEF DecideRetry, WorkFit
  <2>2. CASE Finish(w) /\ UNCHANGED job
    BY <1>2, <2>1, <2>2, EndMade DEF Whole
  <2>3. CASE /\ job[j].error = "transient" /\ SetJobStatus(j, "RETRYING")
             /\ Goto(w, "publish")
    <3>1. worker'[w].at = "publish" /\ worker'[w].failed = worker[w].failed
      BY <1>1, <2>3 DEF Goto, WorkRec
    <3>2. job'[j].status = "RETRYING"
      BY <2>3, StatusType DEF ConversionStatus, InFlight
    <3> QED
      BY <2>1, <2>3, <3>1, <3>2 DEF Made, WorkFit, Whole
  <2> QED
    BY <1>6, <2>2, <2>3 DEF DecideRetry
<1>7. CASE PublishRetry(w)
  <2>1. Whole(j)' /\ Finish(w)
    BY <1>3, <1>7 DEF PublishRetry, Whole, files, tables
  <2> QED
    BY <1>2, <2>1, EndMade
<1>8. CASE TimeLimit(w)
  <2>1. output' = output /\ (Clear(j) => Clear(j)')
    BY <1>8 DEF TimeLimit, Clear
  <2>2. CASE Fail(w, "permanent")
    BY <2>2, FailMade DEF Bucket
  <2>3. CASE SetFailed(j, "permanent") /\ Finish(w)
    <3>1. job'[j].status = "FAILED"
      BY <2>3, FailedType DEF Bucket
    <3> QED
      BY <1>2, <2>3, <3>1, EndMade DEF Whole
  <2>4. CASE Finish(w) /\ UNCHANGED job
    <3>1. Whole(j)'
      BY <2>1, <2>4 DEF Whole
    <3> QED
      BY <1>2, <2>4, <3>1, EndMade
  <2> QED
    BY <1>8, <2>2, <2>3, <2>4 DEF TimeLimit
<1> QED
  BY <1>4, <1>5, <1>6, <1>7, <1>8

LEMMA NamesStep ==
    ASSUME OneOfAName, Sound, [Next]_vars
    PROVE  OneOfAName'
<1>1. ASSUME pods' \subseteq pods PROVE OneOfAName'
  BY <1>1 DEF OneOfAName
<1>2. ASSUME NEW w \in Workers, SubmitPod(w) PROVE OneOfAName'
  <2>1. CASE UNCHANGED files
    BY <1>1, <2>1 DEF files
  <2>2. ASSUME NEW j, NEW n, pods' = pods \cup {[job |-> j, num |-> n, state |-> "running"]},
               \A p \in pods : p.job # j \/ p.num # n
        PROVE  OneOfAName'
    BY <2>2 DEF OneOfAName
  <2> QED
    BY <1>2, <2>1, <2>2 DEF SubmitPod
<1>3. ASSUME NEW p \in pods, PodEnds(p) PROVE OneOfAName'
  <2>1. p \in PodRec
    BY Parts
  <2>2. PICK state \in {"succeeded", "failed"} :
            pods' = (pods \ {p}) \cup {[p EXCEPT !.state = state]}
    BY <1>3 DEF PodEnds
  <2>3. PICK q : q = [p EXCEPT !.state = state]
    OBVIOUS
  <2>4. q.job = p.job /\ q.num = p.num
    BY <2>1, <2>3 DEF PodRec
  <2>5. pods' = (pods \ {p}) \cup {q}
    BY <2>2, <2>3
  <2>6. \A r \in pods \ {p} : r.job # q.job \/ r.num # q.num
    BY <2>4 DEF OneOfAName
  <2>7. \A a, b \in pods \ {p} : a.job = b.job /\ a.num = b.num => a = b
    BY DEF OneOfAName
  <2>8. \A a, b \in pods' : a.job = b.job /\ a.num = b.num => a = b
    BY <2>5, <2>6, <2>7
  <2> QED
    BY <2>8 DEF OneOfAName
<1>4. ASSUME NEW w \in Workers, WorkerStep(w) \/ Progress(w) \/ TimeLimit(w) \/ Crash(w)
                                \/ Redeliver(w), ~SubmitPod(w)
      PROVE  OneOfAName'
  <2>1. pods' \subseteq pods
    BY <1>4 DEF WorkerStep, Progress, TimeLimit, Crash, Redeliver, CreateAttempt, CountAttempt,
       Stage, StageGroup, PullDisk, Convert, CopyStaged, WaitPod, SetVerifying, Verify,
       CloseReady, CloseFailed, CloseAttempt, ReadGroup, WriteAggregate, DecideRetry,
       PublishRetry, Ack, SetStage, DeletePod, files
  <2> QED
    BY <1>1, <2>1
<1>5. ASSUME NEW c \in Clients, HandlerStep(c) \/ CancelBegin(c) \/ RetryBegin(c)
      PROVE  OneOfAName'
  <2>1. pods' = pods
    BY <1>5 DEF HandlerStep, CancelBegin, RetryBegin, Enqueue, Unqueue, CancelTest, RetryClear,
       RetryPublish, Ungroup, CancelMark, CancelGroup, RetryMark, MarkJob, RequestRead,
       RequestWrite, files
  <2> QED
    BY <1>1, <2>1
<1> QED
  BY <1>1, <1>2, <1>3, <1>4, <1>5 DEF Next, Rest, Receive, vars, files

(* A message of one job is nothing to another.                              *)
LEMMA CopiesOther ==
    ASSUME NEW k \in Jobs, NEW n, NEW m,
           queue' = [queue EXCEPT ![<<k, n>>] = m], queue \in [Messages -> Nat]
    PROVE  \A j \in Jobs \ {k} : Copies(j)' = Copies(j)
<1> SUFFICES ASSUME NEW j \in Jobs \ {k} PROVE Copies(j)' = Copies(j)
  OBVIOUS
<1>1. \A i \in 0..MaxRetries : queue'[<<j, i>>] = queue[<<j, i>>]
  BY DEF Messages
<1> QED
  BY <1>1 DEF Copies

LEMMA WorkSteady ==
    ASSUME Steady, Unspent, Accounted, Sound, NEW w \in Workers,
           WorkerStep(w) \/ Progress(w) \/ TimeLimit(w), NEW j \in Jobs
    PROVE  Fit(j)'
<1>1. /\ worker \in [Workers -> WorkRec] /\ worker[w] \in WorkRec
      /\ worker[w].at # "idle" => worker[w].job \in Jobs
      /\ queue \in [Messages -> Nat]
  BY Parts
<1>2. /\ \A u \in Workers \ {w} : worker'[u] = worker[u]
      /\ worker'[w].job \in {worker[w].job, None}
  <2>1. worker[w].at # "idle"
    BY WorksOn
  <2>2. Over(w).job = worker[w].job
    BY <2>1, OverTypes
  <2> QED
    BY <2>2, WorksOn DEF IdleWorker
<1>3. request' = request
  BY DEF WorkerStep, Progress, TimeLimit, CreateAttempt, CountAttempt, Stage,
     StageGroup, PullDisk, Convert, SubmitPod, CopyStaged, WaitPod, SetVerifying, Verify,
     CloseReady, CloseFailed, CloseAttempt, ReadGroup, WriteAggregate, DecideRetry,
     PublishRetry, Ack, SetStage
<1>4. queue' = queue
      \/ /\ PublishRetry(w) /\ worker[w].job \in Jobs
         /\ Publish(worker[w].job, worker[w].retries + 1)
  <2>1. CASE PublishRetry(w)
    BY <1>1, <2>1 DEF PublishRetry
  <2>2. CASE ~PublishRetry(w)
    BY <2>2 DEF WorkerStep, Progress, TimeLimit, CreateAttempt, CountAttempt, Stage,
       StageGroup, PullDisk, Convert, SubmitPod, CopyStaged, WaitPod, SetVerifying, Verify,
       CloseReady, CloseFailed, CloseAttempt, ReadGroup, WriteAggregate, DecideRetry, Ack,
       SetStage
  <2> QED
    BY <2>1, <2>2
<1>7. CASE worker[w].at = "ack"
  <2>1. UNCHANGED <<tables, files>> /\ Ack(w)
    BY <1>7, OnlyAck DEF Ack, Crash, TimeLimit, WorkerStep, Progress, SetStage,
       CreateAttempt, CountAttempt, Stage,
       StageGroup, PullDisk, Convert, SubmitPod, CopyStaged, WaitPod, SetVerifying, Verify,
       CloseReady, CloseFailed, CloseAttempt, ReadGroup, WriteAggregate, DecideRetry,
       PublishRetry
  <2>2. worker'[w] = IdleWorker /\ queue' = queue
    BY <1>1, <2>1 DEF Ack, Leave
  <2>3. \A u \in Busy(j)' : u \in Busy(j) /\ worker'[u] = worker[u]
    BY <1>2, <2>2, ConstantsAssumption DEF Busy, IdleWorker
  <2>4. /\ Copies(j)' \subseteq Copies(j) /\ Debt(j)' \subseteq Debt(j)
        /\ FewerPods(j) /\ job' = job /\ output' = output
    BY <1>3, <2>1, <2>2, Holders DEF Debt, FewerPods, tables, files
  <2> QED
    BY <2>3, <2>4, FitKeeps DEF Steady
<1>5. CASE worker[w].job # j
  <2>1. job'[j] = job[j] /\ output'[j] = output[j] /\ FewerPods(j)
    BY <1>5, WritesOwn, FilesOwn DEF SamePods, FewerPods
  <2>2. \A u \in Busy(j)' : u \in Busy(j) /\ worker'[u] = worker[u]
    BY <1>2, <1>5, ConstantsAssumption DEF Busy
  <2>3. Copies(j)' \subseteq Copies(j)
    <3>1. CASE queue' = queue
      BY <3>1, Holders
    <3>2. CASE worker[w].job \in Jobs /\ Publish(worker[w].job, worker[w].retries + 1)
      BY <1>1, <1>5, <3>2, CopiesOther DEF Publish
    <3> QED
      BY <1>4, <3>1, <3>2
  <2>4. Debt(j)' \subseteq Debt(j)
    BY <1>3 DEF Debt
  <2> QED
    BY <2>1, <2>2, <2>3, <2>4, FitKeeps DEF Steady
<1>6. CASE worker[w].job = j /\ worker[w].at # "ack"
  <2>1. Fit(j) /\ Whole(j) /\ WorkFit(w, j)
    BY <1>6 DEF Steady, Fit, Busy
  <2>2. Made(w, j)
    BY <1>6, <2>1, StageMade, FilesMade, ClosingMade DEF WorkerStep, Steady, Ack
  <2>3. CASE queue' = queue
    BY <1>2, <1>3, <1>6, <2>2, <2>3, FitMoves DEF Made
  <2>4. CASE PublishRetry(w)
    <3>1. /\ Clear(j)' /\ job'[j].status # "READY"
      BY <2>1, <2>4 DEF PublishRetry, WorkFit, Clear, files, tables
    <3>2. worker'[w].at = "ack"
      BY <1>1, <2>4 DEF PublishRetry, Finish, IdleWorker
    <3>3. Busy(j)' = {}
      <4>1. \A u \in Busy(j) : u = w
        BY <1>6, Alone DEF Busy
      <4> QED
        BY <1>2, <3>2, <4>1, ConstantsAssumption DEF Busy
    <3> QED
      BY <2>2, <3>1, <3>3 DEF Made, Fit
  <2> QED
    BY <1>4, <2>3, <2>4
<1> QED
  BY <1>5, <1>6, <1>7

LEMMA ReceiveSteady ==
    ASSUME Steady, Sound, NEW w \in Workers, NEW k \in Jobs, NEW n \in 0..MaxRetries,
           Receive(w, k, n), NEW j \in Jobs
    PROVE  Fit(j)'
<1>1. /\ worker \in [Workers -> WorkRec] /\ WorkOk(worker[w], log)
      /\ queue \in [Messages -> Nat]
  BY Parts
<1>2. /\ UNCHANGED <<job, output, pods, request>>
      /\ queue[<<k, n>>] > 0 /\ queue' = [queue EXCEPT ![<<k, n>>] = queue[<<k, n>>] - 1]
      /\ \A u \in Workers \ {w} : worker'[u] = worker[u]
  BY <1>1 DEF Receive, tables, files
<1>3. \/ worker' = worker
      \/ worker'[w].at = "attempt" /\ worker'[w].job = k /\ ~worker'[w].failed
  BY <1>1 DEF Receive, IdleWorker
<1>4. worker[w].job = None
  BY <1>1 DEF Receive, WorkOk
<1>5. FewerPods(j) /\ Debt(j)' \subseteq Debt(j) /\ (Clear(j)' <=> Clear(j))
  BY <1>2 DEF FewerPods, Debt, Clear
<1>6. CASE j # k
  <2>1. Copies(j)' \subseteq Copies(j)
    BY <1>1, <1>2, <1>6, CopiesOther
  <2>2. \A u \in Busy(j)' : u \in Busy(j) /\ worker'[u] = worker[u]
    BY <1>2, <1>3, <1>4, <1>6, ConstantsAssumption DEF Busy
  <2> QED
    BY <1>2, <1>5, <2>1, <2>2, FitKeeps DEF Steady
<1>7. CASE j = k
  <2>1. Copies(j) # {}
    <3>1. PICK i \in Nat : i = queue[<<k, n>>] /\ 1 <= i
      BY <1>1, <1>2 DEF Messages
    <3>2. PICK x : x = <<n, i>>
      OBVIOUS
    <3>3. x = <<n, i>> /\ 1 <= i /\ i <= queue[<<j, n>>]
      BY <1>7, <3>1, <3>2
    <3>4. x \in CopiesIn(queue, j)
      BY <1>1, <3>3, CopiesMembers
    <3> QED
      BY <3>4, Holders
  <2>2. Clear(j) /\ job[j].status # "READY"
    BY <2>1 DEF Steady, Fit
  <2>3. ASSUME NEW u \in Busy(j)' PROVE WorkFit(u, j)'
    <3>1. CASE worker'[u] = worker[u]
      BY <1>2, <1>5, <2>3, <3>1 DEF Steady, Fit, Busy, WorkFit
    <3>2. CASE u = w /\ worker'[w].at = "attempt" /\ ~worker'[w].failed
      BY <1>2, <1>5, <2>2, <3>2 DEF WorkFit
    <3> QED
      BY <1>2, <1>3, <2>3, <3>1, <3>2 DEF Busy
  <2> QED
    BY <1>2, <1>5, <2>2, <2>3 DEF Fit, Whole
<1> QED
  BY <1>6, <1>7

LEMMA RequestSteady ==
    ASSUME Steady, Sound, NEW c \in Clients, HandlerStep(c) \/ CancelBegin(c),
           ~RetryMark(c), \A k \in Jobs : ~RetryClear(c, k) /\ ~RetryPublish(c, k),
           NEW j \in Jobs
    PROVE  Fit(j)'
<1>1. /\ request \in [Clients -> ReqRec] /\ request[c] \in ReqRec
      /\ queue \in [Messages -> Nat]
  BY Parts
<1>2. UNCHANGED <<output, pods, worker>>
  BY DEF HandlerStep, CancelBegin, Enqueue, Unqueue, CancelTest, Ungroup, CancelMark,
     CancelGroup, MarkJob, RequestRead, RequestWrite, files
<1>3. \/ job'[j] = job[j]
      \/ job'[j].status \in {"FAILED", "CANCELLED"} /\ job'[j].error = job[j].error
  <2>1. CASE CancelMark(c)
    <3>1. PICK k \in Jobs : SetJobStatus(k, "CANCELLED")
      BY <1>1, <2>1 DEF CancelMark, MarkJob, ReqRec
    <3> QED
      BY <3>1, StatusType DEF ConversionStatus
  <2>2. ASSUME NEW k \in Jobs, Unqueue(c, k)
        PROVE  \/ job'[j] = job[j]
               \/ job'[j].status \in {"FAILED", "CANCELLED"} /\ job'[j].error = job[j].error
    BY <2>2, StatusType DEF Unqueue, ConversionStatus
  <2> QED
    BY <2>1, <2>2 DEF HandlerStep, CancelBegin, Enqueue, CancelTest, Ungroup, CancelGroup,
       RequestRead, RequestWrite, tables
<1>4. Debt(j)' \subseteq Debt(j)
  BY HandlerOwes, Holders
<1>5. FewerPods(j) /\ \A w \in Busy(j)' : w \in Busy(j) /\ worker'[w] = worker[w]
  BY <1>2 DEF FewerPods, Busy
<1>6. CASE Copies(j)' \subseteq Copies(j)
  BY <1>2, <1>3, <1>4, <1>5, <1>6, FitKeeps DEF Steady
<1>7. CASE ~(Copies(j)' \subseteq Copies(j))
  <2>1. queue' # queue
    BY <1>7, Holders
  <2>2. PICK k \in Jobs : Enqueue(c, k) /\ Publish(k, 0)
    BY <2>1 DEF HandlerStep, CancelBegin, Enqueue, Unqueue, CancelTest, Ungroup, CancelMark,
       CancelGroup, MarkJob, RequestRead, RequestWrite
  <2>3. k = j
    BY <1>1, <1>7, <2>2, CopiesOther DEF Publish
  <2>4. Debt(j) # {}
    BY <2>2, <2>3 DEF Enqueue, Debt, Owes
  <2>5. Clear(j) /\ job[j].status # "READY" /\ job' = job
    BY <2>2, <2>4 DEF Steady, Fit, Enqueue, tables
  <2>6. Clear(j)' /\ job'[j].status # "READY"
    BY <1>2, <2>5 DEF Clear
  <2>7. \A w \in Busy(j)' : WorkFit(w, j)'
    BY <1>2, <2>5 DEF Steady, Fit, Busy, WorkFit, Clear
  <2> QED
    BY <2>6, <2>7 DEF Fit, Whole
<1> QED
  BY <1>6, <1>7

LEMMA PodSteady ==
    ASSUME Steady, Sound, NEW p \in pods, PodEnds(p), NEW j \in Jobs
    PROVE  Fit(j)'
<1>1. /\ p \in PodRec /\ output \in [Jobs -> {"none", "partial", "whole"}]
  BY Parts DEF Sound, TypeOK
<1>2. UNCHANGED <<job, queue, worker, request>>
  BY DEF PodEnds, tables
<1>3. PICK q : /\ pods' = (pods \ {p}) \cup {q} /\ q.job = p.job /\ q.num = p.num
               /\ q.state # "running"
               /\ output' = IF /\ q.state = "succeeded"
                               /\ \A r \in pods \ {p} : r.job = p.job => r.state # "running"
                            THEN [output EXCEPT ![p.job] = "whole"] ELSE output
  <2>1. PICK state \in {"succeeded", "failed"} :
            /\ pods' = (pods \ {p}) \cup {[p EXCEPT !.state = state]}
            /\ output' = IF /\ state = "succeeded"
                            /\ \A r \in pods \ {p} : r.job = p.job => r.state # "running"
                         THEN [output EXCEPT ![p.job] = "whole"] ELSE output
    BY DEF PodEnds
  <2>2. PICK q : q = [p EXCEPT !.state = state]
    OBVIOUS
  <2>3. q.job = p.job /\ q.num = p.num /\ q.state = state
    BY <1>1, <2>2 DEF PodRec
  <2> QED
    BY <2>1, <2>2, <2>3
<1>4. CASE j # p.job
  <2>1. output'[j] = output[j] /\ FewerPods(j)
    BY <1>1, <1>3, <1>4 DEF FewerPods
  <2>2. /\ Copies(j)' \subseteq Copies(j) /\ Debt(j)' \subseteq Debt(j)
        /\ \A w \in Busy(j)' : w \in Busy(j) /\ worker'[w] = worker[w]
    BY <1>2 DEF Copies, Debt, Busy
  <2> QED
    BY <1>2, <2>1, <2>2, FitKeeps DEF Steady
<1>5. CASE j = p.job
  <2>1. ~Clear(j)
    BY <1>5 DEF Clear, PodEnds
  <2>2. /\ job[j].status # "READY" /\ Copies(j) = {} /\ Debt(j) = {}
    BY <2>1 DEF Steady, Fit, Whole
  <2>3. ASSUME NEW w \in Busy(j)' PROVE WorkFit(w, j)'
    <3>1. WorkFit(w, j)
      BY <1>2, <2>3 DEF Steady, Fit, Busy
    <3>2. ASSUME worker[w].at = "wait", NEW r \in pods', r.job = j
          PROVE  /\ r.state = "running" => r.num = worker[w].pod
                 /\ r.state = "succeeded" /\ r.num = worker[w].pod => output'[j] = "whole"
      <4>1. CASE r # q
        <5>1. /\ r.state = "running" => r.num = worker[w].pod
              /\ r.state = "succeeded" /\ r.num = worker[w].pod => output[j] = "whole"
          BY <1>3, <3>1, <3>2, <4>1 DEF WorkFit
        <5>2. output[j] = "whole" => output'[j] = "whole"
          BY <1>1, <1>3
        <5> QED
          BY <5>1, <5>2
      <4>2. CASE r = q /\ r.state = "succeeded" /\ r.num = worker[w].pod
        <5>1. ASSUME NEW s \in pods \ {p}, s.job = p.job PROVE s.state # "running"
          BY <1>3, <1>5, <3>1, <3>2, <4>2, <5>1 DEF WorkFit, Steady, OneOfAName
        <5> QED
          BY <1>1, <1>3, <1>5, <4>2, <5>1
      <4> QED
        BY <1>3, <4>1, <4>2
    <3> QED
      BY <1>2, <2>1, <2>2, <3>1, <3>2 DEF WorkFit
  <2>4. Copies(j)' = {} /\ Debt(j)' = {}
    BY <1>2, <2>2 DEF Copies, Debt
  <2> QED
    BY <1>2, <2>2, <2>3, <2>4 DEF Fit, Whole
<1> QED
  BY <1>4, <1>5

LEMMA SteadyStep ==
    ASSUME Undisturbed, Steady, Unspent, Accounted, Sound, [Next]_vars
    PROVE  Steady'
<1>1. OneOfAName'
  BY NamesStep DEF Steady
<1>2. ASSUME NEW j \in Jobs PROVE Fit(j)'
  <2>1. ASSUME NEW w \in Workers, NEW msg \in Messages, Receive(w, msg[1], msg[2])
        PROVE  Fit(j)'
    BY <2>1, ReceiveSteady DEF Messages
  <2>2. CASE UNCHANGED vars
    BY <2>2 DEF vars, tables, files, Steady, Fit, Whole, Clear, Busy, Copies, Debt, WorkFit
  <2> QED
    BY <2>1, <2>2, UnspentStep, WorkSteady, RequestSteady, PodSteady DEF Next, Rest
<1> QED
  BY <1>1, <1>2 DEF Steady

LEMMA InitSteady == Init => Steady /\ Unspent
<1> SUFFICES ASSUME Init PROVE Steady /\ Unspent
  OBVIOUS
<1>1. Unspent
  BY DEF Init, Unspent, IdleRequest, Bounded
<1>2. \A j \in Jobs : Busy(j) = {}
  BY ConstantsAssumption DEF Init, Busy, IdleWorker
<1>3. OneOfAName
  BY DEF Init, OneOfAName
<1>4. \A j \in Jobs : Clear(j) /\ job[j].status # "READY"
  BY DEF Init, Clear
<1> QED
  BY <1>1, <1>2, <1>3, <1>4 DEF Steady, Fit, Whole

(* Where no worker dies, no message is redelivered and no client retries, a *)
(* job is READY only with its whole output, and nothing writes to it.       *)
THEOREM ReadyIsWhole ==
    ASSUME Undisturbed
    PROVE  Spec => []ReadyHasOutput
<1>1. /\ Steady /\ Unspent /\ Accounted /\ Sound /\ [Next]_vars
            => Steady' /\ Unspent' /\ Accounted' /\ Sound'
  BY SteadyStep, UnspentStep, AccountedStep, StepSound
<1>2. Steady => ReadyHasOutput
  BY DEF Steady, Fit, Whole, Clear, ReadyHasOutput
<1> QED
  BY <1>1, <1>2, InitSound, InitAccounted, InitSteady, PTL DEF Spec

-----------------------------------------------------------------------------
(* THE STATUS OF THE GROUP                                                 *)
(*                                                                         *)
(* Where nothing is lost, repeated, timed out, cancelled or retried, each  *)
(* job runs once.  The group is recomputed by workers that have read it    *)
(* and the jobs at different times; what saves it is that a group that has *)
(* an unfinished job aggregates to what it already is.                     *)

Calm == /\ Jobs # {}
        /\ {MaxCrash, MaxUnacked, MaxTimeLimit, MaxRedeliver, MaxCancel, MaxRetry,
            MaxRetries, MaxBrokerFail} = {0}

Early == {"attempt", "count", "stage", "group", "pull", "convert", "submit", "wait",
          "verify", "ready"}
Late == {"close", "failed", "read", "write", "decide", "ack"}

(* The group has begun before a worker is here.                             *)
Begun == (Early \cup Late) \ {"attempt", "count", "stage", "group"}

(* A job is in flight as long as something will still run it, and nothing   *)
(* that waits has been tried.                                               *)
Course(j) ==
    /\ job[j].status \in InFlight
          <=> \/ Copies(j) # {} \/ Debt(j) # {}
              \/ \E w \in Busy(j) : worker[w].at \in Early
    /\ (Copies(j) # {} \/ Debt(j) # {}) => log[j] = <<>> /\ job[j].attempts = 0
    /\ \A w \in Busy(j) : worker[w].at = "attempt" => log[j] = <<>> /\ worker[w].num = 1

Courses == /\ \A c \in Clients : request[c].at \in {"idle", "enqueue"}
           /\ \A w \in Workers : worker[w].at # "publish"
           /\ \A j \in Jobs : Course(j)

AllEnded == \A j \in Jobs : job[j].status \notin InFlight

(* Who will still write the aggregate of jobs that have all ended.          *)
Reporter(w) == \/ worker[w].at \in {"close", "failed", "read"}
               \/ worker[w].at = "write" /\ worker[w].group # worker[w].agg

Grouped ==
    /\ group = "PENDING" => /\ \A j \in Jobs : job[j].status \in InFlight
                            /\ \A w \in Workers : worker[w].at \notin Begun
    /\ group \notin {"PENDING", "IN_PROGRESS"} => AllEnded /\ group = Aggregate
    /\ \A w \in Workers : worker[w].at = "write" =>
          \/ worker[w].group = "IN_PROGRESS" /\ worker[w].agg = "IN_PROGRESS"
          \/ /\ AllEnded /\ worker[w].agg = Aggregate
             /\ worker[w].group = worker[w].agg => group = Aggregate
    /\ AllEnded /\ group # Aggregate => \E w \in Workers : Reporter(w)

LEMMA AggregateEnds ==
    ASSUME Sound
    PROVE  /\ AllEnded => Aggregate \in {"READY"} \cup FailedGroup
           /\ ~AllEnded => Aggregate = "IN_PROGRESS"
           /\ job' = job => Aggregate' = Aggregate /\ AllEnded' = AllEnded
<1> DEFINE S == {job[j].status : j \in Jobs}
<1>1. AllEnded <=> S \cap InFlight = {}
  BY DEF AllEnded
<1>2. /\ S \cap InFlight = {} => Aggregate \in {"READY"} \cup FailedGroup
      /\ S \cap InFlight # {} => Aggregate = "IN_PROGRESS"
  BY DEF Aggregate, FailedGroup, InFlight
<1>3. job' = job => Aggregate' = Aggregate /\ AllEnded' = AllEnded
  BY DEF Aggregate, AllEnded
<1> QED
  BY <1>1, <1>2, <1>3

(* What is left to happen when nothing disturbs.                            *)
LEMMA CalmStep ==
    ASSUME Calm, Courses, Sound, [Next]_vars
    PROVE  \/ \E c \in Clients, j \in Jobs :
                 request[c].at = "enqueue" /\ Enqueue(c, j) /\ Publish(j, 0)
           \/ \E w \in Workers, j \in Jobs : Receive(w, j, 0)
           \/ \E w \in Workers : WorkerStep(w) \/ Progress(w)
           \/ UNCHANGED <<tables, queue, worker, request>>
<1>1. ASSUME NEW what \in Bounded PROVE ~Spend(what, 0)
  <2>1. spent[what] \in Nat
    BY Parts
  <2> QED
    BY <2>1 DEF Spend
<1>2. ASSUME NEW c \in Clients PROVE ~CancelBegin(c) /\ ~RetryBegin(c)
  BY <1>1 DEF Calm, CancelBegin, RetryBegin, Bounded
<1>3. ASSUME NEW c \in Clients, HandlerStep(c)
      PROVE  \E j \in Jobs : request[c].at = "enqueue" /\ Enqueue(c, j) /\ Publish(j, 0)
  <2>1. ~Spend("broker", MaxBrokerFail)
    BY <1>1 DEF Calm, Bounded
  <2>2. request[c].at \in {"idle", "enqueue"}
    BY DEF Courses
  <2>3. PICK j \in Jobs : Enqueue(c, j)
    BY <1>3, <2>2 DEF HandlerStep, Unqueue, CancelTest, RetryClear, RetryPublish, Ungroup,
       CancelMark, CancelGroup, RetryMark, MarkJob, RequestRead, RequestWrite
  <2> QED
    BY <2>1, <2>3 DEF Enqueue
<1>4. ASSUME NEW w \in Workers PROVE ~TimeLimit(w) /\ ~Crash(w) /\ ~Redeliver(w)
  BY <1>1 DEF Calm, TimeLimit, Crash, Redeliver, Bounded
<1>5. ASSUME NEW w \in Workers, NEW msg \in Messages, Receive(w, msg[1], msg[2])
      PROVE  msg[1] \in Jobs /\ Receive(w, msg[1], 0)
  BY <1>5 DEF Messages, Calm
<1>6. ASSUME NEW p \in pods, PodEnds(p) PROVE UNCHANGED <<tables, queue, worker, request>>
  BY <1>6 DEF PodEnds
<1>7. CASE UNCHANGED vars
  BY <1>7 DEF vars
<1> QED
  BY <1>2, <1>3, <1>4, <1>5, <1>6, <1>7 DEF Next, Rest

(* A worker goes on, ends its job, or goes on after its end.                *)
GoesOn(w, j) == /\ worker[w].at \in Early /\ worker'[w].at \in Early \ {"attempt"}
                /\ worker'[w].job = j /\ job'[j].status \in InFlight
                /\ worker'[w].at \in Begun => worker[w].at \in Begun \/ StageGroup(w)
Ends(w, j) == /\ worker[w].at \in Early \cap Begun /\ worker'[w].at \in {"close", "failed"}
              /\ worker'[w].job = j /\ job'[j].status \notin InFlight
Reports(w, j) == /\ worker[w].at \in Late /\ job' = job
                 /\ \/ worker'[w] = IdleWorker
                    \/ worker'[w].job = j /\ worker'[w].at \in Late

LEMMA GoOn ==
    ASSUME Courses, Sound, NEW w \in Workers, NEW j \in Jobs, worker[w].job = j,
           \/ CreateAttempt(w) \/ CountAttempt(w) \/ Stage(w) \/ StageGroup(w)
           \/ Convert(w) \/ SetVerifying(w) \/ Progress(w)
    PROVE  GoesOn(w, j)
<1>1. /\ worker \in [Workers -> WorkRec] /\ worker[w] \in WorkRec
      /\ job \in [Jobs -> JobRec]
  BY Parts
<1>2. Course(j) /\ w \in Busy(j)
  BY DEF Courses, Busy, CreateAttempt, CountAttempt, Stage, StageGroup, Convert, SetVerifying,
     Progress, SetStage
<1>3. worker[w].at \in Early => job[j].status \in InFlight
  BY <1>2 DEF Course
<1>4. ASSUME NEW s, Goto(w, s) PROVE worker'[w].at = s /\ worker'[w].job = j
  BY <1>1, <1>4 DEF Goto, WorkRec
<1>5. CASE CreateAttempt(w)
  <2>1. log[j] = <<>> /\ worker[w].num = 1
    BY <1>2, <1>5 DEF Course, CreateAttempt
  <2>2. ~(worker[w].num <= Len(log[j]))
    BY <2>1
  <2>3. Goto(w, "count") /\ job' = job
    BY <1>5, <2>2 DEF CreateAttempt
  <2> QED
    BY <1>3, <1>4, <1>5, <2>3 DEF GoesOn, Early, Begun, CreateAttempt
<1>6. CASE CountAttempt(w)
  <2>1. job'[j].status = job[j].status
    BY <1>1, <1>6 DEF CountAttempt, JobRec
  <2> QED
    BY <1>3, <1>4, <1>6, <2>1 DEF GoesOn, Early, Begun, CountAttempt
<1>7. CASE StageGroup(w)
  BY <1>3, <1>4, <1>7 DEF GoesOn, Early, Begun, StageGroup
<1>8. ASSUME NEW at, NEW s \in InFlight, NEW next, SetStage(w, at, s, next)
      PROVE  /\ worker[w].at = at /\ worker'[w].at = next /\ worker'[w].job = j
             /\ job'[j].status \in InFlight
  BY <1>4, <1>8, StatusType DEF SetStage, ConversionStatus
<1>9. {"STAGING", "CONVERTING", "VERIFYING"} \subseteq InFlight
  BY DEF InFlight
<1>10. CASE Stage(w)
  BY <1>8, <1>9, <1>10 DEF Stage, GoesOn, Early, Begun, Late
<1>11. CASE Convert(w)
  BY <1>8, <1>9, <1>11 DEF Convert, GoesOn, Early, Begun, Late
<1>12. CASE SetVerifying(w)
  BY <1>8, <1>9, <1>12 DEF SetVerifying, GoesOn, Early, Begun, Late
<1>13. CASE Progress(w)
  BY <1>8, <1>9, <1>13 DEF Progress, GoesOn, Early, Begun, Late
<1> QED
  BY <1>5, <1>6, <1>7, <1>10, <1>11, <1>12, <1>13

LEMMA GoOnOrEnd ==
    ASSUME Courses, Sound, NEW w \in Workers, NEW j \in Jobs, worker[w].job = j,
           PullDisk(w) \/ SubmitPod(w) \/ CopyStaged(w) \/ WaitPod(w) \/ Verify(w)
    PROVE  GoesOn(w, j) \/ Ends(w, j)
<1>1. /\ worker \in [Workers -> WorkRec] /\ worker[w] \in WorkRec
      /\ job \in [Jobs -> JobRec]
  BY Parts
<1>2. worker[w].at \in Early \cap Begun
  BY DEF PullDisk, SubmitPod, CopyStaged, WaitPod, Verify, Early, Begun
<1>3. job[j].status \in InFlight
  BY <1>2 DEF Courses, Course, Busy, Early
<1>4. ASSUME NEW s \in {"convert", "verify"}, Goto(w, s), job' = job PROVE GoesOn(w, j)
  <2>1. worker'[w].at = s /\ worker'[w].job = j
    BY <1>1, <1>4 DEF Goto, WorkRec
  <2> QED
    BY <1>2, <1>3, <1>4, <2>1 DEF GoesOn, Early
<1>5. ASSUME NEW b \in Bucket, Fail(w, b) PROVE Ends(w, j)
  <2>1. job'[j].status = "FAILED"
    BY <1>5, FailedType DEF Fail
  <2>2. worker'[w].at = "failed" /\ worker'[w].job = j
    BY <1>1, <1>5 DEF Fail, WorkRec
  <2> QED
    BY <1>2, <2>1, <2>2 DEF Ends, InFlight
<1>6. "permanent" \in Bucket
  BY DEF Bucket
<1>7. CASE PullDisk(w)
  BY <1>4, <1>5, <1>7 DEF PullDisk
<1>8. CASE SubmitPod(w)
  <2>1. ASSUME NEW n, worker' = [worker EXCEPT ![w].at = "wait", ![w].pod = n], job' = job
        PROVE  GoesOn(w, j)
    <3>1. worker'[w].at = "wait" /\ worker'[w].job = j
      BY <1>1, <2>1 DEF WorkRec
    <3> QED
      BY <1>2, <1>3, <2>1, <3>1 DEF GoesOn, Early
  <2> QED
    BY <1>5, <1>6, <1>8, <2>1 DEF SubmitPod
<1>9. CASE CopyStaged(w)
  BY <1>4, <1>5, <1>6, <1>9 DEF CopyStaged
<1>10. CASE WaitPod(w)
  <2>1. ASSUME LeavePod(w), job' = job PROVE GoesOn(w, j)
    <3>1. worker'[w].at = "verify" /\ worker'[w].job = j
      BY <1>1, <2>1 DEF LeavePod, WorkRec
    <3> QED
      BY <1>2, <1>3, <2>1, <3>1 DEF GoesOn, Early
  <2> QED
    BY <1>5, <1>6, <1>10, <2>1 DEF WaitPod
<1>11. CASE Verify(w)
  <2>1. ASSUME SetJobStatus(j, "READY"), Goto(w, "close") PROVE Ends(w, j)
    <3>1. job'[j].status = "READY"
      BY <2>1, StatusType DEF ConversionStatus
    <3>2. worker'[w].at = "close" /\ worker'[w].job = j
      BY <1>1, <2>1 DEF Goto, WorkRec
    <3> QED
      BY <1>2, <3>1, <3>2 DEF Ends, InFlight
  <2> QED
    BY <1>5, <1>6, <1>11, <2>1 DEF Verify
<1> QED
  BY <1>7, <1>8, <1>9, <1>10, <1>11

LEMMA Report ==
    ASSUME Calm, Sound, NEW w \in Workers, NEW j \in Jobs, worker[w].job = j,
           \/ CloseReady(w) \/ CloseFailed(w) \/ ReadGroup(w) \/ WriteAggregate(w)
           \/ DecideRetry(w) \/ Ack(w)
    PROVE  Reports(w, j)
<1>1. worker \in [Workers -> WorkRec] /\ worker[w] \in WorkRec
  BY Parts
<1>2. ASSUME Finish(w) PROVE worker'[w].at = "ack" /\ worker'[w].job = j
  BY <1>1, <1>2 DEF Finish, IdleWorker
<1>3. CASE CloseReady(w) \/ CloseFailed(w) \/ ReadGroup(w)
  BY <1>1, <1>3 DEF Reports, Late, CloseReady, CloseFailed, CloseAttempt, ReadGroup, WorkRec,
     tables
<1>4. CASE WriteAggregate(w)
  <2>1. CASE Finish(w)
    BY <1>2, <1>4, <2>1 DEF Reports, Late, WriteAggregate
  <2>2. CASE worker' = [worker EXCEPT ![w].at = "decide", ![w].failed = FALSE,
                                      ![w].group = None, ![w].agg = None]
    <3>1. worker'[w].at = "decide" /\ worker'[w].job = j
      BY <1>1, <2>2 DEF WorkRec
    <3> QED
      BY <1>4, <3>1 DEF Reports, Late, WriteAggregate
  <2> QED
    BY <1>4, <2>1, <2>2 DEF WriteAggregate
<1>5. CASE DecideRetry(w)
  <2>1. ~(worker[w].retries < MaxRetries)
    BY <1>1 DEF Calm, WorkRec
  <2> QED
    BY <1>2, <1>5, <2>1 DEF Reports, Late, DecideRetry
<1>6. CASE Ack(w)
  BY <1>1, <1>6 DEF Ack, Leave, Reports, Late, tables
<1> QED
  BY <1>3, <1>4, <1>5, <1>6

LEMMA WorkMoves ==
    ASSUME Calm, Courses, Sound, NEW w \in Workers, NEW j \in Jobs, worker[w].job = j,
           WorkerStep(w) \/ Progress(w)
    PROVE  /\ GoesOn(w, j) \/ Ends(w, j) \/ Reports(w, j)
           /\ queue' = queue /\ request' = request
           /\ \A k \in Jobs \ {j} : job'[k] = job[k] /\ log'[k] = log[k]
           /\ \/ group' = group /\ ~StageGroup(w)
              \/ StageGroup(w)
              \/ WriteAggregate(w)
<1>1. ~PublishRetry(w)
  BY DEF Courses, PublishRetry
<1>2. queue' = queue /\ request' = request
  BY <1>1 DEF WorkerStep, Progress, CreateAttempt, CountAttempt, Stage, StageGroup, PullDisk,
     Convert, SubmitPod, CopyStaged, WaitPod, SetVerifying, Verify, CloseReady, CloseFailed,
     CloseAttempt, ReadGroup, WriteAggregate, DecideRetry, Ack, SetStage
<1>3. ASSUME NEW k \in Jobs \ {j} PROVE job'[k] = job[k] /\ log'[k] = log[k]
  <2>1. log \in [Jobs -> Seq({"RETRYING", "READY", "FAILED"})]
    BY DEF Sound, TypeOK
  <2>2. CASE CreateAttempt(w) \/ CloseReady(w) \/ CloseFailed(w)
    BY <2>1, <2>2 DEF CreateAttempt, CloseReady, CloseFailed, CloseAttempt
  <2>3. CASE ~(CreateAttempt(w) \/ CloseReady(w) \/ CloseFailed(w))
    <3>1. log' = log
      BY <1>1, <2>3 DEF WorkerStep, Progress, CountAttempt, Stage, StageGroup, PullDisk,
         Convert, SubmitPod, CopyStaged, WaitPod, SetVerifying, Verify, ReadGroup,
         WriteAggregate, DecideRetry, Ack, SetStage, tables
    <3> QED
      BY <3>1, WritesOwn
  <2> QED
    BY <2>2, <2>3, WritesOwn
<1>4. \/ group' = group /\ ~StageGroup(w)
      \/ StageGroup(w)
      \/ WriteAggregate(w)
  <2>1. CASE ~StageGroup(w) /\ ~WriteAggregate(w)
    BY <1>1, <2>1 DEF WorkerStep, Progress, CreateAttempt, CountAttempt, Stage, PullDisk,
       Convert, SubmitPod, CopyStaged, WaitPod, SetVerifying, Verify, CloseReady, CloseFailed,
       CloseAttempt, ReadGroup, DecideRetry, Ack, SetStage, tables
  <2> QED
    BY <2>1
<1> QED
  BY <1>1, <1>2, <1>3, <1>4, GoOn, GoOnOrEnd, Report DEF WorkerStep

(* A job on which nothing happens keeps its course.                         *)
LEMMA CourseKeeps ==
    ASSUME NEW j \in Jobs, Course(j), job'[j] = job[j], log'[j] = log[j],
           (Copies(j) # {} \/ Debt(j) # {}) <=> (Copies(j)' # {} \/ Debt(j)' # {}),
           Busy(j)' = Busy(j), \A w \in Busy(j) : worker'[w] = worker[w]
    PROVE  Course(j)'
  BY DEF Course

LEMMA OthersBusy ==
    ASSUME NEW w \in Workers, NEW j \in Jobs, \A u \in Workers \ {w} : worker'[u] = worker[u],
           worker[w].job # j \/ worker[w].at = "ack",
           worker'[w].job # j \/ worker'[w].at = "ack"
    PROVE  Busy(j)' = Busy(j) /\ \A u \in Busy(j) : worker'[u] = worker[u]
  BY DEF Busy

LEMMA WorkCourses ==
    ASSUME Calm, Courses, Unspent, Accounted, Sound, NEW w \in Workers,
           WorkerStep(w) \/ Progress(w)
    PROVE  Courses'
<1>1. PICK j \in Jobs : worker[w].job = j
  <2>1. worker[w].at # "idle"
    BY DEF WorkerStep, Progress, CreateAttempt, CountAttempt, Stage, StageGroup, PullDisk,
       Convert, SubmitPod, CopyStaged, WaitPod, SetVerifying, Verify, CloseReady, CloseFailed,
       CloseAttempt, ReadGroup, WriteAggregate, DecideRetry, PublishRetry, Ack, SetStage
  <2> QED
    BY <2>1, Parts
<1>2. /\ GoesOn(w, j) \/ Ends(w, j) \/ Reports(w, j)
      /\ queue' = queue /\ request' = request
      /\ \A k \in Jobs \ {j} : job'[k] = job[k] /\ log'[k] = log[k]
  BY <1>1, WorkMoves
<1>3. /\ \A u \in Workers \ {w} : worker'[u] = worker[u]
      /\ worker'[w].job \in {j, None}
  <2>1. worker[w].at # "idle"
    BY WorksOn
  <2>2. Over(w).job = worker[w].job
    BY <2>1, OverTypes
  <2> QED
    BY <1>1, <2>2, WorksOn DEF IdleWorker
<1>4. worker'[w].at \in (Early \cup Late \cup {"idle"}) \ {"attempt"}
  BY <1>2 DEF GoesOn, Ends, Reports, Early, Late, IdleWorker
<1>5. \A k \in Jobs : Copies(k)' = Copies(k) /\ Debt(k)' = Debt(k)
  BY <1>2 DEF Copies, Debt
<1>6. ASSUME NEW k \in Jobs \ {j} PROVE Course(k)'
  <2>1. Busy(k)' = Busy(k) /\ \A u \in Busy(k) : worker'[u] = worker[u]
    BY <1>1, <1>3, OthersBusy, ConstantsAssumption
  <2> QED
    BY <1>2, <1>5, <2>1, CourseKeeps DEF Courses
<1>9. ASSUME worker[w].at = "ack" PROVE Course(j)'
  <2>1. UNCHANGED <<tables, files>>
    BY <1>9, OnlyAck
  <2>2. worker'[w] = IdleWorker
    BY <1>9, WorksOn, OverTypes
  <2>3. Busy(j)' = Busy(j) /\ \A u \in Busy(j) : worker'[u] = worker[u]
    BY <1>3, <1>9, <2>2, OthersBusy, ConstantsAssumption DEF IdleWorker
  <2> QED
    BY <1>5, <2>1, <2>3, CourseKeeps DEF Courses, tables
<1>7. ASSUME worker[w].at # "ack" PROVE Course(j)'
  <2>1. Copies(j) = {} /\ Debt(j) = {} /\ \A u \in Busy(j) : u = w
    BY <1>1, <1>7, Alone DEF Busy
  <2>2. \A u \in Busy(j)' : u = w
    BY <1>3, <2>1 DEF Busy
  <2>3. Course(j) /\ w \in Busy(j)
    BY <1>1, <1>7 DEF Courses, Busy
  <2>4. CASE GoesOn(w, j)
    <3>1. w \in Busy(j)'
      BY <2>4 DEF GoesOn, Busy, Early
    <3> QED
      BY <1>5, <2>1, <2>2, <2>4, <3>1 DEF Course, GoesOn
  <2>5. CASE Ends(w, j)
    <3>1. worker'[w].at \notin Early
      BY <2>5 DEF Ends, Early
    <3> QED
      BY <1>4, <1>5, <2>1, <2>2, <2>5, <3>1 DEF Course, Ends
  <2>6. CASE Reports(w, j)
    <3>1. job[j].status \notin InFlight
      BY <2>1, <2>3, <2>6 DEF Course, Reports, Early, Late
    <3>2. worker'[w].at \notin Early
      BY <2>6 DEF Reports, Early, Late, IdleWorker
    <3>3. job'[j].status \notin InFlight
      BY <2>6, <3>1 DEF Reports
    <3> QED
      BY <1>4, <1>5, <2>1, <2>2, <3>2, <3>3 DEF Course
  <2> QED
    BY <1>2, <2>4, <2>5, <2>6
<1>8. \A u \in Workers : worker'[u].at # "publish"
  BY <1>3, <1>4 DEF Courses, Early, Late
<1> QED
  BY <1>2, <1>6, <1>7, <1>8, <1>9 DEF Courses

LEMMA ReceiveCourses ==
    ASSUME Calm, Courses, Sound, NEW w \in Workers, NEW k \in Jobs, Receive(w, k, 0)
    PROVE  /\ Courses'
           /\ worker'[w].at = "attempt" /\ worker'[w].job = k
<1>1. /\ worker \in [Workers -> WorkRec] /\ WorkOk(worker[w], log)
      /\ queue \in [Messages -> Nat] /\ job[k].attempts \in Nat
  BY Parts DEF JobRec
<1>2. 0 \in 0..MaxRetries /\ <<k, 0>> \in Messages
  BY DEF Calm, Messages
<1>3. /\ UNCHANGED <<job, log, request>>
      /\ queue[<<k, 0>>] > 0 /\ queue' = [queue EXCEPT ![<<k, 0>>] = queue[<<k, 0>>] - 1]
      /\ worker[w].job = None
  BY <1>1 DEF Receive, tables, WorkOk
<1>4. Copies(k) # {}
  <2>1. PICK i \in Nat : i = queue[<<k, 0>>] /\ 1 <= i
    BY <1>1, <1>2, <1>3
  <2>2. PICK x : x = <<0, i>>
    OBVIOUS
  <2>3. x = <<0, i>> /\ 1 <= i /\ i <= queue[<<k, 0>>]
    BY <2>1, <2>2
  <2>4. x \in CopiesIn(queue, k)
    BY <1>1, <1>2, <2>3, CopiesMembers
  <2> QED
    BY <2>4, Holders
<1>5. /\ Course(k) /\ job[k].status \in InFlight
      /\ log[k] = <<>> /\ job[k].attempts = 0
  BY <1>4 DEF Courses, Course
<1>6. worker' = [worker EXCEPT ![w] = [IdleWorker EXCEPT !.at = "attempt", !.job = k,
                     !.retries = 0, !.num = job[k].attempts + 1]]
  BY <1>5 DEF Receive, InFlight
<1>7. /\ worker'[w].at = "attempt" /\ worker'[w].job = k /\ worker'[w].num = 1
      /\ \A u \in Workers \ {w} : worker'[u] = worker[u]
  BY <1>1, <1>5, <1>6 DEF IdleWorker
<1>8. ASSUME NEW j \in Jobs \ {k} PROVE Course(j)'
  <2>1. Busy(j)' = Busy(j) /\ \A u \in Busy(j) : worker'[u] = worker[u]
    BY <1>3, <1>7, OthersBusy, ConstantsAssumption
  <2>2. Copies(j)' = Copies(j)
    BY <1>1, <1>3, CopiesOther
  <2>3. Debt(j)' = Debt(j)
    BY <1>3 DEF Debt
  <2> QED
    BY <1>3, <2>1, <2>2, <2>3, CourseKeeps DEF Courses
<1>9. Course(k)'
  <2>1. w \in Busy(k)'
    BY <1>7 DEF Busy
  <2>2. \A u \in Busy(k)' : worker'[u].at = "attempt" => worker'[u].num = 1
    BY <1>5, <1>7 DEF Busy, Course
  <2> QED
    BY <1>3, <1>5, <1>7, <2>1, <2>2 DEF Course, Early
<1>10. \A u \in Workers : worker'[u].at # "publish"
  BY <1>7 DEF Courses
<1> QED
  BY <1>3, <1>7, <1>8, <1>9, <1>10 DEF Courses

LEMMA EnqueueCourses ==
    ASSUME Calm, Courses, Sound, NEW c \in Clients, NEW k \in Jobs, Enqueue(c, k),
           Publish(k, 0)
    PROVE  Courses'
<1>1. /\ request \in [Clients -> ReqRec] /\ request[c] \in ReqRec
      /\ queue \in [Messages -> Nat]
  BY Parts
<1>2. /\ UNCHANGED <<job, log, worker>>
      /\ request[c].at = "enqueue" /\ k \in request[c].todo
      /\ queue' = [queue EXCEPT ![<<k, 0>>] = queue[<<k, 0>>] + 1]
  BY DEF Enqueue, tables, Publish
<1>3. 0 \in 0..MaxRetries /\ <<k, 0>> \in Messages
  BY DEF Calm, Messages
<1>4. Debt(k) # {}
  BY <1>2 DEF Debt, Owes
<1>5. Copies(k)' # {}
  <2>1. queue' \in [Messages -> Nat] /\ queue'[<<k, 0>>] = queue[<<k, 0>>] + 1
    BY <1>3, PublishType
  <2>2. PICK i \in Nat : i = queue'[<<k, 0>>] /\ 1 <= i
    BY <1>1, <1>3, <2>1
  <2>3. PICK x : x = <<0, i>>
    OBVIOUS
  <2>4. x = <<0, i>> /\ 1 <= i /\ i <= queue'[<<k, 0>>]
    BY <2>2, <2>3
  <2>5. x \in CopiesIn(queue', k)
    BY <1>3, <2>1, <2>4, CopiesMembers
  <2> QED
    BY <2>5, Holders
<1>6. \/ request[c].todo = {k} /\ request' = [request EXCEPT ![c] = IdleRequest]
      \/ /\ request[c].todo # {k}
         /\ request' = [request EXCEPT ![c] = [request[c] EXCEPT !.todo = @ \ {k}]]
      \/ request' = [request EXCEPT ![c].at = "unqueue", ![c].todo = Jobs]
         /\ queue' = queue
  BY <1>1 DEF Enqueue
<1>7. queue' # queue
  BY <1>1, <1>2, <1>3
<1>8. \A d \in Clients : request'[d].at \in {"idle", "enqueue"}
  <2>1. \A d \in Clients : request[d].at \in {"idle", "enqueue"}
    BY DEF Courses
  <2>2. CASE request' = [request EXCEPT ![c] = IdleRequest]
    BY <1>1, <2>1, <2>2 DEF IdleRequest
  <2>3. CASE request' = [request EXCEPT ![c] = [request[c] EXCEPT !.todo = @ \ {k}]]
    BY <1>1, <2>1, <2>3 DEF ReqRec
  <2> QED
    BY <1>6, <1>7, <2>2, <2>3
<1>9. ASSUME NEW j \in Jobs \ {k} PROVE Course(j)'
  <2>1. Busy(j)' = Busy(j) /\ \A u \in Busy(j) : worker'[u] = worker[u]
    BY <1>2 DEF Busy
  <2>2. Copies(j)' = Copies(j)
    BY <1>1, <1>2, CopiesOther
  <2>3. ASSUME NEW d \in Clients PROVE Owes(request'[d], j) <=> Owes(request[d], j)
    BY <1>1, <1>2, <1>6, <1>7 DEF Owes, IdleRequest, ReqRec
  <2>4. Debt(j)' = Debt(j)
    BY <2>3 DEF Debt
  <2> QED
    BY <1>2, <2>1, <2>2, <2>4, CourseKeeps DEF Courses
<1>10. Course(k)'
  BY <1>2, <1>4, <1>5 DEF Courses, Course, Busy
<1> QED
  BY <1>2, <1>8, <1>9, <1>10 DEF Courses

LEMMA CoursesStep ==
    ASSUME Calm, Courses, Unspent, Accounted, Sound, [Next]_vars
    PROVE  Courses'
<1>1. CASE UNCHANGED <<tables, queue, worker, request>>
  <2>1. ASSUME NEW j \in Jobs PROVE Course(j)'
    <3>1. Copies(j)' = Copies(j) /\ Debt(j)' = Debt(j) /\ Busy(j)' = Busy(j)
      BY <1>1 DEF Copies, Debt, Busy
    <3> QED
      BY <1>1, <3>1, CourseKeeps DEF Courses, tables
  <2> QED
    BY <1>1, <2>1 DEF Courses
<1> QED
  BY <1>1, CalmStep, WorkCourses, ReceiveCourses, EnqueueCourses

(* A worker that has not ended its job keeps the group from ending.         *)
LEMMA EarlyOpen ==
    ASSUME Courses, Sound, NEW w \in Workers, worker[w].at \in Early
    PROVE  ~AllEnded
<1>1. worker[w].job \in Jobs
  BY Parts DEF Early
<1>2. w \in Busy(worker[w].job)
  BY DEF Busy, Early
<1> QED
  BY <1>1, <1>2 DEF Courses, Course, AllEnded

(* How the group moves.                                                     *)
GroupMove == \/ group' = group
             \/ /\ group \in {"PENDING", "IN_PROGRESS"} /\ group' = "IN_PROGRESS"
                /\ ~AllEnded
             \/ AllEnded /\ group' = Aggregate /\ group \in {"IN_PROGRESS", Aggregate}

LEMMA AllEndedGroup ==
    ASSUME Calm, Grouped, AllEnded
    PROVE  group = "IN_PROGRESS" \/ group = Aggregate
  BY DEF Calm, Grouped, AllEnded

LEMMA WorkGroupMove ==
    ASSUME Calm, Courses, Grouped, Sound, NEW w \in Workers, NEW j \in Jobs,
           worker[w].job = j, WorkerStep(w) \/ Progress(w)
    PROVE  /\ GroupMove
           /\ (WriteAggregate(w) /\ worker[w].group # worker[w].agg) => group' = Aggregate
<1>1. group' = group \/ StageGroup(w) \/ WriteAggregate(w)
  BY WorkMoves
<1>2. CASE StageGroup(w)
  <2>1. worker[w].at = "group" /\ group' = "IN_PROGRESS"
    BY <1>2 DEF StageGroup
  <2>2. ~AllEnded
    BY <2>1, EarlyOpen DEF Early
  <2> QED
    BY <2>1, <2>2 DEF Grouped, GroupMove, WriteAggregate
<1>3. CASE WriteAggregate(w)
  <2>1. /\ worker[w].at = "write"
        /\ group' = IF worker[w].group = worker[w].agg THEN group ELSE worker[w].agg
    BY <1>3 DEF WriteAggregate, WriteGroup
  <2>2. worker[w].group # worker[w].agg => AllEnded /\ worker[w].agg = Aggregate
    BY <2>1 DEF Grouped
  <2> QED
    BY <2>1, <2>2, AllEndedGroup DEF GroupMove
<1>4. CASE group' = group /\ ~WriteAggregate(w)
  BY <1>4 DEF GroupMove
<1> QED
  BY <1>1, <1>2, <1>3, <1>4

(* The parts of Grouped that follow from the move of the group.             *)
LEMMA StatusGrouped ==
    ASSUME Calm, Courses, Grouped, Sound, Sound', GroupMove,
           AllEnded => job' = job
    PROVE  /\ AllEnded => AllEnded' /\ Aggregate' = Aggregate
           /\ group' \notin {"PENDING", "IN_PROGRESS"} => AllEnded' /\ group' = Aggregate'
<1>1. AllEnded => AllEnded' /\ Aggregate' = Aggregate
  BY AggregateEnds
<1> QED
  BY <1>1 DEF GroupMove, Grouped

LEMMA AtReport ==
    ASSUME NEW w \in Workers, WorkerStep(w) \/ Progress(w),
           worker[w].at \in {"close", "failed", "read", "write"}
    PROVE  CloseReady(w) \/ CloseFailed(w) \/ ReadGroup(w) \/ WriteAggregate(w)
  BY DEF WorkerStep, Progress, CreateAttempt, CountAttempt, Stage, StageGroup, PullDisk,
     Convert, SubmitPod, CopyStaged, WaitPod, SetVerifying, Verify, DecideRetry, PublishRetry,
     Ack, SetStage

LEMMA WriteByRead ==
    ASSUME Calm, Courses, Sound, NEW w \in Workers, NEW j \in Jobs, worker[w].job = j,
           WorkerStep(w) \/ Progress(w), worker'[w].at = "write"
    PROVE  ReadGroup(w)
<1>1. worker \in [Workers -> WorkRec] /\ worker[w] \in WorkRec
  BY Parts
<1>2. Reports(w, j)
  BY WorkMoves DEF GoesOn, Ends, Early
<1>3. worker[w].at \in Late
  BY <1>2 DEF Reports
<1>4. CASE worker[w].at = "decide"
  <2>1. DecideRetry(w)
    BY <1>4 DEF WorkerStep, Progress, CreateAttempt, CountAttempt, Stage, StageGroup, PullDisk,
       Convert, SubmitPod, CopyStaged, WaitPod, SetVerifying, Verify, PublishRetry, Ack, SetStage,
       CloseReady, CloseFailed, CloseAttempt, ReadGroup, WriteAggregate
  <2>2. Goto(w, "publish") \/ Finish(w)
    BY <2>1 DEF DecideRetry
  <2>3. CASE Goto(w, "publish")
    BY <1>1, <2>3 DEF Goto, WorkRec
  <2>4. CASE Finish(w)
    <3>1. worker'[w] = Over(w)
      BY <1>1, <2>4 DEF Finish, Over
    <3> QED
      BY <3>1 DEF Over, IdleWorker
  <2> QED
    BY <2>2, <2>3, <2>4
<1>5. CASE worker[w].at \in {"close", "failed", "read", "write"}
  <2>1. CloseReady(w) \/ CloseFailed(w) \/ ReadGroup(w) \/ WriteAggregate(w)
    BY <1>5, AtReport
  <2>2. ~CloseReady(w) /\ ~CloseFailed(w)
    BY <1>1 DEF CloseReady, CloseFailed, CloseAttempt, WorkRec
  <2>3. ASSUME WriteAggregate(w) PROVE worker'[w].at \in {"ack", "decide"}
    <3>1. CASE worker[w].failed
      <4>1. worker' = [worker EXCEPT ![w] = [worker[w] EXCEPT !.at = "decide",
                         !.failed = FALSE, !.group = None, !.agg = None]]
        BY <1>1, <2>3, <3>1 DEF WriteAggregate
      <4>2. worker'[w] = [worker[w] EXCEPT !.at = "decide",
                         !.failed = FALSE, !.group = None, !.agg = None]
        BY <1>1, <4>1
      <4> QED
        BY <1>1, <4>2 DEF WorkRec
    <3>2. CASE ~worker[w].failed
      <4>1. worker'[w] = Over(w)
        BY <1>1, <2>3, <3>2 DEF WriteAggregate, Finish, Over
      <4> QED
        BY <4>1 DEF Over, IdleWorker
    <3> QED
      BY <3>1, <3>2
  <2> QED
    BY <2>1, <2>2, <2>3
<1>6. CASE worker[w].at = "ack"
  BY <1>1, <1>6, OnlyAck DEF Ack, Crash, Leave, IdleWorker
<1> QED
  BY <1>3, <1>4, <1>5, <1>6 DEF Late

LEMMA WorkGrouped ==
    ASSUME Calm, Courses, Grouped, Unspent, Accounted, Sound, Sound', NEW w \in Workers,
           WorkerStep(w) \/ Progress(w)
    PROVE  Grouped' /\ GroupMove
<1>1. PICK j \in Jobs : worker[w].job = j
  <2>1. worker[w].at # "idle"
    BY DEF WorkerStep, Progress, CreateAttempt, CountAttempt, Stage, StageGroup, PullDisk,
       Convert, SubmitPod, CopyStaged, WaitPod, SetVerifying, Verify, CloseReady, CloseFailed,
       CloseAttempt, ReadGroup, WriteAggregate, DecideRetry, PublishRetry, Ack, SetStage
  <2> QED
    BY <2>1, Parts
<1>2. /\ GoesOn(w, j) \/ Ends(w, j) \/ Reports(w, j)
      /\ \A k \in Jobs \ {j} : job'[k] = job[k]
  BY <1>1, WorkMoves
<1>3. \A u \in Workers \ {w} : worker'[u] = worker[u]
  BY WorksOn
<1>4. /\ GroupMove
      /\ (WriteAggregate(w) /\ worker[w].group # worker[w].agg) => group' = Aggregate
  BY <1>1, WorkGroupMove
<1>5. AllEnded => job' = job
  BY <1>2, EarlyOpen DEF GoesOn, Ends, Reports
<1>6. /\ AllEnded => AllEnded' /\ Aggregate' = Aggregate
      /\ group' \notin {"PENDING", "IN_PROGRESS"} => AllEnded' /\ group' = Aggregate'
  BY <1>4, <1>5, StatusGrouped
<1>7. ASSUME group' = "PENDING"
      PROVE  /\ \A k \in Jobs : job'[k].status \in InFlight
             /\ \A u \in Workers : worker'[u].at \notin Begun
  <2>1. group = "PENDING"
    BY <1>4, <1>7, AggregateEnds DEF GroupMove, FailedGroup
  <2>2. /\ \A k \in Jobs : job[k].status \in InFlight
        /\ \A u \in Workers : worker[u].at \notin Begun
    BY <2>1 DEF Grouped
  <2>3. ~StageGroup(w)
    BY <1>7 DEF StageGroup
  <2>4. GoesOn(w, j)
    BY <1>2, <2>2 DEF Ends, Reports, Begun, Late, Early
  <2>5. worker'[w].at \notin Begun
    BY <2>2, <2>3, <2>4 DEF GoesOn
  <2> QED
    BY <1>2, <1>3, <2>2, <2>4, <2>5 DEF GoesOn
<1>8. ASSUME NEW u \in Workers, worker'[u].at = "write"
      PROVE  \/ worker'[u].group = "IN_PROGRESS" /\ worker'[u].agg = "IN_PROGRESS"
             \/ /\ AllEnded' /\ worker'[u].agg = Aggregate'
                /\ worker'[u].group = worker'[u].agg => group' = Aggregate'
  <2>1. CASE u # w
    <3>1. \/ worker[u].group = "IN_PROGRESS" /\ worker[u].agg = "IN_PROGRESS"
          \/ /\ AllEnded /\ worker[u].agg = Aggregate
             /\ worker[u].group = worker[u].agg => group = Aggregate
      BY <1>3, <1>8, <2>1 DEF Grouped
    <3> QED
      BY <1>3, <1>4, <1>6, <2>1, <3>1 DEF GroupMove
  <2>2. CASE u = w
    <3>1. ReadGroup(w)
      BY <1>1, <1>8, <2>2, WriteByRead
    <3>2. /\ worker'[w].group = group /\ worker'[w].agg = Aggregate
          /\ job' = job /\ group' = group /\ worker[w].at = "read"
      <4>1. worker \in [Workers -> WorkRec] /\ worker[w] \in WorkRec
        BY Parts
      <4> QED
        BY <3>1, <4>1 DEF ReadGroup, WorkRec, tables
    <3>3. group # "PENDING"
      BY <3>2 DEF Grouped, Begun, Late
    <3>4. CASE AllEnded
      BY <1>6, <2>2, <3>2, <3>4
    <3>5. CASE ~AllEnded
      BY <2>2, <3>2, <3>3, <3>5, AggregateEnds DEF Grouped
    <3> QED
      BY <3>4, <3>5
  <2> QED
    BY <2>1, <2>2
<1>9. ASSUME AllEnded', group' # Aggregate'
      PROVE  \E u \in Workers : Reporter(u)'
  <2>1. CASE Ends(w, j)
    BY <2>1 DEF Ends, Reporter
  <2>2. CASE GoesOn(w, j)
    BY <1>9, <2>2 DEF GoesOn, AllEnded
  <2>3. CASE Reports(w, j)
    <3>1. AllEnded /\ Aggregate' = Aggregate
      BY <1>9, <2>3, AggregateEnds DEF Reports
    <3>2. group # Aggregate
      BY <1>4, <1>9, <3>1 DEF GroupMove
    <3>3. PICK u \in Workers : Reporter(u)
      BY <3>1, <3>2 DEF Grouped
    <3>4. CASE u # w
      BY <1>3, <3>3, <3>4 DEF Reporter
    <3>5. CASE u = w
      <4>1. worker \in [Workers -> WorkRec] /\ worker[w] \in WorkRec
        BY Parts
      <4>2. ~WriteAggregate(w)
        BY <1>4, <1>9, <3>1, <3>3, <3>5 DEF Reporter, WriteAggregate
      <4>3. CloseReady(w) \/ CloseFailed(w) \/ ReadGroup(w)
        <5>1. worker[w].at \in {"close", "failed", "read", "write"}
          BY <3>3, <3>5 DEF Reporter
        <5> QED
          BY <4>2, <5>1, AtReport
      <4>4. CASE CloseReady(w) \/ CloseFailed(w)
        <5>1. worker'[w].at = "read"
          BY <4>1, <4>4 DEF CloseReady, CloseFailed, CloseAttempt, WorkRec
        <5> QED
          BY <5>1 DEF Reporter
      <4>5. CASE ReadGroup(w)
        <5>1. /\ worker'[w].at = "write" /\ worker'[w].group = group
              /\ worker'[w].agg = Aggregate
          BY <4>1, <4>5 DEF ReadGroup, WorkRec
        <5> QED
          BY <3>2, <5>1 DEF Reporter
      <4> QED
        BY <4>3, <4>4, <4>5
    <3> QED
      BY <3>4, <3>5
  <2> QED
    BY <1>2, <2>1, <2>2, <2>3
<1> QED
  BY <1>4, <1>6, <1>7, <1>8, <1>9 DEF Grouped

LEMMA GroupedStep ==
    ASSUME Calm, Courses, Grouped, Unspent, Accounted, Sound, Sound', [Next]_vars
    PROVE  Grouped' /\ GroupMove
<1>1. ASSUME job' = job, group' = group,
             \A w \in Workers : \/ worker'[w] = worker[w]
                                \/ worker'[w].at = "attempt" /\ worker[w].at = "idle"
      PROVE  Grouped' /\ GroupMove
  <2>1. AllEnded' = AllEnded /\ Aggregate' = Aggregate
    BY <1>1, AggregateEnds
  <2>2. \A w \in Workers : worker'[w].at \in Begun => worker'[w] = worker[w]
    BY <1>1 DEF Begun, Late
  <2>3. \A w \in Workers : worker'[w].at = "write" => worker'[w] = worker[w]
    BY <1>1
  <2>4. \A w \in Workers : Reporter(w) => Reporter(w)'
    BY <1>1 DEF Reporter
  <2> QED
    BY <1>1, <2>1, <2>2, <2>3, <2>4 DEF Grouped, GroupMove
<1>2. ASSUME NEW w \in Workers, NEW k \in Jobs, Receive(w, k, 0)
      PROVE  Grouped' /\ GroupMove
  <2>1. worker'[w].at = "attempt" /\ worker[w].at = "idle" /\ job' = job /\ group' = group
    BY <1>2, ReceiveCourses DEF Receive, tables
  <2>2. \A u \in Workers \ {w} : worker'[u] = worker[u]
    BY <1>2, Parts DEF Receive
  <2> QED
    BY <1>1, <2>1, <2>2
<1>3. ASSUME NEW c \in Clients, NEW k \in Jobs, Enqueue(c, k) PROVE Grouped' /\ GroupMove
  BY <1>1, <1>3 DEF Enqueue, tables
<1>4. CASE UNCHANGED <<tables, queue, worker, request>>
  BY <1>1, <1>4 DEF tables
<1> QED
  BY <1>2, <1>3, <1>4, CalmStep, WorkGrouped

LEMMA InitCalm == ASSUME Calm PROVE Init => Courses /\ Grouped
<1> SUFFICES ASSUME Init PROVE Courses /\ Grouped
  OBVIOUS
<1>1. \A j \in Jobs : Busy(j) = {} /\ job[j].status \in InFlight /\ Debt(j) # {}
                      /\ log[j] = <<>> /\ job[j].attempts = 0
  BY ConstantsAssumption DEF Init, Busy, IdleWorker, IdleRequest, InFlight, Debt, Owes
<1>2. \A c \in Clients : request[c].at \in {"idle", "enqueue"}
  BY DEF Init, IdleRequest
<1>3. \A w \in Workers : worker[w].at = "idle"
  BY DEF Init, IdleWorker
<1>4. ~AllEnded /\ group = "PENDING"
  BY <1>1 DEF Calm, AllEnded, Init
<1>5. Courses
  BY <1>1, <1>2, <1>3 DEF Courses, Course
<1>6. Grouped
  BY <1>1, <1>3, <1>4 DEF Grouped, Begun, Early, Late
<1> QED
  BY <1>5, <1>6

CalmInv == Courses /\ Grouped /\ Unspent /\ Accounted /\ Sound

LEMMA CalmInvariant ==
    ASSUME Calm
    PROVE  /\ Init => CalmInv
           /\ CalmInv /\ [Next]_vars => CalmInv' /\ GroupMove
<1>1. Undisturbed
  BY DEF Calm, Undisturbed
<1>2. CalmInv /\ [Next]_vars => CalmInv' /\ GroupMove
  BY <1>1, CoursesStep, GroupedStep, UnspentStep, AccountedStep, StepSound DEF CalmInv
<1>3. Init => CalmInv
  BY InitSound, InitAccounted, InitSteady, InitCalm DEF CalmInv
<1> QED
  BY <1>2, <1>3

(* Where nothing disturbs, the group that everybody has finished with has   *)
(* the aggregate of its jobs, although workers recompute it from reads that *)
(* are out of date.                                                         *)
THEOREM GroupSettles ==
    ASSUME Calm
    PROVE  Spec => []Settled
<1>1. ASSUME CalmInv, Idle PROVE group = Aggregate
  <2>1. \A w \in Workers : ~Reporter(w) /\ worker[w].at \notin Early
    BY <1>1 DEF Idle, Reporter, Early
  <2>2. ASSUME NEW j \in Jobs PROVE Copies(j) = {} /\ Debt(j) = {}
    <3>1. Debt(j) = {}
      BY <1>1 DEF Idle, Debt, Owes
    <3>2. queue \in [Messages -> Nat]
      BY <1>1, Parts DEF CalmInv
    <3>3. ASSUME NEW x \in Copies(j) PROVE FALSE
      <4>0. x \in CopiesIn(queue, j)
        BY <3>3, Holders
      <4>1. PICK n \in 0..MaxRetries, i \in Nat :
                x = <<n, i>> /\ 1 <= i /\ i <= queue[<<j, n>>]
        BY <3>2, <4>0, CopiesMembers
      <4>2. queue[<<j, n>>] = 0
        BY <1>1 DEF Idle, Messages
      <4> QED
        BY <4>1, <4>2
    <3> QED
      BY <3>1, <3>3
  <2>3. AllEnded
    BY <1>1, <2>1, <2>2 DEF CalmInv, Courses, Course, AllEnded, Busy
  <2> QED
    BY <1>1, <2>1, <2>3 DEF CalmInv, Grouped
<1>2. CalmInv => Settled
  BY <1>1 DEF Settled
<1>3. CalmInv /\ [Next]_vars => CalmInv'
  BY CalmInvariant
<1>4. Init => CalmInv
  BY CalmInvariant
<1> QED
  BY <1>2, <1>3, <1>4, PTL DEF Spec

(* Where nothing disturbs, the group moves as the rest of the platform      *)
(* expects: it implements GroupLife.                                        *)
THEOREM GroupImplementsLife ==
    ASSUME Calm
    PROVE  Spec => GroupLives
<1>1. ASSUME CalmInv, GroupMove, Sound' PROVE [Life!Next]_group
  <2>1. group \in GroupStatus /\ group' \in GroupStatus
    BY <1>1 DEF CalmInv, Sound, TypeOK
  <2>2. CASE group' = group
    BY <2>2
  <2>3. CASE group' # group
    <3>1. Life!Expected(group, group')
      <4>1. CASE /\ group \in {"PENDING", "IN_PROGRESS"} /\ group' = "IN_PROGRESS"
        BY <2>3, <4>1 DEF Life!Expected
      <4>2. CASE AllEnded /\ group' = Aggregate /\ group \in {"IN_PROGRESS", Aggregate}
        <5>1. group' \in {"READY"} \cup FailedGroup
          BY <1>1, <4>2, AggregateEnds DEF CalmInv
        <5> QED
          BY <2>3, <4>2, <5>1 DEF Life!Expected, Life!FailedGroup, FailedGroup
      <4> QED
        BY <1>1, <2>3, <4>1, <4>2 DEF GroupMove
    <3> QED
      BY <2>1, <3>1 DEF Life!Next, Life!GroupStatus, Life!FailedGroup, GroupStatus, FailedGroup
  <2> QED
    BY <2>2, <2>3
<1>2. Init => Life!Init
  BY DEF Init, Life!Init
<1>3. CalmInv /\ [Next]_vars => CalmInv' /\ [Life!Next]_group
  <2>1. CalmInv /\ [Next]_vars => CalmInv' /\ GroupMove
    BY CalmInvariant
  <2>2. CalmInv' => Sound'
    BY DEF CalmInv
  <2> QED
    BY <1>1, <2>1, <2>2
<1>4. Init => CalmInv
  BY CalmInvariant
<1> QED
  BY <1>2, <1>3, <1>4, PTL DEF Spec, GroupLives, Life!Spec
=============================================================================
