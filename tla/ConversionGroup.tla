--------------------------- MODULE ConversionGroup ---------------------------
(***************************************************************************)
(* The conversion jobs of ONE group, one per disk: the request that        *)
(* enqueues them, the Celery workers that drive run_conversion_job, the    *)
(* cluster Jobs that write the converted files, and the requests that      *)
(* cancel or retry the group.                                              *)
(*                                                                         *)
(* No row is locked here.  A worker writes the status of its job with no   *)
(* test of what is there.  A read and the write that directly follows it   *)
(* are one step; a read that is acted on later is a step of its own: the   *)
(* tests of the requests, and recompute_group_status, which reads the      *)
(* group, then the jobs, and writes the aggregate only if it differs from  *)
(* the status of the group it has read.                                    *)
(*                                                                         *)
(* External: the connector that stages a disk succeeds or raises, a        *)
(* cluster Job succeeds, fails or hangs.                                   *)
(***************************************************************************)
EXTENDS Naturals, Sequences, FiniteSets, GroupStatuses

CONSTANTS Jobs,            \* one conversion job per disk
          Workers,         \* celery processes of the conversions queue
          Clients,         \* concurrent HTTP requests
          Submitter,       \* the request that creates the group
          None,            \* null
          Passthrough,     \* the jobs whose tool is PASSTHROUGH: no conversion
          MaxRetries,      \* automatic retries of one task
          ResetAttempts,   \* ConversionRetry.reset_attempts
          MaxCrash,        \* worker deaths within a task
          MaxUnacked,      \* worker deaths between a task's end and its ack
          MaxTimeLimit,    \* soft time limits that expire
          MaxRedeliver,    \* visibility-timeout redeliveries
          MaxCancel,       \* POST /conversions/{uuid}/cancel requests
          MaxRetry,        \* POST /conversions/{uuid}/retry requests
          MaxBrokerFail,   \* failed publishes
          MaxUndeleted,    \* cluster Jobs whose deletion is refused
          MaxKinds         \* kinds of these events in one behaviour

ASSUME ConstantsAssumption ==
    /\ Submitter \in Clients
    /\ None \notin Jobs
    /\ Passthrough \subseteq Jobs
    /\ {MaxRetries, MaxCrash, MaxUnacked, MaxTimeLimit, MaxRedeliver, MaxCancel,
        MaxRetry, MaxBrokerFail, MaxUndeleted, MaxKinds} \subseteq Nat
    /\ ResetAttempts \in BOOLEAN

VARIABLES job,      \* conversion_jobs: status, attempts, bucket of error_code
          log,      \* conversion_attempts of each job: final_status by number
          group,    \* conversion_groups.status
          output,   \* the converted file of each job on the transit volume
          pods,     \* cluster Jobs that exist: job, attempt in the name, state
          queue,    \* messages in the broker: copies of <<job, retries>>
          worker,   \* what each celery process is doing
          request,  \* what each HTTP request is doing
          spent     \* how much of each bound of the environment is used

tables == <<job, log, group>>
files == <<output, pods>>
vars == <<tables, files, queue, worker, request, spent>>

-----------------------------------------------------------------------------
(* Nothing sets PLANNING or EXPIRED.                                        *)
InFlight == {"PENDING", "STAGING", "CONVERTING", "VERIFYING", "RETRYING"}
ConversionStatus == InFlight \cup {"READY", "FAILED", "CANCELLED"}
Bucket == {"transient", "permanent"}

Messages == Jobs \X (0..MaxRetries)

(* Inside the try of run_job, and outside of it.                            *)
Guarded == {"stage", "group", "pull", "convert", "submit", "wait", "verify",
            "ready", "close"}
Stages == Guarded \cup {"attempt", "count", "failed", "read", "write",
                        "decide", "publish", "ack"}
IdleWorker == [at |-> "idle", job |-> None, retries |-> 0, num |-> 0, pod |-> 0,
               failed |-> FALSE, group |-> None, agg |-> None]
IdleRequest == [at |-> "idle", todo |-> {}, ids |-> {}, mark |-> None,
                group |-> None, agg |-> None]
Bounded == {"crash", "unacked", "limit", "redeliver", "cancel", "retry", "broker",
            "undeleted"}

TypeOK ==
    /\ job \in [Jobs -> [status : ConversionStatus, attempts : Nat,
                         error : Bucket \cup {None}]]
    /\ log \in [Jobs -> Seq({"RETRYING", "READY", "FAILED"})]
    /\ group \in GroupStatus
    /\ output \in [Jobs -> {"none", "partial", "whole"}]
    /\ pods \subseteq [job : Jobs, num : Nat,
                       state : {"running", "succeeded", "failed"}]
    /\ queue \in [Messages -> Nat]
    /\ worker \in [Workers ->
          [at : Stages \cup {"idle"}, job : Jobs \cup {None}, retries : 0..MaxRetries,
           num : Nat, pod : Nat, failed : BOOLEAN,
           group : GroupStatus \cup {None}, agg : GroupStatus \cup {None}]]
    /\ request \in [Clients ->
          [at : {"idle", "enqueue", "unqueue", "ungroup", "cancel", "retry", "read",
                 "write", "cancelled", "publish"},
           todo : SUBSET Jobs, ids : SUBSET Jobs, mark : Jobs \cup {None},
           group : GroupStatus \cup {None}, agg : GroupStatus \cup {None}]]
    /\ spent \in [Bounded -> Nat]

(* create_group_for_vm has committed the group and its jobs.                *)
Init ==
    /\ job = [j \in Jobs |-> [status |-> "PENDING", attempts |-> 0, error |-> None]]
    /\ log = [j \in Jobs |-> <<>>]
    /\ group = "PENDING"
    /\ output = [j \in Jobs |-> "none"]
    /\ pods = {}
    /\ queue = [msg \in Messages |-> 0]
    /\ worker = [w \in Workers |-> IdleWorker]
    /\ request = [c \in Clients |->
          IF c = Submitter THEN [IdleRequest EXCEPT !.at = "enqueue", !.todo = Jobs]
                           ELSE IdleRequest]
    /\ spent = [what \in Bounded |-> 0]

-----------------------------------------------------------------------------
Spend(what, max) ==
    /\ spent[what] < max
    /\ Cardinality({what} \cup {k \in DOMAIN spent : spent[k] > 0}) <= MaxKinds
    /\ spent' = [spent EXCEPT ![what] = @ + 1]

SetJobStatus(j, status) == job' = [job EXCEPT ![j].status = status]
SetFailed(j, bucket) ==
    job' = [job EXCEPT ![j].status = "FAILED", ![j].error = bucket]

Publish(j, retries) == queue' = [queue EXCEPT ![<<j, retries>>] = @ + 1]

(* Mutant: a job that waits for a worker does not count.                    *)
AggregateBegun ==
    LET statuses == {job[j].status : j \in Jobs} \ {"PENDING"} IN
    IF statuses \cap InFlight # {} THEN "IN_PROGRESS"
    ELSE IF statuses = {"READY"} THEN "READY"
    ELSE IF "READY" \in statuses THEN "PARTIAL"
    ELSE IF statuses = {"CANCELLED"} THEN "CANCELLED"
    ELSE "FAILED"

(* The aggregate recompute_group_status derives from the jobs.              *)
Aggregate ==
    LET statuses == {job[j].status : j \in Jobs} IN
    IF statuses \cap InFlight # {} THEN "IN_PROGRESS"
    ELSE IF statuses = {"READY"} THEN "READY"
    ELSE IF "READY" \in statuses THEN "PARTIAL"
    ELSE IF statuses = {"CANCELLED"} THEN "CANCELLED"
    ELSE "FAILED"

(* The second half of recompute_group_status: the group as it was read.     *)
WriteGroup(seen, agg) == group' = IF seen = agg THEN group ELSE agg

-----------------------------------------------------------------------------
(* HTTP handlers                                                           *)

Respond(c) == request' = [request EXCEPT ![c] = IdleRequest]

(* convert_vm: one message per job; when the broker does not answer, every  *)
(* job, enqueued or not, and then the group are FAILED.                     *)
Enqueue(c, j) ==
    /\ request[c].at = "enqueue" /\ j \in request[c].todo
    /\ \/ /\ Publish(j, 0)
          /\ request' = [request EXCEPT ![c] =
                IF @.todo = {j} THEN IdleRequest
                ELSE [request[c] EXCEPT !.todo = @ \ {j}]]
          /\ UNCHANGED spent
       \/ /\ Spend("broker", MaxBrokerFail)
          /\ request' = [request EXCEPT ![c].at = "unqueue", ![c].todo = Jobs]
          /\ UNCHANGED queue
    /\ UNCHANGED <<tables, files, worker>>

Unqueue(c, j) ==
    /\ request[c].at = "unqueue" /\ j \in request[c].todo
    /\ SetJobStatus(j, "FAILED")
    /\ request' = [request EXCEPT ![c].todo = @ \ {j},
          ![c].at = IF request[c].todo = {j} THEN "ungroup" ELSE "unqueue"]
    /\ UNCHANGED <<log, group, files, queue, worker, spent>>

Ungroup(c) ==
    /\ request[c].at = "ungroup"
    /\ group' = "FAILED"
    /\ Respond(c)
    /\ UNCHANGED <<job, log, files, queue, worker, spent>>

(* POST /cancel: refuse an ended group ...                                  *)
CancelBegin(c) ==
    /\ request[c].at = "idle" /\ group \notin {"READY", "FAILED", "CANCELLED"}
    /\ Spend("cancel", MaxCancel)
    /\ request' = [request EXCEPT ![c].at = "cancel", ![c].todo = Jobs]
    /\ UNCHANGED <<tables, files, queue, worker>>

(* ... test each job, and cancel it in the next transaction, whatever its   *)
(* worker has written in between ...                                        *)
CancelTest(c, j) ==
    LET todo == request[c].todo \ {j}
        inFlight == job[j].status \in InFlight
    IN
    /\ request[c].at = "cancel" /\ request[c].mark = None /\ j \in request[c].todo
    /\ request' = [request EXCEPT ![c].todo = todo,
          ![c].mark = IF inFlight THEN j ELSE None,
          ![c].at = IF ~inFlight /\ todo = {} THEN "read" ELSE "cancel"]
    /\ UNCHANGED <<tables, files, queue, worker, spent>>

MarkJob(c, at, status) ==
    /\ request[c].at = at /\ request[c].mark # None
    /\ SetJobStatus(request[c].mark, status)
    /\ request' = [request EXCEPT ![c].mark = None,
          ![c].at = IF request[c].todo = {} THEN "read" ELSE at]
    /\ UNCHANGED <<log, group, files, queue, worker, spent>>

CancelMark(c) == MarkJob(c, "cancel", "CANCELLED")

(* ... the group is recomputed, and becomes CANCELLED whatever that gave.   *)
CancelGroup(c) ==
    /\ request[c].at = "cancelled"
    /\ WriteGroup(request[c].group, "CANCELLED")
    /\ Respond(c)
    /\ UNCHANGED <<job, log, files, queue, worker, spent>>

(* POST /retry: a PARTIAL or FAILED group ...                               *)
RetryBegin(c) ==
    /\ request[c].at = "idle" /\ group \in {"PARTIAL", "FAILED"}
    /\ Spend("retry", MaxRetry)
    /\ request' = [request EXCEPT ![c].at = "retry", ![c].todo = Jobs]
    /\ UNCHANGED <<tables, files, queue, worker>>

(* ... each FAILED job loses its error in one transaction ...               *)
RetryClear(c, j) ==
    LET todo == request[c].todo \ {j}
        failed == job[j].status = "FAILED"
        ids == IF failed THEN request[c].ids \cup {j} ELSE request[c].ids
    IN
    /\ request[c].at = "retry" /\ request[c].mark = None /\ j \in request[c].todo
    /\ job' = IF ~failed THEN job
              ELSE [job EXCEPT ![j].error = None,
                       ![j].attempts = IF ResetAttempts THEN 0 ELSE @]
    /\ request' = [request EXCEPT ![c] =
          IF ids = {} /\ todo = {} THEN IdleRequest
          ELSE [@ EXCEPT !.todo = todo, !.ids = ids,
                   !.mark = IF failed THEN j ELSE None,
                   !.at = IF ~failed /\ todo = {} THEN "read" ELSE "retry"]]
    /\ UNCHANGED <<log, group, files, queue, worker, spent>>

(* ... and becomes RETRYING in the next, with no second test ...            *)
RetryMark(c) == MarkJob(c, "retry", "RETRYING")

(* ... and is enqueued once the group is recomputed; a broker that fails    *)
(* leaves the others RETRYING.                                              *)
RetryPublish(c, j) ==
    /\ request[c].at = "publish" /\ j \in request[c].ids
    /\ \/ /\ Publish(j, 0)
          /\ request' = [request EXCEPT ![c] =
                IF @.ids = {j} THEN IdleRequest
                ELSE [request[c] EXCEPT !.ids = @ \ {j}]]
          /\ UNCHANGED spent
       \/ /\ Spend("broker", MaxBrokerFail)
          /\ Respond(c)
          /\ UNCHANGED queue
    /\ UNCHANGED <<tables, files, worker>>

(* recompute_group_status by a request that cancels (no id) or retries.     *)
RequestRead(c) ==
    /\ request[c].at = "read"
    /\ request' = [request EXCEPT ![c].at = "write", ![c].group = group,
                                  ![c].agg = Aggregate]
    /\ UNCHANGED <<tables, files, queue, worker, spent>>

RequestWrite(c) ==
    /\ request[c].at = "write"
    /\ WriteGroup(request[c].group, request[c].agg)
    /\ request' = [request EXCEPT ![c].agg = None,
          ![c].group = IF request[c].ids = {} THEN group' ELSE None,
          ![c].at = IF request[c].ids = {} THEN "cancelled" ELSE "publish"]
    /\ UNCHANGED <<job, log, files, queue, worker, spent>>

HandlerStep(c) ==
    \/ \E j \in Jobs : \/ Enqueue(c, j) \/ Unqueue(c, j) \/ CancelTest(c, j)
                       \/ RetryClear(c, j) \/ RetryPublish(c, j)
    \/ Ungroup(c) \/ CancelMark(c) \/ CancelGroup(c) \/ RetryMark(c)
    \/ RequestRead(c) \/ RequestWrite(c)

-----------------------------------------------------------------------------
(* The workers                                                             *)

Goto(w, stage) == worker' = [worker EXCEPT ![w].at = stage]

(* The task function returned or raised.  The message is acknowledged late, *)
(* by a step of its own.                                                    *)
Finish(w) ==
    worker' = [worker EXCEPT ![w] = [IdleWorker EXCEPT
                  !.at = "ack", !.job = worker[w].job, !.retries = worker[w].retries]]
Leave(w) == worker' = [worker EXCEPT ![w] = IdleWorker]

(* Mutant: the failure leaves the attempt open.                             *)
FailOpen(w, bucket) ==
    /\ SetFailed(worker[w].job, bucket)
    /\ worker' = [worker EXCEPT ![w].at = "read", ![w].pod = 0, ![w].failed = TRUE]

(* Mutant: the failure reaches the attempt and not the job.                 *)
FailQuiet(w, bucket) ==
    /\ worker' = [worker EXCEPT ![w].at = "failed", ![w].pod = 0, ![w].failed = TRUE]
    /\ UNCHANGED job

(* An exception in the try: _record_failure begins with the job.            *)
Fail(w, bucket) ==
    /\ SetFailed(worker[w].job, bucket)
    /\ worker' = [worker EXCEPT ![w].at = "failed", ![w].pod = 0, ![w].failed = TRUE]

(* Mutant: a message is run whatever the status of its job.                 *)
ReceiveAlways(w, j, n) ==
    /\ worker[w].at = "idle" /\ queue[<<j, n>>] > 0
    /\ queue' = [queue EXCEPT ![<<j, n>>] = @ - 1]
    /\ worker' = [worker EXCEPT ![w] = [IdleWorker EXCEPT
                     !.at = "attempt", !.job = j, !.retries = n,
                     !.num = job[j].attempts + 1]]
    /\ UNCHANGED <<tables, files, request, spent>>

(* Take a message; the stamp of the task id commits and reloads the job,    *)
(* and run_job leaves one that has ended well alone.                        *)
Receive(w, j, n) ==
    /\ worker[w].at = "idle" /\ queue[<<j, n>>] > 0
    /\ queue' = [queue EXCEPT ![<<j, n>>] = @ - 1]
    /\ worker' = IF job[j].status \in {"READY", "CANCELLED"} THEN worker
                 ELSE [worker EXCEPT ![w] = [IdleWorker EXCEPT
                          !.at = "attempt", !.job = j, !.retries = n,
                          !.num = job[j].attempts + 1]]
    /\ UNCHANGED <<tables, files, request, spent>>

(* create_attempt: a number that exists is an IntegrityError, and the       *)
(* message is rejected.                                                     *)
CreateAttempt(w) ==
    LET j == worker[w].job IN
    /\ worker[w].at = "attempt"
    /\ IF worker[w].num <= Len(log[j])
       THEN Finish(w) /\ UNCHANGED log
       ELSE /\ log' = [log EXCEPT ![j] = Append(@, "RETRYING")]
            /\ Goto(w, "count")
    /\ UNCHANGED <<job, group, files, queue, request, spent>>

(* The counter of the job is a transaction of its own.                      *)
CountAttempt(w) ==
    /\ worker[w].at = "count"
    /\ job' = [job EXCEPT ![worker[w].job].attempts = worker[w].num]
    /\ Goto(w, "stage")
    /\ UNCHANGED <<log, group, files, queue, request, spent>>

(* set_job_status of the next stage.                                        *)
SetStage(w, at, status, next) ==
    /\ worker[w].at = at
    /\ SetJobStatus(worker[w].job, status)
    /\ Goto(w, next)
    /\ UNCHANGED <<log, group, files, queue, request, spent>>

Stage(w) == SetStage(w, "stage", "STAGING", "group")

StageGroup(w) ==
    /\ worker[w].at = "group"
    /\ group' = "IN_PROGRESS"
    /\ Goto(w, "pull")
    /\ UNCHANGED <<job, log, files, queue, request, spent>>

(* pull_disk reports its progress through set_job_status: the first report  *)
(* after a cancel loads it, the next one overwrites it ...                  *)
Progress(w) == SetStage(w, "pull", "STAGING", "pull")

(* ... until the staged file is complete, or an error of either kind.       *)
PullDisk(w) ==
    /\ worker[w].at = "pull"
    /\ \/ Goto(w, "convert") /\ UNCHANGED job
       \/ \E b \in Bucket : Fail(w, b)
    /\ UNCHANGED <<log, group, files, queue, request, spent>>

Convert(w) == SetStage(w, "convert", "CONVERTING", "submit")

(* The cluster Job is named after the group, the disk and the attempt; it   *)
(* starts to write the output file.  The cluster refuses a name that exists,*)
(* and may refuse any Job.                                                  *)
SubmitPod(w) ==
    LET j == worker[w].job
        pod == [job |-> j, num |-> job[j].attempts, state |-> "running"]
    IN
    /\ worker[w].at = "submit" /\ j \notin Passthrough
    /\ \/ /\ \A p \in pods : p.job # j \/ p.num # pod.num
          /\ pods' = pods \cup {pod}
          /\ output' = [output EXCEPT ![j] = "partial"]
          /\ worker' = [worker EXCEPT ![w].at = "wait", ![w].pod = pod.num]
          /\ UNCHANGED job
       \/ Fail(w, "permanent") /\ UNCHANGED files
    /\ UNCHANGED <<log, group, queue, request, spent>>

(* _passthrough: the worker copies the staged file itself.                  *)
CopyStaged(w) ==
    LET j == worker[w].job IN
    /\ worker[w].at = "submit" /\ j \in Passthrough
    /\ \/ output' = [output EXCEPT ![j] = "whole"] /\ Goto(w, "verify")
          /\ UNCHANGED job
       \/ output' = [output EXCEPT ![j] = "none"] /\ Fail(w, "permanent")
    /\ UNCHANGED <<log, group, pods, queue, request, spent>>

(* The cluster Job ends.  Two of them spoil the file they both write.       *)
PodEnds(p) ==
    /\ p.state = "running"
    /\ \E state \in {"succeeded", "failed"} :
         /\ pods' = (pods \ {p}) \cup {[p EXCEPT !.state = state]}
         /\ output' = IF /\ state = "succeeded"
                         /\ \A q \in pods \ {p} : q.job = p.job => q.state # "running"
                      THEN [output EXCEPT ![p.job] = "whole"] ELSE output
    /\ UNCHANGED <<tables, queue, worker, request, spent>>

(* The cluster Job of the worker is deleted whatever its outcome; a         *)
(* deletion that is refused is only logged.                                 *)
DeletePod(w) ==
    LET mine == {p \in pods : p.job = worker[w].job /\ p.num = worker[w].pod} IN
    \/ pods' = pods \ mine /\ UNCHANGED spent
    \/ mine # {} /\ Spend("undeleted", MaxUndeleted) /\ UNCHANGED pods

LeavePod(w) == worker' = [worker EXCEPT ![w].at = "verify", ![w].pod = 0]

(* Mutant: the outcome of the Job is not looked at.                         *)
WaitPodAny(w) ==
    /\ worker[w].at = "wait"
    /\ LeavePod(w) /\ UNCHANGED job
    /\ DeletePod(w)
    /\ UNCHANGED <<log, group, output, queue, request>>

(* wait_for_completion: success, failure, the client's own deadline, or a   *)
(* Job that is gone.                                                        *)
WaitPod(w) ==
    LET states == {p.state : p \in {q \in pods : /\ q.job = worker[w].job
                                                 /\ q.num = worker[w].pod}}
    IN
    /\ worker[w].at = "wait"
    /\ \/ "succeeded" \in states /\ LeavePod(w) /\ UNCHANGED job
       \/ "failed" \in states /\ \E b \in Bucket : Fail(w, b)
       \/ states \in {{}, {"running"}} /\ Fail(w, "permanent")
    /\ DeletePod(w)
    /\ UNCHANGED <<log, group, output, queue, request>>

SetVerifying(w) == SetStage(w, "verify", "VERIFYING", "ready")

(* _verify: the size of the file may or may not give a partial one away.    *)
Verify(w) ==
    LET j == worker[w].job IN
    /\ worker[w].at = "ready"
    /\ \/ /\ output[j] \in {"partial", "whole"}
          /\ SetJobStatus(j, "READY")
          /\ Goto(w, "close")
       \/ output[j] # "whole" /\ Fail(w, "permanent")
    /\ UNCHANGED <<log, group, files, queue, request, spent>>

(* finalize_attempt *)
CloseAttempt(w, at, final, next) ==
    /\ worker[w].at = at
    /\ log' = [log EXCEPT ![worker[w].job][worker[w].num] = final]
    /\ worker' = [worker EXCEPT ![w].at = next, ![w].num = 0]
    /\ UNCHANGED <<job, group, files, queue, request, spent>>

(* Mutant: a job that succeeded leaves the group alone.                     *)
CloseReadyOnly(w) == CloseAttempt(w, "close", "READY", "ack")

CloseReady(w) == CloseAttempt(w, "close", "READY", "read")

(* ... then closes the attempt.                                             *)
CloseFailed(w) == CloseAttempt(w, "failed", "FAILED", "read")

(* recompute_group_status: read the group and the jobs ...                  *)
ReadGroup(w) ==
    /\ worker[w].at = "read"
    /\ worker' = [worker EXCEPT ![w].at = "write", ![w].group = group,
                                ![w].agg = Aggregate]
    /\ UNCHANGED <<tables, files, queue, request, spent>>

(* ... then write the aggregate.  A job that succeeded is done.             *)
WriteAggregate(w) ==
    /\ worker[w].at = "write"
    /\ WriteGroup(worker[w].group, worker[w].agg)
    /\ IF ~worker[w].failed THEN Finish(w)
       ELSE worker' = [worker EXCEPT ![w].at = "decide", ![w].failed = FALSE,
                                     ![w].group = None, ![w].agg = None]
    /\ UNCHANGED <<job, log, files, queue, request, spent>>

(* The task reads the error of the job again: a transient one is retried    *)
(* while the task has retries left.                                         *)
DecideRetry(w) ==
    LET j == worker[w].job IN
    /\ worker[w].at = "decide"
    /\ IF job[j].error = "transient" /\ worker[w].retries < MaxRetries
       THEN SetJobStatus(j, "RETRYING") /\ Goto(w, "publish")
       ELSE Finish(w) /\ UNCHANGED job
    /\ UNCHANGED <<log, group, files, queue, request, spent>>

(* Mutant: the task is published again and its own message kept.            *)
PublishRetryTwice(w) ==
    LET j == worker[w].job
        n == worker[w].retries
    IN
    /\ worker[w].at = "publish"
    /\ queue' = [queue EXCEPT ![<<j, n + 1>>] = @ + 1, ![<<j, n>>] = @ + 1]
    /\ Finish(w)
    /\ UNCHANGED <<tables, files, request, spent>>

(* self.retry publishes the next try; if it cannot, the message is rejected.*)
(* Its own message is still there until the worker acknowledges it.         *)
PublishRetry(w) ==
    /\ worker[w].at = "publish"
    /\ \/ Publish(worker[w].job, worker[w].retries + 1) /\ UNCHANGED spent
       \/ Spend("broker", MaxBrokerFail) /\ UNCHANGED queue
    /\ Finish(w)
    /\ UNCHANGED <<tables, files, request>>

(* The message leaves the broker, acknowledged or rejected.                 *)
Ack(w) ==
    /\ worker[w].at = "ack" /\ Leave(w)
    /\ UNCHANGED <<tables, files, queue, request, spent>>

WorkerStep(w) ==
    \/ CreateAttempt(w) \/ CountAttempt(w) \/ Stage(w) \/ StageGroup(w)
    \/ PullDisk(w) \/ Convert(w) \/ SubmitPod(w) \/ CopyStaged(w) \/ WaitPod(w)
    \/ SetVerifying(w) \/ Verify(w) \/ CloseReady(w) \/ CloseFailed(w)
    \/ ReadGroup(w) \/ WriteAggregate(w) \/ DecideRetry(w) \/ PublishRetry(w)
    \/ Ack(w)

(* SoftTimeLimitExceeded: within the try it is an error like any other      *)
(* (and a cluster Job is deleted), else in run_job the task records a       *)
(* timeout, and outside of run_job the task just ends.                      *)
TimeLimit(w) ==
    /\ worker[w].at \notin {"idle", "ack"} /\ Spend("limit", MaxTimeLimit)
    /\ \/ /\ worker[w].at \in Guarded
          /\ pods' = IF worker[w].at # "wait" THEN pods
                     ELSE {p \in pods : p.job # worker[w].job \/ p.num # worker[w].pod}
          /\ Fail(w, "permanent")
       \/ /\ worker[w].at \in Stages \ (Guarded \cup {"decide", "publish", "ack"})
          /\ SetFailed(worker[w].job, "permanent")
          /\ Finish(w)
          /\ UNCHANGED pods
       \/ /\ worker[w].at \in {"decide", "publish"}
          /\ Finish(w)
          /\ UNCHANGED <<job, pods>>
    /\ UNCHANGED <<log, group, output, queue, request>>

(* The process dies and the message returns to the broker, also when the    *)
(* task was done and its retry published; its cluster Job goes on.          *)
Crash(w) ==
    /\ \/ worker[w].at \notin {"idle", "ack"} /\ Spend("crash", MaxCrash)
       \/ worker[w].at = "ack" /\ Spend("unacked", MaxUnacked)
    /\ Publish(worker[w].job, worker[w].retries)
    /\ Leave(w)
    /\ UNCHANGED <<tables, files, request>>

(* The task outlives the visibility timeout of its message.                 *)
Redeliver(w) ==
    /\ worker[w].at # "idle" /\ Spend("redeliver", MaxRedeliver)
    /\ Publish(worker[w].job, worker[w].retries)
    /\ UNCHANGED <<tables, files, worker, request>>

Idle ==
    /\ \A w \in Workers : worker[w].at = "idle"
    /\ \A c \in Clients : request[c].at = "idle"
    /\ \A msg \in Messages : queue[msg] = 0

(* Nothing is left to do: the module stops here, the platform does not.     *)
Rest == Idle /\ UNCHANGED vars

Next ==
    \/ \E c \in Clients : HandlerStep(c) \/ CancelBegin(c) \/ RetryBegin(c)
    \/ \E w \in Workers : \/ \E msg \in Messages : Receive(w, msg[1], msg[2])
                          \/ WorkerStep(w) \/ Progress(w)
                          \/ TimeLimit(w) \/ Crash(w) \/ Redeliver(w)
    \/ \E p \in pods : PodEnds(p)
    \/ Rest

Spec == Init /\ [][Next]_vars

(* A request that runs and a worker go on: a pull, a cluster Job and the    *)
(* wait for it all have a deadline.                                         *)
Fairness ==
    /\ \A c \in Clients : WF_vars(HandlerStep(c))
    /\ \A w \in Workers : WF_vars(WorkerStep(w))
    /\ \A w \in Workers : WF_vars(\E msg \in Messages : Receive(w, msg[1], msg[2]))

FairSpec == Spec /\ Fairness

-----------------------------------------------------------------------------
(* SAFETY                                                                  *)

(* The workers within a task of the job.                                    *)
Busy(j) == {w \in Workers : worker[w].job = j /\ worker[w].at # "ack"}

(* Messages of a job in the broker, whatever their try.                     *)
Copies(j) == UNION {{n} \X (1..queue[<<j, n>>]) : n \in 0..MaxRetries}
Waiting(j) == Cardinality(Copies(j))

(* The deliveries of a job are accounted for: a message in the broker or a *)
(* worker within the task for each, and no more than the first publish,    *)
(* the retries a client asked for, the broker's redeliveries and the       *)
(* workers that died with a message they had not acknowledged yet.         *)
(* Without the last three no two workers convert one disk, whatever dies   *)
(* within a task and is retried.                                           *)
OneConverterPerJob ==
    \A j \in Jobs :
        Cardinality(Busy(j)) + Waiting(j)
            <= 1 + spent["retry"] + spent["redeliver"] + spent["unacked"]

(* An attempt that is still provisional belongs to a worker at work on it, *)
(* or to one that died or ran out of time.                                 *)
OpenAttemptsHaveOwners ==
    \A j \in Jobs :
        Cardinality({n \in DOMAIN log[j] : log[j][n] = "RETRYING"})
            <= Cardinality(Busy(j)) + spent["crash"] + spent["limit"]

(* The variables have their types, and the rows of the attempts agree with *)
(* the workers: none is provisional that nobody answers for.               *)
AttemptsConsistent == TypeOK /\ OpenAttemptsHaveOwners

(* A job that is READY has its whole output, and nobody writes to it.      *)
ReadyHasOutput ==
    \A j \in Jobs : job[j].status = "READY" =>
        /\ output[j] = "whole"
        /\ \A p \in pods : p.job = j => p.state # "running"

(* When nobody works on the group any more, its status is the aggregate of *)
(* its jobs, or what a cancel made of it.                                  *)
Settled == Idle => group \in {Aggregate, "CANCELLED"}

(* A job that nobody works on any more has ended: a client's retry puts    *)
(* jobs back to work one by one and then publishes them one by one.        *)
NothingIsStranded == Idle => \A j \in Jobs : job[j].status \notin InFlight

(* ACTION PROPERTIES                                                       *)

(* A job that is CANCELLED while no worker is on it is over: no message    *)
(* that is still in the broker, no retry and no crash brings it back.      *)
CancelledJobStays ==
    [][\A j \in Jobs : job[j].status = "CANCELLED" /\ Busy(j) = {}
          => job'[j].status = "CANCELLED" /\ Busy(j)' = {}]_vars

(* REFINEMENT                                                              *)

(* The group moves as the orchestrator that waits for it expects.          *)
Life == INSTANCE GroupLife WITH status <- group
GroupLives == Life!Spec

(* LIVENESS                                                                *)

(* A job with a message is worked on until it ends.                        *)
EnqueuedJobsEnd ==
    \A j \in Jobs :
        Waiting(j) > 0 ~> job[j].status \in ConversionStatus \ InFlight

=============================================================================
