----------------------------- MODULE TaskQueue -----------------------------
(***************************************************************************)
(* The task queue of the control plane: the rows of the `tasks` table, the *)
(* dispatcher that claims them and launches one Kubernetes Job per task,   *)
(* the reaper that reconciles expired leases against Job liveness, the     *)
(* cancellations, and the runner pods that report their status back.       *)
(*                                                                         *)
(* Every SQL statement is one atomic step; every Kubernetes call is one    *)
(* atomic step; between two of them any other process may move.  The       *)
(* dispatcher (which hosts the reaper) is sequential, so it has a program  *)
(* counter; a replica is one member of Dispatchers.                        *)
(*                                                                         *)
(* Left out here: run_after (a queued row is claimed at any later time,    *)
(* which covers every delay) and the outbox rows the same handlers write.  *)
(***************************************************************************)
EXTENDS Naturals

CONSTANTS
    Tasks,          \* the task rows that may be created
    IndexTasks,     \* those whose command_text is 'index'
    Repos,          \* repositories
    RepoOf,         \* the repository of each task
    Dispatchers,    \* dispatcher replicas (one in production)
    MaxAttempts,    \* reaper::MAX_ATTEMPTS
    BackoffLimit,   \* spec.backoffLimit of the Job manifest
    ClaimBound,     \* model bound: no task is claimed more often than this
    Faults,         \* which failures the environment may inject
    NoTask          \* "no task in hand"

AllFaults == {"crash", "db_error", "launch_error", "api_error", "pod_death",
              "lost_report", "release_failure", "cancel"}

ASSUME TasksAssumption ==
    /\ IndexTasks \subseteq Tasks
    /\ RepoOf \in [Tasks -> Repos]
ASSUME BoundsAssumption ==
    /\ MaxAttempts \in Nat \ {0}
    /\ BackoffLimit \in Nat
    /\ ClaimBound \in Nat
ASSUME FaultsAssumption == Faults \subseteq AllFaults

(***************************************************************************)
(* Statuses of a row.  "absent" is a row that has not been inserted.       *)
(* posting_result and timed_out are accepted by the code everywhere, but   *)
(* no component of this repository reports them.                           *)
(***************************************************************************)
Active   == {"running", "posting_result"}
Terminal == {"succeeded", "failed", "timed_out", "cancelled"}
Status   == {"absent", "waiting_for_index", "queued"} \cup Active \cup Terminal

\* lease_expires_at: NULL, in the future, in the past.
Lease == {"none", "held", "expired"}

\* The Kubernetes Job named after the task, and the runner pod it has now:
\* about to report `running`, working, or about to report its outcome.
JobState == {"none", "active", "complete", "failed"}
PodState == {"none", "starting", "working", "rep_succ", "rep_fail"}
Report   == {"running", "succeeded", "failed"}

\* db::ReapableTask: what the reaper read of a row, and keeps using.
ReapableTask == [id : Tasks, job : BOOLEAN, attempts : Nat]

\* Where a dispatcher is: draining the queue (drain, launch, record,
\* release), waiting, reconciling candidates (reap .. fail), and sweeping
\* the Jobs of cancelled tasks (sweep, clear).
PC == {"drain", "launch", "record", "release", "wait",
       "reap", "renew", "settle", "delete_requeue", "requeue",
       "delete_fail", "fail", "sweep", "clear"}

VARIABLES
    status,         \* tasks.status
    lease,          \* tasks.lease_expires_at
    attempts,       \* tasks.attempts
    jobName,        \* tasks.job_name IS NOT NULL
    unreleased,     \* index tasks committed terminal, waiters not released yet
    job,            \* the Job object
    fails,          \* failed pods of the Job object
    pod,            \* the Job's current pod
    late,           \* reports of pods that are gone and may still land
    pc, cur, todo   \* per dispatcher: position, task in hand, rows listed

rowVars  == <<status, lease, attempts, jobName, unreleased>>
k8sVars  == <<job, fails, pod, late>>
dispVars == <<pc, cur, todo>>
vars     == <<rowVars, k8sVars, dispVars>>

TypeOK ==
    /\ status \in [Tasks -> Status]
    /\ lease \in [Tasks -> Lease]
    /\ attempts \in [Tasks -> Nat]
    /\ jobName \in [Tasks -> BOOLEAN]
    /\ unreleased \in SUBSET IndexTasks
    /\ job \in [Tasks -> JobState]
    /\ fails \in [Tasks -> Nat]
    /\ pod \in [Tasks -> PodState]
    /\ late \in [Tasks -> SUBSET Report]
    /\ pc \in [Dispatchers -> PC]
    /\ cur \in [Dispatchers -> ReapableTask \cup {NoTask}]
    /\ todo \in [Dispatchers -> SUBSET ReapableTask]

Init ==
    /\ status = [t \in Tasks |-> "absent"]
    /\ lease = [t \in Tasks |-> "none"]
    /\ attempts = [t \in Tasks |-> 0]
    /\ jobName = [t \in Tasks |-> FALSE]
    /\ unreleased = {}
    /\ job = [t \in Tasks |-> "none"]
    /\ fails = [t \in Tasks |-> 0]
    /\ pod = [t \in Tasks |-> "none"]
    /\ late = [t \in Tasks |-> {}]
    /\ pc = [d \in Dispatchers |-> "drain"]
    /\ cur = [d \in Dispatchers |-> NoTask]
    /\ todo = [d \in Dispatchers |-> {}]

-----------------------------------------------------------------------------
(* Row statements shared by the actions (db/tasks.rs).                     *)

\* Wrong variant: waiters are released only when the index succeeded.
set_task_status_releasing_on_success(t, s) ==
    /\ status' = [status EXCEPT ![t] = s]
    /\ lease' = [lease EXCEPT ![t] = IF s \in Terminal THEN "none" ELSE @]
    /\ unreleased' = IF s = "succeeded" /\ t \in IndexTasks
                     THEN unreleased \cup {t} ELSE unreleased
    /\ UNCHANGED <<attempts, jobName>>

\* The unguarded status write, with the hand-over to the release step.
set_task_status(t, s) ==
    /\ status' = [status EXCEPT ![t] = s]
    /\ lease' = [lease EXCEPT ![t] = IF s \in Terminal THEN "none" ELSE @]
    /\ unreleased' = IF s \in Terminal /\ t \in IndexTasks
                     THEN unreleased \cup {t} ELSE unreleased
    /\ UNCHANGED <<attempts, jobName>>

\* Wrong variants: job_name survives the requeue; a row is requeued
\* whatever has become of it.
release_task_keeping_job_name(t) ==
    IF status[t] \in Active
    THEN /\ status' = [status EXCEPT ![t] = "queued"]
         /\ lease' = [lease EXCEPT ![t] = "none"]
         /\ UNCHANGED <<attempts, jobName, unreleased>>
    ELSE UNCHANGED rowVars
release_task_unguarded(t) ==
    /\ status' = [status EXCEPT ![t] = "queued"]
    /\ lease' = [lease EXCEPT ![t] = "none"]
    /\ jobName' = [jobName EXCEPT ![t] = FALSE]
    /\ UNCHANGED <<attempts, unreleased>>

\* Back to the queue, if the row is still active.
release_task(t) ==
    IF status[t] \in Active
    THEN /\ status' = [status EXCEPT ![t] = "queued"]
         /\ lease' = [lease EXCEPT ![t] = "none"]
         /\ jobName' = [jobName EXCEPT ![t] = FALSE]
         /\ UNCHANGED <<attempts, unreleased>>
    ELSE UNCHANGED rowVars

renew_lease(t) ==
    /\ lease' = [lease EXCEPT ![t] = IF status[t] \in Active THEN "held" ELSE @]
    /\ UNCHANGED <<status, attempts, jobName, unreleased>>

\* The rows S become cancelled: lease cleared, job_name kept, and no release
\* of waiting reviews.
cancel(S) ==
    /\ status' = [t \in Tasks |-> IF t \in S THEN "cancelled" ELSE status[t]]
    /\ lease' = [t \in Tasks |-> IF t \in S THEN "none" ELSE lease[t]]
    /\ UNCHANGED <<attempts, jobName, unreleased>>

-----------------------------------------------------------------------------
(* The serve role: creation, cancellation, release of waiting reviews.     *)

\* The index tasks of a repository that a new review must wait for, and the
\* narrower set a new index task is deduplicated against.
IndexInFlight(r) ==
    {i \in IndexTasks : RepoOf[i] = r /\
        status[i] \in {"queued", "running", "posting_result", "waiting_for_index"}}
IndexActive(r) ==
    {i \in IndexTasks : RepoOf[i] = r /\
        status[i] \in {"queued", "running", "posting_result"}}

create_task(t) ==
    /\ t \notin IndexTasks
    /\ status[t] = "absent"
    /\ status' = [status EXCEPT ![t] =
          IF IndexInFlight(RepoOf[t]) # {} THEN "waiting_for_index" ELSE "queued"]
    /\ UNCHANGED <<lease, attempts, jobName, unreleased, k8sVars, dispVars>>

create_index_task(t) ==
    /\ t \in IndexTasks
    /\ status[t] = "absent"
    /\ IndexActive(RepoOf[t]) = {}
    /\ status' = [status EXCEPT ![t] = "queued"]
    /\ UNCHANGED <<lease, attempts, jobName, unreleased, k8sVars, dispVars>>

cancel_task_by_id(t) ==
    /\ "cancel" \in Faults
    /\ status[t] \in {"waiting_for_index", "queued"} \cup Active
    /\ cancel({t})
    /\ UNCHANGED <<k8sVars, dispVars>>

\* Repository removed or denied.  waiting_for_index is not in the guard.
cancel_active_tasks_for_repo(r) ==
    /\ "cancel" \in Faults
    /\ cancel({t \in Tasks : RepoOf[t] = r /\ status[t] \in {"queued"} \cup Active})
    /\ UNCHANGED <<k8sVars, dispVars>>

\* Runs after the terminal status has been committed, in its own statement.
release_reviews_waiting_on_index(i) ==
    /\ i \in unreleased
    /\ unreleased' = unreleased \ {i}
    /\ status' = [t \in Tasks |->
          IF RepoOf[t] = RepoOf[i] /\ status[t] = "waiting_for_index"
          THEN "queued" ELSE status[t]]
    /\ UNCHANGED <<lease, attempts, jobName, k8sVars, dispVars>>

\* The release failed and was logged, or the process died before it.
ReleaseFails(i) ==
    /\ "release_failure" \in Faults
    /\ i \in unreleased
    /\ unreleased' = unreleased \ {i}
    /\ UNCHANGED <<status, lease, attempts, jobName, k8sVars, dispVars>>

-----------------------------------------------------------------------------
(* Kubernetes (external): the Job object and its pods.                     *)

\* The report a pod has on the wire when it is killed.
InFlight(p) == {s \in Report : \/ p = "starting" /\ s = "running"
                               \/ p = "rep_succ" /\ s = "succeeded"
                               \/ p = "rep_fail" /\ s = "failed"}

\* A pod ended with a non-zero exit code: another one is started until more
\* than backoffLimit of them have failed.
PodFails(t) ==
    /\ pod' = [pod EXCEPT ![t] = "none"]
    /\ fails' = [fails EXCEPT ![t] = @ + 1]
    /\ job' = [job EXCEPT ![t] = IF fails[t] + 1 > BackoffLimit THEN "failed" ELSE @]

StartPod(t) ==
    /\ job[t] = "active"
    /\ pod[t] = "none"
    /\ pod' = [pod EXCEPT ![t] = "starting"]
    /\ UNCHANGED <<job, fails, late, rowVars, dispVars>>

\* OOM kill, node eviction, crash.
PodDies(t) ==
    /\ "pod_death" \in Faults
    /\ pod[t] # "none"
    /\ late' = [late EXCEPT ![t] = @ \cup InFlight(pod[t])]
    /\ PodFails(t)
    /\ UNCHANGED <<rowVars, dispVars>>

\* activeDeadlineSeconds: the Job fails whatever backoffLimit says.
DeadlineExceeded(t) ==
    /\ "pod_death" \in Faults
    /\ job[t] = "active"
    /\ job' = [job EXCEPT ![t] = "failed"]
    /\ late' = [late EXCEPT ![t] = @ \cup InFlight(pod[t])]
    /\ pod' = [pod EXCEPT ![t] = "none"]
    /\ UNCHANGED <<fails, rowVars, dispVars>>

\* ttlSecondsAfterFinished.
JobExpires(t) ==
    /\ job[t] \in {"complete", "failed"}
    /\ job' = [job EXCEPT ![t] = "none"]
    /\ fails' = [fails EXCEPT ![t] = 0]
    /\ UNCHANGED <<pod, late, rowVars, dispVars>>

\* Background deletion: the pod is terminated, what it has sent may land.
delete_job(t) ==
    /\ job' = [job EXCEPT ![t] = "none"]
    /\ fails' = [fails EXCEPT ![t] = 0]
    /\ late' = [late EXCEPT ![t] = @ \cup InFlight(pod[t])]
    /\ pod' = [pod EXCEPT ![t] = "none"]

\* Create the Job, or adopt the one that exists (409).
launch(t) ==
    /\ job' = [job EXCEPT ![t] = IF @ = "none" THEN "active" ELSE @]
    /\ UNCHANGED <<fails, pod, late>>

job_liveness(r) ==
    IF ~r.job \/ job[r.id] = "none" THEN "Gone"
    ELSE IF job[r.id] = "complete" THEN "Succeeded"
    ELSE IF job[r.id] = "failed" THEN "Failed" ELSE "Active"

-----------------------------------------------------------------------------
(* The runner (agent-runner/src/run.rs) and the status endpoint.           *)

\* The request lands and set_status applies it, or it never arrives.
report(t, s) == \/ set_task_status(t, s)
                \/ "lost_report" \in Faults /\ UNCHANGED rowVars

\* The first thing a pod does, whatever the row says.
ReportRunning(t) ==
    /\ pod[t] = "starting"
    /\ report(t, "running")
    /\ pod' = [pod EXCEPT ![t] = "working"]
    /\ UNCHANGED <<job, fails, late, dispVars>>

\* run() returns Ok or Err; a bad configuration fails before `running`.
run(t) ==
    /\ \/ pod[t] = "working" /\ \E p \in {"rep_succ", "rep_fail"} :
                                   pod' = [pod EXCEPT ![t] = p]
       \/ pod[t] = "starting" /\ pod' = [pod EXCEPT ![t] = "rep_fail"]
    /\ UNCHANGED <<job, fails, late, rowVars, dispVars>>

ReportSucceeded(t) ==
    /\ pod[t] = "rep_succ"
    /\ report(t, "succeeded")
    /\ pod' = [pod EXCEPT ![t] = "none"]
    /\ job' = [job EXCEPT ![t] = "complete"]
    /\ UNCHANGED <<fails, late, dispVars>>

ReportFailed(t) ==
    /\ pod[t] = "rep_fail"
    /\ report(t, "failed")
    /\ PodFails(t)
    /\ UNCHANGED <<late, dispVars>>

\* The self-cancel poll saw a terminal status: exit 143 without a report.
cancelled_upstream(t) ==
    /\ pod[t] = "working"
    /\ status[t] \in Terminal
    /\ PodFails(t)
    /\ UNCHANGED <<late, rowVars, dispVars>>

\* A request of a pod that is gone reaches the server after all, or not.
LateReportLands(t, s) ==
    /\ s \in late[t]
    /\ late' = [late EXCEPT ![t] = @ \ {s}]
    /\ set_task_status(t, s)
    /\ UNCHANGED <<job, fails, pod, dispVars>>

LateReportDropped(t, s) ==
    /\ s \in late[t]
    /\ late' = [late EXCEPT ![t] = @ \ {s}]
    /\ UNCHANGED <<job, fails, pod, rowVars, dispVars>>

\* The clock passes lease_expires_at.
LeaseExpires(t) ==
    /\ lease[t] = "held"
    /\ lease' = [lease EXCEPT ![t] = "expired"]
    /\ UNCHANGED <<status, attempts, jobName, unreleased, k8sVars, dispVars>>

RunnerStep(t) == \/ StartPod(t)
                 \/ ReportRunning(t)
                 \/ run(t)
                 \/ ReportSucceeded(t)
                 \/ ReportFailed(t)
                 \/ cancelled_upstream(t)

Runner(t) == \/ RunnerStep(t)
             \/ PodDies(t)
             \/ DeadlineExceeded(t)
             \/ JobExpires(t)
             \/ LeaseExpires(t)
             \/ \E s \in Report : LateReportLands(t, s) \/ LateReportDropped(t, s)

-----------------------------------------------------------------------------
(* The dispatcher: drain, then wait, then perhaps reap (queue/*.rs).       *)

Goto(d, l) == pc' = [pc EXCEPT ![d] = l]
Keep(d, r) == cur' = [cur EXCEPT ![d] = r]

\* A row as db::ReapableTask reads it.
Listed(t) == [id |-> t, job |-> jobName[t], attempts |-> attempts[t]]

Claimable == {t \in Tasks : status[t] = "queued" /\ attempts[t] < ClaimBound}

claim_next_task(d, t) ==
    /\ pc[d] = "drain"
    /\ t \in Claimable
    /\ status' = [status EXCEPT ![t] = "running"]
    /\ attempts' = [attempts EXCEPT ![t] = @ + 1]
    /\ lease' = [lease EXCEPT ![t] = "held"]
    /\ Goto(d, "launch")
    /\ Keep(d, Listed(t))
    /\ UNCHANGED <<jobName, unreleased, k8sVars, todo>>

\* Nothing due: drain returns.
DrainReturns(d) ==
    /\ pc[d] = "drain"
    /\ Claimable = {}
    /\ Goto(d, "wait")
    /\ UNCHANGED <<rowVars, k8sVars, cur, todo>>

\* The claim failed: drain returns as well.
ClaimError(d) ==
    /\ pc[d] = "drain"
    /\ "db_error" \in Faults
    /\ Goto(d, "wait")
    /\ UNCHANGED <<rowVars, k8sVars, cur, todo>>

LaunchSucceeds(d) ==
    /\ pc[d] = "launch"
    /\ launch(cur[d].id)
    /\ Goto(d, "record")
    /\ UNCHANGED <<rowVars, cur, todo>>

\* The create failed, possibly after the API server had accepted it.
LaunchFails(d) ==
    /\ pc[d] = "launch"
    /\ "launch_error" \in Faults
    /\ launch(cur[d].id) \/ UNCHANGED k8sVars
    /\ Goto(d, "release")
    /\ UNCHANGED <<rowVars, cur, todo>>

\* job_name is written whatever the status of the row is by now.
set_task_job(d) ==
    /\ pc[d] = "record"
    /\ jobName' = [jobName EXCEPT ![cur[d].id] = TRUE]
    /\ Goto(d, "drain")
    /\ Keep(d, NoTask)
    /\ UNCHANGED <<status, lease, attempts, unreleased, k8sVars, todo>>

RequeueUnlaunched(d) ==
    /\ pc[d] = "release"
    /\ release_task(cur[d].id)
    /\ Goto(d, "drain")
    /\ Keep(d, NoTask)
    /\ UNCHANGED <<k8sVars, todo>>

\* The wait ends with a notification or the poll interval.
Wake(d) ==
    /\ pc[d] = "wait"
    /\ Goto(d, "drain")
    /\ UNCHANGED <<rowVars, k8sVars, cur, todo>>

\* The wait ends with the reap tick.  With no candidate reap_once returns,
\* before it looks at the Jobs of cancelled tasks.
list_reapable_tasks(d) ==
    /\ pc[d] = "wait"
    /\ LET found == {t \in Tasks : status[t] \in Active /\ lease[t] = "expired"}
       IN  /\ todo' = [todo EXCEPT ![d] = {Listed(t) : t \in found}]
           /\ Goto(d, IF found = {} THEN "drain" ELSE "reap")
    /\ UNCHANGED <<rowVars, k8sVars, cur>>

\* Wrong variants: a live Job is judged dead; a vanished Job is judged alive;
\* one attempt too many.
decide_ignoring_active(liveness, tries) ==
    IF liveness = "Succeeded" THEN "settle"
    ELSE IF tries < MaxAttempts THEN "delete_requeue" ELSE "delete_fail"
decide_renewing_gone(liveness, tries) ==
    IF liveness \in {"Active", "Gone"} THEN "renew"
    ELSE IF liveness = "Succeeded" THEN "settle"
    ELSE IF tries < MaxAttempts THEN "delete_requeue" ELSE "delete_fail"

decide_once_more(liveness, tries) ==
    IF liveness = "Active" THEN "renew"
    ELSE IF liveness = "Succeeded" THEN "settle"
    ELSE IF tries <= MaxAttempts THEN "delete_requeue" ELSE "delete_fail"

decide(liveness, tries) ==
    IF liveness = "Active" THEN "renew"
    ELSE IF liveness = "Succeeded" THEN "settle"
    ELSE IF tries < MaxAttempts THEN "delete_requeue" ELSE "delete_fail"

CheckLiveness(d, r) ==
    /\ pc[d] = "reap"
    /\ r \in todo[d]
    /\ todo' = [todo EXCEPT ![d] = @ \ {r}]
    /\ Keep(d, r)
    /\ Goto(d, decide(job_liveness(r), r.attempts))
    /\ UNCHANGED <<rowVars, k8sVars>>

\* A transient API error skips the row until the next pass.
LivenessUnknown(d, r) ==
    /\ pc[d] = "reap"
    /\ "api_error" \in Faults
    /\ r \in todo[d]
    /\ r.job
    /\ todo' = [todo EXCEPT ![d] = @ \ {r}]
    /\ UNCHANGED <<rowVars, k8sVars, pc, cur>>

RenewLease(d) ==
    /\ pc[d] = "renew"
    /\ renew_lease(cur[d].id)
    /\ Goto(d, "reap")
    /\ Keep(d, NoTask)
    /\ UNCHANGED <<k8sVars, todo>>

MarkSucceeded(d) ==
    /\ pc[d] = "settle"
    /\ set_task_status(cur[d].id, "succeeded")
    /\ Goto(d, "reap")
    /\ Keep(d, NoTask)
    /\ UNCHANGED <<k8sVars, todo>>

\* Best effort, and only when the row named a Job.
delete_dead_job(d) ==
    /\ pc[d] \in {"delete_requeue", "delete_fail"}
    /\ \/ cur[d].job /\ delete_job(cur[d].id)
       \/ ~cur[d].job /\ UNCHANGED k8sVars
       \/ "api_error" \in Faults /\ UNCHANGED k8sVars
    /\ Goto(d, IF pc[d] = "delete_requeue" THEN "requeue" ELSE "fail")
    /\ UNCHANGED <<rowVars, cur, todo>>

Requeue(d) ==
    /\ pc[d] = "requeue"
    /\ release_task(cur[d].id)
    /\ Goto(d, "reap")
    /\ Keep(d, NoTask)
    /\ UNCHANGED <<k8sVars, todo>>

Fail(d) ==
    /\ pc[d] = "fail"
    /\ set_task_status(cur[d].id, "failed")
    /\ Goto(d, "reap")
    /\ Keep(d, NoTask)
    /\ UNCHANGED <<k8sVars, todo>>

list_cancelled_with_job(d) ==
    /\ pc[d] = "reap"
    /\ todo[d] = {}
    /\ todo' = [todo EXCEPT ![d] =
          {Listed(t) : t \in {u \in Tasks : status[u] = "cancelled" /\ jobName[u]}}]
    /\ Goto(d, "sweep")
    /\ UNCHANGED <<rowVars, k8sVars, cur>>

StopCancelled(d, r) ==
    /\ pc[d] = "sweep"
    /\ r \in todo[d]
    /\ todo' = [todo EXCEPT ![d] = @ \ {r}]
    /\ delete_job(r.id)
    /\ Goto(d, "clear")
    /\ Keep(d, r)
    /\ UNCHANGED rowVars

\* The delete failed: job_name is kept, the row is listed again next time.
SweepError(d) ==
    /\ pc[d] = "sweep"
    /\ "api_error" \in Faults
    /\ \E r \in todo[d] : todo' = [todo EXCEPT ![d] = @ \ {r}]
    /\ UNCHANGED <<rowVars, k8sVars, pc, cur>>

clear_job_name(d) ==
    /\ pc[d] = "clear"
    /\ jobName' = [jobName EXCEPT ![cur[d].id] = FALSE]
    /\ Goto(d, "sweep")
    /\ Keep(d, NoTask)
    /\ UNCHANGED <<status, lease, attempts, unreleased, k8sVars, todo>>

SweepReturns(d) ==
    /\ pc[d] = "sweep"
    /\ todo[d] = {}
    /\ Goto(d, "drain")
    /\ UNCHANGED <<rowVars, k8sVars, cur, todo>>

\* A statement of the dispatcher fails: it is logged and the loop goes on.
DbError(d) ==
    /\ "db_error" \in Faults
    /\ \/ pc[d] \in {"record", "release"} /\ Goto(d, "drain")
       \/ pc[d] \in {"renew", "settle", "requeue", "fail"} /\ Goto(d, "reap")
       \/ pc[d] = "reap" /\ todo[d] = {} /\ Goto(d, "drain")
       \/ pc[d] = "clear" /\ Goto(d, "sweep")
    /\ Keep(d, NoTask)
    /\ UNCHANGED <<rowVars, k8sVars, todo>>

\* The process dies and is restarted; only the database and the cluster stay.
Crash(d) ==
    /\ "crash" \in Faults
    /\ pc' = [pc EXCEPT ![d] = "drain"]
    /\ cur' = [cur EXCEPT ![d] = NoTask]
    /\ todo' = [todo EXCEPT ![d] = {}]
    /\ UNCHANGED <<rowVars, k8sVars>>

DispatcherStep(d) ==
    \/ \E t \in Tasks : claim_next_task(d, t)
    \/ DrainReturns(d) \/ LaunchSucceeds(d)
    \/ set_task_job(d) \/ RequeueUnlaunched(d)
    \/ Wake(d) \/ list_reapable_tasks(d)
    \/ \E r \in todo[d] : CheckLiveness(d, r) \/ StopCancelled(d, r)
    \/ RenewLease(d) \/ MarkSucceeded(d) \/ delete_dead_job(d)
    \/ Requeue(d) \/ Fail(d)
    \/ list_cancelled_with_job(d) \/ clear_job_name(d) \/ SweepReturns(d)

Dispatcher(d) ==
    \/ DispatcherStep(d)
    \/ LaunchFails(d) \/ ClaimError(d) \/ SweepError(d)
    \/ \E r \in todo[d] : LivenessUnknown(d, r)
    \/ DbError(d) \/ Crash(d)

Serve ==
    \/ \E t \in Tasks : create_task(t) \/ create_index_task(t) \/ cancel_task_by_id(t)
    \/ \E r \in Repos : cancel_active_tasks_for_repo(r)
    \/ \E i \in IndexTasks : release_reviews_waiting_on_index(i) \/ ReleaseFails(i)

Next ==
    \/ Serve
    \/ \E t \in Tasks : Runner(t)
    \/ \E d \in Dispatchers : Dispatcher(d)

Spec == Init /\ [][Next]_vars

(***************************************************************************)
(* Fairness.  The dispatcher loop keeps turning and its reap tick keeps    *)
(* firing (Wake competes with it, hence strong fairness); pods run to      *)
(* their end, releases run and the clock advances.  Failures of the        *)
(* dispatcher's own environment are transient: they stop at some point,    *)
(* that is, from then on every step with the effect of a fault is also an  *)
(* ordinary step (a crash while waiting looks like a wake-up).             *)
(* Nothing obliges anyone to create or cancel a task, nor a pod to die.    *)
(***************************************************************************)
DispatcherFault == \E d \in Dispatchers :
    \/ Crash(d) \/ DbError(d) \/ LaunchFails(d) \/ ClaimError(d) \/ SweepError(d)
    \/ \E r \in todo[d] : LivenessUnknown(d, r)

FairSpec ==
    /\ Spec
    /\ \A d \in Dispatchers : WF_vars(DispatcherStep(d)) /\ SF_vars(list_reapable_tasks(d))
    /\ \A t \in Tasks : WF_vars(RunnerStep(t)) /\ WF_vars(LeaseExpires(t))
    /\ WF_vars(\E i \in IndexTasks : release_reviews_waiting_on_index(i))
    /\ <>[][DispatcherFault => \E d \in Dispatchers : DispatcherStep(d)]_vars

-----------------------------------------------------------------------------
(* Properties.                                                             *)

\* A lease belongs to an active run: no path out of running/posting_result
\* (report, release, cancel, reaper) leaves one behind, and no late report
\* or heartbeat puts one on a row that is not active.
LeaseDiscipline == \A t \in Tasks : lease[t] # "none" => status[t] \in Active

\* A claimable row is in nobody's hands: no lease, no recorded Job, and no
\* dispatcher between its claim and the end of its dispatch.  This is what
\* makes the next claim a clean start (one Job per task, ADR-0004).
InHand(d) == {t \in Tasks : pc[d] \in {"launch", "record", "release"} /\ cur[d].id = t}
QueuedIsClean ==
    \A t \in Tasks : status[t] = "queued" =>
        /\ lease[t] = "none"
        /\ ~jobName[t]
        /\ \A d \in Dispatchers : t \notin InHand(d)

\* The control plane never deletes the running Job of a leased run: the
\* reaper acts on liveness it read earlier, and the sweep of cancelled rows
\* on a list it read earlier, and neither may have gone stale by then.
LeasedRunNeverKilled ==
    [][\A t \in Tasks : job[t] = "active" /\ job'[t] = "none" => lease[t] = "none"]_vars

\* What makes the two properties above inductive, with one dispatcher: a task
\* in hand, and a task with a recorded Job, has left the queue; a Job judged
\* dead stays dead until the reaper has acted on it; and a row listed for the
\* sweep takes no new lease before its turn.
Fresh == {"absent", "waiting_for_index", "queued"}
HandsStarted ==
    \A d \in Dispatchers, t \in Tasks : t \in InHand(d) => status[t] \notin Fresh
NamedStarted == \A t \in Tasks : jobName[t] => status[t] \notin Fresh
JudgedDead(d) ==
    pc[d] \in {"delete_requeue", "requeue", "delete_fail", "fail"} /\ cur[d].job
DeadStayDead ==
    \A d \in Dispatchers : JudgedDead(d) => job[cur[d].id] # "active"
SweptUnleased ==
    \A d \in Dispatchers : pc[d] \in {"sweep", "clear"} =>
        \A r \in todo[d] : lease[r.id] = "none"
IInv == /\ TypeOK /\ LeaseDiscipline /\ HandsStarted /\ NamedStarted
        /\ DeadStayDead /\ SweptUnleased

\* Self-healing: whatever happens to its Job, a run that holds a lease does
\* not stay active for ever.
LeasedRunEnds ==
    \A t \in Tasks : (status[t] \in Active /\ lease[t] # "none")
                         ~> (status[t] \notin Active)

\* A review parked behind an index is released: every way an index run ends
\* that goes through a status report or the reaper wakes its waiters.
WaitingReleased ==
    \A t \in Tasks : status[t] = "waiting_for_index" ~> status[t] # "waiting_for_index"

\* queue/reaper.rs: MAX_ATTEMPTS bounds the dispatches of a task, whatever the
\* reaper finds and however often the dispatcher dies.  A launch that fails
\* requeues the row without looking at attempts, so the bound needs launches to
\* succeed; nothing else can break it.
AttemptsBounded == \A t \in Tasks : attempts[t] <= MaxAttempts

-----------------------------------------------------------------------------
(***************************************************************************)
(* The queue implements TaskLifecycle: the stage of a task is read off its *)
(* status and its lease, its run off the Job.                              *)
(***************************************************************************)
StageOf(s, l) ==
    IF s = "absent" THEN "new"
    ELSE IF s = "waiting_for_index" THEN "parked"
    ELSE IF s = "queued" THEN "ready"
    ELSE IF s \in Active THEN (IF l = "none" THEN "loose" ELSE "owned")
    ELSE "over"
RunOf(j) == IF j = "active" THEN "live" ELSE IF j = "none" THEN "none" ELSE "done"
Stage == [t \in Tasks |-> StageOf(status[t], lease[t])]
Work == [t \in Tasks |-> RunOf(job[t])]

Lifecycle == INSTANCE TaskLifecycle WITH
    stage <- Stage, dispatches <- attempts, work <- Work

\* Every step of rows, Jobs, pods and reaper is a step of the life cycle or
\* invisible in it: no requeue resurrects a task that ended meanwhile, no
\* late report or heartbeat puts a lease on a row that is queued or over, and no
\* Job is created for, or taken from, a task in the wrong stage.
ImplementsLifecycle == Lifecycle!Spec

\* What the refinement needs besides IInv: nothing of a task exists in the
\* cluster, on the wire or in a dispatcher's hands before its row has been in
\* the queue; and a pod belongs to an active Job.
Waiting(t) == status[t] \in {"absent", "waiting_for_index"}
Holding(d) == pc[d] \notin {"drain", "wait", "reap", "sweep"}
TouchedStarted ==
    /\ \A t \in Tasks : Waiting(t) => job[t] = "none" /\ pod[t] = "none" /\ late[t] = {}
    /\ \A d \in Dispatchers : Holding(d) => cur[d] \in ReapableTask /\ ~Waiting(cur[d].id)
    /\ \A d \in Dispatchers : \A r \in todo[d] : ~Waiting(r.id)
PodHasJob == \A t \in Tasks : pod[t] # "none" => job[t] = "active"

-----------------------------------------------------------------------------
(* What the comments and documents say and the code does not do.           *)

\* docs/jobs-and-lifecycle.md draws no edge out of cancelled.
CancelledIsFinal ==
    [][\A t \in Tasks : status[t] = "cancelled" => status'[t] = "cancelled"]_vars

\* queue/reaper.rs: a task stranded in running is healed, lease or no lease.
StrandedRunHealed == \A t \in Tasks : status[t] \in Active ~> status[t] \notin Active

\* The same reaper pass deletes the Jobs of cancelled tasks.
CancelledJobSwept ==
    \A t \in Tasks : (status[t] = "cancelled" /\ jobName[t])
                         ~> (status[t] # "cancelled" \/ ~jobName[t])

\* db/repositories.rs: an index is deduplicated against one in flight.
OneIndexInFlight ==
    \A r \in Repos : \A i, j \in IndexActive(r) : i = j
=============================================================================
