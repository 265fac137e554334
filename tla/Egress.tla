------------------------------- MODULE Egress -------------------------------
(***************************************************************************)
(* What reaches the pull request.  Runners buffer findings, replies and a  *)
(* summary; the finalize handler of the serve role turns the buffer into   *)
(* intent rows of the outbox; the failure handlers of serve and of the     *)
(* reaper, the dispatcher and the supersede path add theirs; and the       *)
(* reconciler, the only process that writes to the platform, delivers the  *)
(* rows in order, retries them and dead-letters them.                      *)
(*                                                                         *)
(* All tasks review one head commit of one pull request.  Every SQL        *)
(* statement and every platform call is one atomic step; the handlers have *)
(* a program counter and may be dropped between any two steps.             *)
(***************************************************************************)
EXTENDS Naturals

CONSTANTS
    Tasks,              \* the reviews of the head commit, numbered in creation order
    Findings,           \* finding keys: (file, line, title)
    Tracked,            \* the intent kinds this instance follows
    Pods,               \* pods a dispatched task may get, retries included
    OUTBOX_MAX_ATTEMPTS,
    reactions_enabled,  \* review.reactions
    check_runs_enabled, \* tasks.check_runs_enabled
    Faults,             \* which failures the environment may inject
    PostBound,          \* model bound: redeliveries stop after this many posts
    IdBound             \* model bound on the ids of unsettled rows

AllFaults == {"handler_crash", "reconciler_crash", "post_error", "lost_response",
              "db_error", "mark_error", "pod_death", "cancel"}

ASSUME TasksAssumption == Tasks \subseteq Nat
ASSUME BoundsAssumption ==
    /\ Pods \in Nat
    /\ OUTBOX_MAX_ATTEMPTS \in Nat \ {0}
    /\ PostBound \in Nat
    /\ IdBound \in Nat
ASSUME ConfigAssumption ==
    /\ reactions_enabled \in BOOLEAN
    /\ check_runs_enabled \in BOOLEAN
    /\ Faults \subseteq AllFaults

\* The intents of a task, one dedup_key each.  "verdict" is the shared key of
\* the thumbs, "notice" the failure notice, "start"/"resolve" the check run.
\* An instance may leave the rows of some kinds out: they only interleave.
Kinds == {"review", "reply", "notice", "verdict", "confused", "eyes", "start", "resolve"}
ASSUME TrackedAssumption == Tracked \subseteq Kinds
Rows  == Tasks \X Kinds
NoRow == <<>>

\* outbox.status: "backoff" is a pending row whose next_attempt_at is in the
\* future; "none" has not been inserted and "pruned" was deleted again.
Unsettled == {"pending", "backoff"}
RowState  == {"none", "posted", "failed", "pruned"} \cup Unsettled

Buffer == [inline : SUBSET Findings, summary : BOOLEAN, comments : BOOLEAN]
EmptyBuffer == [inline |-> {}, summary |-> FALSE, comments |-> FALSE]

Outcome    == {"none", "finished", "exhausted", "aborted"}
Conclusion == {"none", "success", "neutral", "failure", "timed_out", "cancelled"}
Status     == {"absent", "queued", "running", "succeeded", "failed", "cancelled"}

\* The runner pod: working, in the finalize request, about to report.
RunState == {"none", "working", "finalize", "ok", "fail"}
FzPC == {"idle", "replies", "lookup", "prior", "guard", "persist", "thumb",
         "queue", "clear", "react", "resolve", "respond"}
FhPC == {"idle", "confused", "notice", "resolve"}
RcPC == {"idle", "next", "post", "record", "mark_posted", "mark_failed"}

VARIABLES
    status, pods, run, outcome,   \* task row, pods left, the runner
    buf,                          \* pending_review_actions
    sig,                          \* dispatcher: signals still to enqueue
    fz, snap, kept, queued,       \* finalize_review: position and locals
    answered,                     \* history: a finalize answered 200
    fh, why,                      \* failure handler: position, conclusion
    st, att, id,                  \* outbox rows
    finding, verdict, conclusion, \* payloads of review, verdict and resolve
    reviews,                      \* the task's row of the reviews table
    comments,                     \* a row of review_comments exists
    ext,                          \* tasks.check_run_external_id (0: NULL)
    rc, cur, batch,               \* reconciler
    posts,                        \* how often each intent reached the platform
    unsure,                       \* history: rows whose last post was not learnt of
    check, objs                   \* latest check run of the commit; how many exist

taskVars   == <<status, pods, run, outcome, buf, sig>>
fzVars     == <<fz, snap, kept, queued, answered>>
fhVars     == <<fh, why>>
rowVars    == <<st, att, id>>
loadVars   == <<finding, verdict, conclusion>>
recordVars == <<reviews, comments, ext>>
rcVars     == <<rc, cur, batch>>
hubVars    == <<posts, unsure, check, objs>>
serveVars  == <<taskVars, fzVars, fhVars, loadVars>>
vars       == <<serveVars, rowVars, recordVars, rcVars, hubVars>>

TaskTypes ==
    /\ status \in [Tasks -> Status] /\ pods \in [Tasks -> Nat]
    /\ run \in [Tasks -> RunState] /\ outcome \in [Tasks -> Outcome]
    /\ buf \in [Tasks -> Buffer] /\ sig \in [Tasks -> {"none", "eyes", "start"}]

HandlerTypes ==
    /\ fz \in [Tasks -> FzPC] /\ snap \in [Tasks -> Buffer]
    /\ kept \in [Tasks -> SUBSET Findings] /\ queued \in [Tasks -> BOOLEAN]
    /\ answered \in [Tasks -> BOOLEAN]
    /\ fh \in [Tasks -> FhPC] /\ why \in [Tasks -> Conclusion]

OutboxTypes ==
    /\ st \in [Rows -> RowState] /\ att \in [Rows -> Nat] /\ id \in [Rows -> Nat]
    /\ finding \in [Tasks -> SUBSET Findings]
    /\ verdict \in [Tasks -> {"none", "+1", "-1"}]
    /\ conclusion \in [Tasks -> Conclusion]

RecordTypes ==
    /\ reviews \in [Tasks -> {"none", "silent", "posted"}]
    /\ comments \in [Tasks -> BOOLEAN] /\ ext \in [Tasks -> Nat]

ReconcilerTypes ==
    /\ rc \in RcPC /\ cur \in Rows \cup {NoRow} /\ batch \in SUBSET Rows
    /\ posts \in [Rows -> Nat] /\ unsure \subseteq Rows /\ objs \in Nat
    /\ check \in [obj : Nat, state : Conclusion \cup {"in_progress"}]

TypeOK ==
    TaskTypes /\ HandlerTypes /\ OutboxTypes /\ RecordTypes /\ ReconcilerTypes

Init ==
    /\ status = [t \in Tasks |-> "absent"] /\ pods = [t \in Tasks |-> 0]
    /\ run = [t \in Tasks |-> "none"] /\ outcome = [t \in Tasks |-> "none"]
    /\ buf = [t \in Tasks |-> EmptyBuffer] /\ sig = [t \in Tasks |-> "none"]
    /\ fz = [t \in Tasks |-> "idle"] /\ snap = [t \in Tasks |-> EmptyBuffer]
    /\ kept = [t \in Tasks |-> {}] /\ queued = [t \in Tasks |-> FALSE]
    /\ answered = [t \in Tasks |-> FALSE]
    /\ fh = [t \in Tasks |-> "idle"] /\ why = [t \in Tasks |-> "none"]
    /\ st = [r \in Rows |-> "none"] /\ att = [r \in Rows |-> 0] /\ id = [r \in Rows |-> 0]
    /\ finding = [t \in Tasks |-> {}] /\ verdict = [t \in Tasks |-> "none"]
    /\ conclusion = [t \in Tasks |-> "none"]
    /\ reviews = [t \in Tasks |-> "none"] /\ comments = [t \in Tasks |-> FALSE]
    /\ ext = [t \in Tasks |-> 0]
    /\ rc = "idle" /\ cur = NoRow /\ batch = {}
    /\ posts = [r \in Rows |-> 0] /\ unsure = {} /\ objs = 0
    /\ check = [obj |-> 0, state |-> "none"]

-----------------------------------------------------------------------------
(* The outbox, producer side (outbox.rs, db/outbox.rs).                    *)

\* The id a new row gets: it sorts after every unsettled row.
IsNextId(n) == /\ \A r \in Rows : id[r] < n
               /\ n = 1 \/ \E r \in Rows : id[r] + 1 = n

Free(r) == st[r] \in {"none", "pruned"}
Inserts(r) == Free(r) /\ r[2] \in Tracked

\* INSERT ... ON CONFLICT (dedup_key) DO NOTHING.
enqueue_outbox_post(r) ==
    \/ /\ ~Inserts(r)
       /\ UNCHANGED rowVars
    \/ /\ Inserts(r)
       /\ \E n \in 1..IdBound :
            /\ IsNextId(n)
            /\ st' = [st EXCEPT ![r] = "pending"]
            /\ att' = [att EXCEPT ![r] = 0]
            /\ id' = [id EXCEPT ![r] = n]

enqueue_review(t, fs) ==
    /\ enqueue_outbox_post(<<t, "review">>)
    /\ finding' = [finding EXCEPT ![t] = IF Inserts(<<t, "review">>) THEN fs ELSE @]
    /\ UNCHANGED <<verdict, conclusion>>

enqueue_verdict_reaction(t, content) ==
    /\ enqueue_outbox_post(<<t, "verdict">>)
    /\ verdict' = [verdict EXCEPT ![t] = IF Inserts(<<t, "verdict">>) THEN content ELSE @]
    /\ UNCHANGED <<finding, conclusion>>

enqueue_check_run_resolve(t, c) ==
    /\ enqueue_outbox_post(<<t, "resolve">>)
    /\ conclusion' = [conclusion EXCEPT ![t] = IF Inserts(<<t, "resolve">>) THEN c ELSE @]
    /\ UNCHANGED <<finding, verdict>>

\* enqueue_reply, enqueue_reaction, enqueue_failure_notice, ..._start: the
\* payload is fixed by the task.
enqueue(t, k) ==
    /\ enqueue_outbox_post(<<t, k>>)
    /\ UNCHANGED loadVars

Nothing == UNCHANGED <<rowVars, loadVars>>

\* The enqueue of a best-effort signal may fail and is then forgotten.
Lost == "db_error" \in Faults /\ Nothing

-----------------------------------------------------------------------------
(* The life of a task, as far as egress depends on it.                     *)

create(t) ==
    /\ status[t] = "absent"
    /\ \A u \in Tasks : u < t => status[u] # "absent"
    /\ status' = [status EXCEPT ![t] = "queued"]
    /\ UNCHANGED <<pods, run, outcome, buf, sig, fzVars, fhVars, loadVars,
                   rowVars, recordVars, rcVars, hubVars>>

\* Claimed and launched; the two signals follow while the pod may be running.
dispatch(t) ==
    /\ status[t] = "queued"
    /\ status' = [status EXCEPT ![t] = "running"]
    /\ pods' = [pods EXCEPT ![t] = Pods]
    /\ sig' = [sig EXCEPT ![t] = "eyes"]
    /\ UNCHANGED <<run, outcome, buf, fzVars, fhVars, loadVars, rowVars,
                   recordVars, rcVars, hubVars>>

react_work_started(t) ==
    /\ sig[t] = "eyes"
    /\ \/ reactions_enabled /\ enqueue(t, "eyes")
       \/ ~reactions_enabled /\ Nothing
       \/ Lost
    /\ sig' = [sig EXCEPT ![t] = "start"]
    /\ UNCHANGED <<status, pods, run, outcome, buf, fzVars, fhVars, recordVars,
                   rcVars, hubVars>>

start_check_run_signal(t) ==
    /\ sig[t] = "start"
    /\ \/ check_runs_enabled /\ enqueue(t, "start")
       \/ ~check_runs_enabled /\ Nothing
       \/ Lost
    /\ sig' = [sig EXCEPT ![t] = "none"]
    /\ UNCHANGED <<status, pods, run, outcome, buf, fzVars, fhVars, recordVars,
                   rcVars, hubVars>>

\* A pod starts, whatever the row says by now, and reports `running`: the
\* buffer of an earlier attempt is cleared (durable replay is off).
ReportRunning(t) ==
    /\ run[t] = "none"
    /\ pods[t] > 0
    /\ pods' = [pods EXCEPT ![t] = @ - 1]
    /\ status' = [status EXCEPT ![t] = "running"]
    /\ run' = [run EXCEPT ![t] = "working"]
    /\ \/ buf' = [buf EXCEPT ![t] = EmptyBuffer]
       \/ "db_error" \in Faults /\ UNCHANGED buf
    /\ UNCHANGED <<outcome, sig, fzVars, fhVars, loadVars, rowVars, recordVars,
                   rcVars, hubVars>>

\* The agent has buffered what it found and ended.  An aborted run clears its
\* findings and leaves a note, an exhausted one may leave a note.
perform_review(t) ==
    /\ run[t] = "working"
    /\ fz[t] = "idle"
    /\ \E b \in Buffer, o \in Outcome \ {"none"} :
          /\ o = "aborted" => \/ b.inline = {} /\ b.summary
                              \/ "db_error" \in Faults
          /\ buf' = [buf EXCEPT ![t] = b]
          /\ outcome' = [outcome EXCEPT ![t] = o]
    /\ run' = [run EXCEPT ![t] = "finalize"]
    /\ UNCHANGED <<status, pods, sig, fzVars, fhVars, loadVars, rowVars,
                   recordVars, rcVars, hubVars>>

\* The model gateway was unreachable: nothing is finalized and the run counts
\* as a success.
ReviewRunFails(t) ==
    /\ run[t] = "working"
    /\ run' = [run EXCEPT ![t] = "ok"]
    /\ UNCHANGED <<status, pods, outcome, buf, sig, fzVars, fhVars, loadVars,
                   rowVars, recordVars, rcVars, hubVars>>

\* Clone, indexing or configuration failed before the review.
RunFails(t) ==
    /\ run[t] = "working"
    /\ run' = [run EXCEPT ![t] = "fail"]
    /\ UNCHANGED <<status, pods, outcome, buf, sig, fzVars, fhVars, loadVars,
                   rowVars, recordVars, rcVars, hubVars>>

\* OOM kill or eviction, or the self-cancel poll of a cancelled task.  A
\* finalize request it had open may go on without it.
PodDies(t) ==
    /\ run[t] # "none"
    /\ "pod_death" \in Faults \/ status[t] = "cancelled"
    /\ run' = [run EXCEPT ![t] = "none"]
    /\ UNCHANGED <<status, pods, outcome, buf, sig, fzVars, fhVars, loadVars,
                   rowVars, recordVars, rcVars, hubVars>>

ReportSucceeded(t) ==
    /\ run[t] = "ok"
    /\ status' = [status EXCEPT ![t] = "succeeded"]
    /\ run' = [run EXCEPT ![t] = "none"]
    /\ pods' = [pods EXCEPT ![t] = 0]
    /\ UNCHANGED <<outcome, buf, sig, fzVars, fhVars, loadVars, rowVars,
                   recordVars, rcVars, hubVars>>

\* set_status spawns handle_review_failure.
ReportFailed(t) ==
    /\ run[t] = "fail"
    /\ fh[t] = "idle"
    /\ status' = [status EXCEPT ![t] = "failed"]
    /\ run' = [run EXCEPT ![t] = "none"]
    /\ fh' = [fh EXCEPT ![t] = "confused"]
    /\ why' = [why EXCEPT ![t] = "failure"]
    /\ UNCHANGED <<pods, outcome, buf, sig, fzVars, loadVars, rowVars,
                   recordVars, rcVars, hubVars>>

\* The reaper gives up on a run whose pods are gone.
ReaperFails(t) ==
    /\ status[t] = "running"
    /\ run[t] = "none" /\ pods[t] = 0 /\ sig[t] = "none" /\ fh[t] = "idle"
    /\ status' = [status EXCEPT ![t] = "failed"]
    /\ fh' = [fh EXCEPT ![t] = "confused"]
    /\ why' = [why EXCEPT ![t] = "timed_out"]
    /\ UNCHANGED <<pods, run, outcome, buf, sig, fzVars, loadVars, rowVars,
                   recordVars, rcVars, hubVars>>

\* Pull request closed, or cancelled by a user: no intent is written.
Cancel(t) ==
    /\ "cancel" \in Faults
    /\ status[t] \in {"queued", "running"}
    /\ status' = [status EXCEPT ![t] = "cancelled"]
    /\ UNCHANGED <<pods, run, outcome, buf, sig, fzVars, fhVars, loadVars,
                   rowVars, recordVars, rcVars, hubVars>>

\* A newer commit supersedes the run: its check is resolved as cancelled.
resolve_cancelled_check_run(t) ==
    /\ "cancel" \in Faults
    /\ status[t] \in {"queued", "running"}
    /\ fh[t] = "idle"
    /\ status' = [status EXCEPT ![t] = "cancelled"]
    /\ fh' = [fh EXCEPT ![t] = "resolve"]
    /\ why' = [why EXCEPT ![t] = "cancelled"]
    /\ UNCHANGED <<pods, run, outcome, buf, sig, fzVars, loadVars, rowVars,
                   recordVars, rcVars, hubVars>>

-----------------------------------------------------------------------------
(* The failure handlers: handle_review_failure, and the same three steps   *)
(* in the reaper.  Every statement is best effort.                         *)

handle_review_failure(t) ==
    /\ fh[t] # "idle"
    /\ \/ /\ fh[t] = "confused"
          /\ \/ reactions_enabled /\ enqueue(t, "confused")
             \/ ~reactions_enabled /\ Nothing
             \/ Lost
          /\ fh' = [fh EXCEPT ![t] = "notice"]
       \/ /\ fh[t] = "notice"
          /\ enqueue(t, "notice") \/ Lost
          /\ fh' = [fh EXCEPT ![t] = "resolve"]
       \/ /\ fh[t] = "resolve"
          /\ \/ check_runs_enabled /\ enqueue_check_run_resolve(t, why[t])
             \/ ~check_runs_enabled /\ Nothing
             \/ Lost
          /\ fh' = [fh EXCEPT ![t] = "idle"]
    /\ UNCHANGED <<why, taskVars, fzVars, recordVars, rcVars, hubVars>>

FailureHandlerDropped(t) ==
    /\ "handler_crash" \in Faults
    /\ fh[t] # "idle"
    /\ fh' = [fh EXCEPT ![t] = "idle"]
    /\ UNCHANGED <<why, taskVars, fzVars, loadVars, rowVars, recordVars,
                   rcVars, hubVars>>

\* The dispatcher dies between the launch and its signals.
SignalsDropped(t) ==
    /\ "handler_crash" \in Faults
    /\ sig[t] # "none"
    /\ sig' = [sig EXCEPT ![t] = "none"]
    /\ UNCHANGED <<status, pods, run, outcome, buf, fzVars, fhVars, loadVars,
                   rowVars, recordVars, rcVars, hubVars>>

-----------------------------------------------------------------------------
(* finalize_review (http/internal.rs).  Each step reads its locals snap,   *)
(* kept, queued and the outcome the runner sent.                           *)

is_empty(b) == b.inline = {} /\ ~b.summary /\ ~b.comments
posts_pr_review(b) == b.inline # {} \/ b.summary \/ is_empty(b)

\* finalize_policy: the silent clean pass, and the verdict.
suppress_clean_post(t) ==
    outcome[t] = "finished" /\ snap[t].inline = {} /\ reactions_enabled
policy_verdict(t) ==
    IF ~reactions_enabled \/ outcome[t] = "aborted" THEN "none"
    ELSE IF snap[t].inline # {} THEN "-1"
    ELSE IF outcome[t] = "finished" THEN "+1" ELSE "none"

resolve_check_conclusion(aborted, review_queued) ==
    IF aborted THEN "failure" ELSE IF review_queued THEN "neutral" ELSE "success"

\* Wrong variant: intents are looked at, delivered reviews are not.
pending_findings_for_target(t) ==
    UNION {finding[u] : u \in {v \in Tasks \ {t} : st[<<v, "review">>] \in Unsettled}}

\* What the dedup lookup sees of the other reviews of the pull request: the
\* reviews table, and review intents still pending.
posted_findings_for_target(t) ==
    UNION {finding[u] : u \in {v \in Tasks \ {t} :
        reviews[v] = "posted" \/ st[<<v, "review">>] \in Unsettled}}

target_has_prior_findings(t) ==
    \E u \in Tasks \ {t} : reviews[u] = "posted" /\ finding[u] # {}

\* Wrong variant: only the posted copy is looked at, not the intent.
has_posted_review_only(t) == reviews[t] = "posted"

has_review_intent_or_posted_review(t) ==
    ~Free(<<t, "review">>) \/ reviews[t] = "posted"

FzGoto(t, l) == fz' = [fz EXCEPT ![t] = l]
\* What no step of the handler touches.
FzFrame == UNCHANGED <<status, pods, run, outcome, sig, answered, fhVars,
                       comments, ext, rcVars, hubVars>>

load_pending_review(t) ==
    /\ run[t] = "finalize"
    /\ fz[t] = "idle"
    /\ snap' = [snap EXCEPT ![t] = buf[t]]
    /\ FzGoto(t, "replies")
    /\ Nothing
    /\ UNCHANGED <<kept, queued, buf, reviews>> /\ FzFrame

\* Replies are dropped when a review is posted, else queued as one reply; the
\* buffered ones are deleted, best effort.
finalize_replies(t) ==
    /\ fz[t] = "replies"
    /\ \/ snap[t].comments /\ ~posts_pr_review(snap[t]) /\ enqueue(t, "reply")
       \/ (snap[t].comments => posts_pr_review(snap[t])) /\ Nothing
    /\ \/ buf' = [buf EXCEPT ![t].comments = FALSE]
       \/ "db_error" \in Faults /\ UNCHANGED buf
    /\ FzGoto(t, IF posts_pr_review(snap[t]) THEN "lookup" ELSE "resolve")
    /\ UNCHANGED <<snap, kept, queued, reviews>> /\ FzFrame

\* Cross-run dedup; a failed lookup means no dedup.
dedup_against_posted(t) ==
    /\ fz[t] = "lookup"
    /\ \/ kept' = [kept EXCEPT ![t] = snap[t].inline \ posted_findings_for_target(t)]
       \/ "db_error" \in Faults /\ kept' = [kept EXCEPT ![t] = snap[t].inline]
    /\ FzGoto(t, IF suppress_clean_post(t) THEN "prior" ELSE "queue")
    /\ Nothing
    /\ UNCHANGED <<snap, queued, buf, reviews>> /\ FzFrame

\* Silence is only honest when there is nothing to retract; a failed check
\* posts.
suppress_clean(t) ==
    /\ fz[t] = "prior"
    /\ \/ FzGoto(t, IF target_has_prior_findings(t) THEN "queue" ELSE "guard")
       \/ "db_error" \in Faults /\ FzGoto(t, "queue")
    /\ Nothing
    /\ UNCHANGED <<snap, kept, queued, buf, reviews>> /\ FzFrame

\* Re-finalize racing a real review: skip the silent path.
clean_guard(t) ==
    /\ fz[t] = "guard"
    /\ FzGoto(t, IF has_review_intent_or_posted_review(t) THEN "clear" ELSE "persist")
    /\ Nothing
    /\ UNCHANGED <<snap, kept, queued, buf, reviews>> /\ FzFrame

insert_review_if_absent(t) ==
    /\ fz[t] = "persist"
    /\ reviews' = [reviews EXCEPT ![t] = IF @ = "none" THEN "silent" ELSE @]
    /\ FzGoto(t, "thumb")
    /\ Nothing
    /\ UNCHANGED <<snap, kept, queued, buf>> /\ FzFrame

clean_verdict(t) ==
    /\ fz[t] = "thumb"
    /\ enqueue_verdict_reaction(t, "+1")
    /\ FzGoto(t, "clear")
    /\ UNCHANGED <<snap, kept, queued, buf, reviews>> /\ FzFrame

\* Wrong variant: a run without findings left to post is not queued.
finalize_queue_review_skipping_empty(t) ==
    /\ fz[t] = "queue"
    /\ \/ kept[t] # {} /\ enqueue_review(t, kept[t])
       \/ kept[t] = {} /\ Nothing
    /\ queued' = [queued EXCEPT ![t] = TRUE]
    /\ FzGoto(t, "clear")
    /\ UNCHANGED <<snap, kept, buf, reviews>> /\ FzFrame

finalize_queue_review(t) ==
    /\ fz[t] = "queue"
    /\ enqueue_review(t, kept[t])
    /\ queued' = [queued EXCEPT ![t] = TRUE]
    /\ FzGoto(t, "clear")
    /\ UNCHANGED <<snap, kept, buf, reviews>> /\ FzFrame

clear_pending_action(t) ==
    /\ fz[t] = "clear"
    /\ \/ buf' = [buf EXCEPT ![t].inline = {}, ![t].summary = FALSE]
       \/ "db_error" \in Faults /\ UNCHANGED buf
    /\ FzGoto(t, IF queued[t] THEN "react" ELSE "resolve")
    /\ Nothing
    /\ UNCHANGED <<snap, kept, queued, reviews>> /\ FzFrame

\* The verdict, or the confused face of an aborted run (never both).
finalize_react(t) ==
    /\ fz[t] = "react"
    /\ \/ policy_verdict(t) # "none" /\ enqueue_verdict_reaction(t, policy_verdict(t))
       \/ reactions_enabled /\ outcome[t] = "aborted" /\ enqueue(t, "confused")
       \/ /\ policy_verdict(t) = "none"
          /\ ~reactions_enabled \/ outcome[t] # "aborted"
          /\ Nothing
       \/ Lost
    /\ FzGoto(t, "resolve")
    /\ UNCHANGED <<snap, kept, queued, buf, reviews>> /\ FzFrame

finalize_resolve(t) ==
    /\ fz[t] = "resolve"
    /\ \/ check_runs_enabled /\ enqueue_check_run_resolve(t,
              resolve_check_conclusion(outcome[t] = "aborted", queued[t]))
       \/ ~check_runs_enabled /\ Nothing
       \/ Lost
    /\ FzGoto(t, "respond")
    /\ UNCHANGED <<snap, kept, queued, buf, reviews>> /\ FzFrame

\* The locals die with the handler.
FzEnd(t) ==
    /\ fz' = [fz EXCEPT ![t] = "idle"]
    /\ snap' = [snap EXCEPT ![t] = EmptyBuffer]
    /\ kept' = [kept EXCEPT ![t] = {}]
    /\ queued' = [queued EXCEPT ![t] = FALSE]
    /\ outcome' = [outcome EXCEPT ![t] = "none"]
    /\ UNCHANGED <<status, pods, buf, sig, fhVars, loadVars, rowVars, recordVars,
                   rcVars, hubVars>>

\* 200: the runner, if it is still there, goes on to report success.
finalize_respond(t) ==
    /\ fz[t] = "respond"
    /\ answered' = [answered EXCEPT ![t] = TRUE]
    /\ run' = [run EXCEPT ![t] = IF @ = "finalize" THEN "ok" ELSE @]
    /\ FzEnd(t)

\* The handler is dropped, a fatal statement failed or the diff could not be
\* read; the runner, if it is still there, fails the task.
FinalizeFails(t) ==
    /\ \/ "handler_crash" \in Faults /\ fz[t] # "idle"
       \/ "db_error" \in Faults /\ fz[t] \in {"replies", "guard", "persist", "thumb", "queue"}
       \/ "post_error" \in Faults /\ fz[t] = "lookup"
    /\ UNCHANGED answered
    /\ run' = [run EXCEPT ![t] = IF @ = "finalize" THEN "fail" ELSE @]
    /\ FzEnd(t)

finalize_review(t) ==
    \/ load_pending_review(t) \/ finalize_replies(t) \/ dedup_against_posted(t)
    \/ suppress_clean(t) \/ clean_guard(t) \/ insert_review_if_absent(t)
    \/ clean_verdict(t) \/ finalize_queue_review(t) \/ clear_pending_action(t)
    \/ finalize_react(t) \/ finalize_resolve(t) \/ finalize_respond(t)

-----------------------------------------------------------------------------
(* The reconciler (queue/reconciler.rs): one sequential process.           *)

Due == {r \in Rows : st[r] = "pending"}

claim_outbox_batch ==
    /\ rc = "idle"
    /\ Due # {}
    /\ batch' = Due
    /\ rc' = "next"
    /\ UNCHANGED <<cur, serveVars, rowVars, recordVars, hubVars>>

has_responded_or_pending_content(t) ==
    \/ reviews[t] # "none" \/ comments[t]
    \/ \E k \in {"review", "reply"} : st[<<t, k>>] \in Unsettled \cup {"posted"}

\* A newer run of the same commit that was not cancelled.
should_report_check_run(t) ==
    \A u \in Tasks : u > t => status[u] \in {"absent", "cancelled"}

\* Wrong variant: the notice is not checked again at delivery.
Skips_without_recheck(t, k) ==
    k \in {"start", "resolve"} /\ ~should_report_check_run(t)

\* Whether deliver consumes the row without posting.
Skips(t, k) ==
    \/ k = "notice" /\ has_responded_or_pending_content(t)
    \/ k \in {"start", "resolve"} /\ ~should_report_check_run(t)

\* The next row of the batch, oldest first; a failed check posts.
deliver(t, k) ==
    /\ rc = "next"
    /\ <<t, k>> \in batch
    /\ \A r \in batch : id[<<t, k>>] <= id[r]
    /\ cur' = <<t, k>>
    /\ batch' = batch \ {<<t, k>>}
    /\ \/ rc' = IF Skips(t, k) THEN "mark_posted" ELSE "post"
       \/ "db_error" \in Faults /\ rc' = "post"
    /\ UNCHANGED <<serveVars, rowVars, recordVars, hubVars>>

\* The effect of a post on the platform (external).  Check runs: start makes
\* a new one; resolve completes the one it has an id of, else makes a
\* completed one; the commit shows the latest.
Effect(t, k) ==
    /\ posts' = [posts EXCEPT ![<<t, k>>] = @ + 1]
    /\ \/ /\ k = "start"
          /\ objs' = objs + 1
          /\ check' = [obj |-> objs + 1, state |-> "in_progress"]
       \/ /\ k = "resolve" /\ ext[t] = 0
          /\ objs' = objs + 1
          /\ check' = [obj |-> objs + 1, state |-> conclusion[t]]
       \/ /\ k = "resolve" /\ ext[t] # 0
          /\ check' = IF check.obj = ext[t]
                      THEN [check EXCEPT !.state = conclusion[t]] ELSE check
          /\ UNCHANGED objs
       \/ k \notin {"start", "resolve"} /\ UNCHANGED <<check, objs>>

post(t, k) ==
    /\ rc = "post"
    /\ cur = <<t, k>>
    /\ Effect(t, k)
    /\ unsure' = unsure \ {<<t, k>>}
    /\ rc' = "record"
    /\ UNCHANGED <<cur, batch, serveVars, rowVars, recordVars>>

\* The platform refused, or it did the work and the answer was lost.
PostFails(t, k) ==
    /\ rc = "post"
    /\ cur = <<t, k>>
    /\ \/ "post_error" \in Faults /\ UNCHANGED hubVars
       \/ /\ "lost_response" \in Faults
          /\ Effect(t, k)
          /\ unsure' = unsure \cup {<<t, k>>}
    /\ rc' = "mark_failed"
    /\ UNCHANGED <<cur, batch, serveVars, rowVars, recordVars>>

\* Wrong variant: the posted review is recorded like a silent one.
Recorded_if_absent(t, k) ==
    /\ reviews' = IF k = "review" /\ reviews[t] = "none"
                  THEN [reviews EXCEPT ![t] = "silent"] ELSE reviews
    /\ comments' = IF k \in {"reply", "notice"}
                   THEN [comments EXCEPT ![t] = TRUE] ELSE comments
    /\ ext' = IF k = "start" THEN [ext EXCEPT ![t] = objs] ELSE ext

\* upsert_review, store_review_comments, set_check_run_external_id: best
\* effort.  The inline ids of a review say no more than its reviews row.
Recorded(t, k) ==
    /\ reviews' = IF k = "review" THEN [reviews EXCEPT ![t] = "posted"] ELSE reviews
    /\ comments' = IF k \in {"reply", "notice"}
                   THEN [comments EXCEPT ![t] = TRUE] ELSE comments
    /\ ext' = IF k = "start" THEN [ext EXCEPT ![t] = objs] ELSE ext

record(t, k) ==
    /\ rc = "record"
    /\ cur = <<t, k>>
    /\ Recorded(t, k) \/ ("db_error" \in Faults /\ UNCHANGED recordVars)
    /\ rc' = "mark_posted"
    /\ UNCHANGED <<cur, batch, serveVars, rowVars, hubVars>>

\* The row is settled, or waits for its next attempt, and the drain goes on.
RcNext == /\ rc' = IF batch = {} THEN "idle" ELSE "next"
          /\ cur' = NoRow
          /\ UNCHANGED <<batch, serveVars, recordVars, posts, check, objs>>

\* The row that was posted (or skipped) and not yet marked so.
InDoubt == {r \in Rows : r = cur /\ rc \in {"record", "mark_posted"}}

\* Nothing reads the id and the attempts of a settled row.
Forget(r) == /\ att' = [att EXCEPT ![r] = 0]
             /\ id' = [id EXCEPT ![r] = 0]

\* Wrong variant: the row stays pending.
mark_outbox_posted_never(t, k) ==
    /\ rc = "mark_posted"
    /\ cur = <<t, k>>
    /\ UNCHANGED rowVars
    /\ RcNext /\ UNCHANGED unsure

mark_outbox_posted(t, k) ==
    /\ rc = "mark_posted"
    /\ cur = <<t, k>>
    /\ st' = [st EXCEPT ![<<t, k>>] = "posted"]
    /\ Forget(<<t, k>>)
    /\ RcNext /\ UNCHANGED unsure

\* Wrong variant: the row is retried for ever.
mark_outbox_failed_forever(t, k) ==
    /\ rc = "mark_failed"
    /\ cur = <<t, k>>
    /\ st' = [st EXCEPT ![<<t, k>>] = "backoff"]
    /\ UNCHANGED <<att, id>>
    /\ RcNext /\ UNCHANGED unsure

mark_outbox_failed(t, k) ==
    /\ rc = "mark_failed"
    /\ cur = <<t, k>>
    /\ \/ /\ att[<<t, k>>] + 1 >= OUTBOX_MAX_ATTEMPTS
          /\ st' = [st EXCEPT ![<<t, k>>] = "failed"]
          /\ Forget(<<t, k>>)
       \/ /\ att[<<t, k>>] + 1 < OUTBOX_MAX_ATTEMPTS
          /\ st' = [st EXCEPT ![<<t, k>>] = "backoff"]
          /\ att' = [att EXCEPT ![<<t, k>>] = @ + 1]
          /\ UNCHANGED id
    /\ RcNext /\ UNCHANGED unsure

\* The mark fails and is only logged: the row is still due.
MarkError ==
    /\ "mark_error" \in Faults
    /\ rc \in {"mark_posted", "mark_failed"}
    /\ posts[cur] < PostBound
    /\ unsure' = unsure \cup InDoubt
    /\ UNCHANGED rowVars
    /\ RcNext

\* next_attempt_at passes.
BackoffElapses(r) ==
    /\ st[r] = "backoff"
    /\ st' = [st EXCEPT ![r] = "pending"]
    /\ UNCHANGED <<att, id, serveVars, recordVars, rcVars, hubVars>>

ReconcilerCrash ==
    /\ "reconciler_crash" \in Faults
    /\ rc # "idle"
    /\ cur # NoRow => posts[cur] < PostBound
    /\ unsure' = unsure \cup InDoubt
    /\ rc' = "idle" /\ cur' = NoRow /\ batch' = {}
    /\ UNCHANGED <<serveVars, rowVars, recordVars, posts, check, objs>>

\* Nothing of the task moves any more, and nothing of it is to be delivered:
\* the retention windows (days) are far longer than a run and its retries.
Over(t) == /\ status[t] \in {"succeeded", "failed", "cancelled"}
           /\ run[t] = "none" /\ pods[t] = 0 /\ sig[t] = "none"
           /\ fz[t] = "idle" /\ fh[t] = "idle"
           /\ \A k \in Kinds : st[<<t, k>>] \notin Unsettled

prune_outbox(t) ==
    /\ Over(t)
    /\ \E k \in Kinds : st[<<t, k>>] \in {"posted", "failed"}
    /\ st' = [r \in Rows |-> IF r[1] = t /\ st[r] \in {"posted", "failed"}
                             THEN "pruned" ELSE st[r]]
    /\ UNCHANGED <<att, id, serveVars, recordVars, rcVars, hubVars>>

Serve(t) ==
    \/ create(t) \/ Cancel(t) \/ resolve_cancelled_check_run(t)
    \/ finalize_review(t) \/ FinalizeFails(t)
    \/ handle_review_failure(t) \/ FailureHandlerDropped(t)

Dispatcher(t) ==
    \/ dispatch(t) \/ react_work_started(t) \/ start_check_run_signal(t)
    \/ SignalsDropped(t) \/ ReaperFails(t)

Runner(t) ==
    \/ ReportRunning(t) \/ perform_review(t) \/ ReviewRunFails(t) \/ RunFails(t)
    \/ PodDies(t) \/ ReportSucceeded(t) \/ ReportFailed(t)

ReconcilerStep(t, k) ==
    \/ deliver(t, k) \/ post(t, k) \/ PostFails(t, k) \/ record(t, k)
    \/ mark_outbox_posted(t, k) \/ mark_outbox_failed(t, k)

ReconcilerFault == MarkError \/ ReconcilerCrash

Next ==
    \/ \E t \in Tasks : Serve(t) \/ Dispatcher(t) \/ Runner(t) \/ prune_outbox(t)
    \/ claim_outbox_batch
    \/ \E t \in Tasks, k \in Kinds : ReconcilerStep(t, k)
    \/ ReconcilerFault
    \/ \E r \in Rows : BackoffElapses(r)

Spec == Init /\ [][Next]_vars

(***************************************************************************)
(* Fairness: the drain loop turns (its timer is a fallback for a missed    *)
(* notification) and the clock passes next_attempt_at.  The reconciler's   *)
(* own crashes and failing marks stop at some point (from then on a step   *)
(* that looks like one is an ordinary step with the same effect);          *)
(* deliveries may fail for ever.                                           *)
(***************************************************************************)
FairSpec ==
    /\ Spec
    /\ WF_vars(claim_outbox_batch \/ \E t \in Tasks, k \in Kinds : ReconcilerStep(t, k))
    /\ \A r \in Rows : WF_vars(BackoffElapses(r))
    /\ <>[][ReconcilerFault => \E t \in Tasks, k \in Kinds : ReconcilerStep(t, k)]_vars

-----------------------------------------------------------------------------
(* Properties.                                                             *)

\* The failure notice is an apology: it is never posted for a task whose
\* review or reply is on the pull request, however the finalize, the failure
\* report, the retries and the reconciler interleave.  (A review given up on
\* after an answer was lost is the one exception deliver makes.)
NoApologyOverContent ==
    [][\A t \in Tasks : posts'[<<t, "notice">>] > posts[<<t, "notice">>] =>
          \A k \in {"review", "reply"} :
              posts[<<t, k>>] = 0 \/ st[<<t, k>>] = "failed"]_vars

\* A finalize that answers 200 has left something to deliver: a review, a
\* reply or a verdict, on every path through the handler and every retry.
ContentKinds == {"review", "reply", "verdict"}
FinalizedLeavesIntent ==
    \A t \in Tasks : answered[t] => \E k \in ContentKinds : st[<<t, k>>] # "none"

\* A thumbs-up is never queued over a queued review with findings: the
\* silent-clean path of a retry, which sees a cleared buffer, is guarded.
NoThumbOverFindings ==
    [][\A t \in Tasks : verdict[t] # "+1" /\ verdict'[t] = "+1" =>
          Free(<<t, "review">>) \/ finding[t] = {}]_vars

\* What the cross-run dedup relies on: a delivered review is in the reviews
\* table, one that may be on the pull request already is still pending.
DeliveredIsKnown ==
    \A t \in Tasks : posts[<<t, "review">>] > 0 =>
        reviews[t] = "posted" \/ st[<<t, "review">>] \in Unsettled \cup {"failed", "pruned"}

\* An intent reaches the platform a second time only when the reconciler did
\* not learn, or could not store, that its last post went through: the answer
\* was lost, the mark failed or the process died before it.  Neither the
\* retries of refused posts, nor a producer that queues the intent again, nor
\* the pruning of settled rows repeats one.
RepostedWhenUnsure ==
    [][\A r \in Rows : posts'[r] > posts[r] => posts[r] = 0 \/ r \in unsure]_vars

\* Every intent is delivered or given up on.
IntentSettles == \A r \in Rows : st[r] \in Unsettled ~> st[r] \notin Unsettled

-----------------------------------------------------------------------------
(* What comments and documents say and the code does not do.               *)

Quiet == /\ \A r \in Rows : st[r] \notin Unsettled
         /\ \A t \in Tasks : status[t] = "absent" \/ Over(t)

\* queue/dispatcher.rs: a check is never opened without ever being resolved.
OpenedCheckResolved == Quiet => check.state # "in_progress"

\* http/internal.rs: no review posted means success, a posted one neutral.
CheckMatchesReview ==
    \A t \in Tasks : conclusion[t] = "success" => Free(<<t, "review">>)

\* queue/reconciler.rs: a review that cannot be delivered yields a notice.
FailureTold ==
    \A t \in Tasks : Over(t) /\ status[t] = "failed" /\ st[<<t, "review">>] = "failed"
        => posts[<<t, "notice">>] > 0 \/ st[<<t, "notice">>] = "failed"

\* http/internal.rs: the notice is for a review that never finalized.
NoticeOrReview ==
    \A t \in Tasks : posts[<<t, "notice">>] = 0 \/ posts[<<t, "review">>] = 0

\* http/internal.rs: a re-review does not post a finding again.
FindingPostedOnce ==
    \A t, u \in Tasks : t # u /\ posts[<<t, "review">>] > 0 /\ posts[<<u, "review">>] > 0
        => finding[t] \cap finding[u] = {}

\* queue/reconciler.rs: a row never re-claims unbounded.
DeliveriesBounded == \A r \in Rows : posts[r] <= OUTBOX_MAX_ATTEMPTS
=============================================================================
