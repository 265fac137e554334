# Lightbridge: TLA+ models, model checks and proofs

This directory is the verification development of Lightbridge Code
Intelligence. It models how events of a code platform become tasks, how review
and index tasks are queued, run and healed, how an agent run records and ends,
how a repository is indexed, how the results reach the pull request and what is
learnt from it, and how agents that use the A2A and MCP surfaces follow along.
`PROJECT.json` maps every definition to the lines it models and lists the runs,
the mutants that show each property can fail, the findings, the hazards and the
theorems.

## 1. The system

Lightbridge is one Rust control plane that runs in several roles, a Postgres
database (and a Neo4j graph) they share, and one Kubernetes Job per task.

| Role | What it does | State it keeps |
|---|---|---|
| serve | webhooks, internal API of the runners, admin API | none of its own; writes `webhook_deliveries`, `tasks`, `pending_review_actions`, `reviews`, `outbox`, the index |
| dispatcher | claims queued tasks, launches Jobs, reaps expired leases, runs the sweepers | a loop position; leases and `job_name` are in `tasks` |
| reconciler | the only writer to GitHub, GitLab and Bitbucket: drains `outbox`, polls reactions | a batch in memory |
| notifier | posts A2A events to webhooks | a claimed config and a local cursor |
| a2a, mcp | request surfaces for agents | `a2a_tasks`, `a2a_task_events`, `a2a_push_configs` |
| replay | expires durable steps | `durable_step` |
| agent-runner (the Job) | clones, indexes or reviews, reports its status, calls finalize | a pod, its loop and its recorder file; retried once by the Job controller |

No role holds a lock across a network call. All coordination is through
single SQL statements with guards, leases with an expiry, dedup keys, and
idempotent effects. So the hard behaviours are these:

* **interleavings** of statements of different roles on one row (a report, a
  cancel, the reaper and the dispatcher all write `tasks.status`), and of
  requests that each make several statements (two webhooks of one pull request,
  a submission and its quota, two administrators and a file);
* **crashes** between two statements, or between an external effect and the
  statement that records it (Job created but not recorded, review posted but
  not marked, webhook called but cursor not moved, tool applied but step not
  recorded);
* **retries** of what was already done: the Job controller starts a second pod
  (`backoffLimit: 1`), the reaper requeues, the outbox backs off, the runner
  calls finalize again, the platform delivers a webhook again;
* **stale copies**: the reaper acts on a list and a liveness it read earlier, a
  finalize on a buffer it loaded earlier, a notifier on its own cursor, a post
  on the diff of an older head;
* **liveness**: no run, waiting review, outbox row, event, stream or purge may
  be forgotten.

Components, their operations and their status are listed one by one in
`PROJECT.json` under `components`, and the places where the code is exposed
under `hazards`.

## 2. Modules

| Module | Models | Proofs | Instances |
|---|---|---|---|
| `TaskLifecycle` | what the queue promises: the abstract life of a task | in `TaskQueueProofs` | through `TaskQueue` |
| `TaskQueue` | `db/tasks.rs`, `queue/dispatcher.rs`, `queue/reaper.rs`, `integrations/k8s.rs`, the reports of `agent-runner/src/run.rs`, `create_index_task` | `TaskQueueProofs` | `MCTaskQueue` |
| `Intake` | `http/webhook.rs` for the three platforms, and the task statements its handlers use | `IntakeProofs` | `MCIntake` |
| `RepoIndex` | `db/code_chunks.rs`, `integrations/neo4j.rs`, the ingest endpoints of `http/internal.rs`, the indexer of the runner, `queue/lifecycle.rs`, `queue/index_sweeper.rs`, approval and denial | `RepoIndexProofs` | `MCRepoIndex` |
| `ReviewRun` | `agent-loop`, `review-agent` (tools, policies, OpenCode driver and recorder), `agent-runner/src/review`, `agent-clients/src/checkpoint.rs`, the durable-step and buffer endpoints | `ReviewRunProofs` | `MCReviewRun` |
| `Egress` | `finalize_review` and the failure handlers of `http/internal.rs`, `outbox.rs`, `db/outbox.rs`, `db/reviews.rs`, `db/pending_actions.rs`, `queue/reconciler.rs`, `queue/outbox_sweeper.rs`, the signals of the dispatcher | `EgressProofs` | `MCEgress` |
| `PlatformCalls` | `review.rs` (diff lines, anchors, dedup), the calls of `deliver_review` and of the three clients in `integrations/`, the reaction poll, `db/feedback.rs`, `set_preset` of `http/admin.rs` | `PlatformCallsProofs` | `MCPlatformCalls` |
| `A2ATasks` | `a2a/handler.rs` with lifecycle and streaming, `a2a/store.rs`, `a2a/events.rs`, the quota of `mcp/tools.rs`, retention | `A2ATasksProofs` | `MCA2ATasks` |
| `PushDelivery` | `queue/notifier.rs`, `db/push_notifications.rs`, the appends of `a2a/events.rs`, webhook registration in `a2a/handler.rs` | `PushDeliveryProofs` | `MCPushDelivery` |

How they meet. `Intake` produces the rows that `TaskQueue` runs; `ReviewRun` is
what happens inside the pod that `TaskQueue` has as one step; its buffer and
outcome are what `Egress` finalizes; `Egress` decides which intents exist, and
`PlatformCalls` takes one kind of them, the review, apart into the calls and
statements of its delivery. `A2ATasks` looks at the same rows through the event
log, and `PushDelivery` carries that log to webhooks. Where two modules share a
statement (`create_task`, `set_task_status`, the outbox marks), each keeps the
columns its properties are about.

Conventions. One SQL statement is one atomic step, and so is one call to
Kubernetes, a platform, a model or a webhook. A handler or loop that makes
several of them has a program counter, and may be interrupted between any two.
Actions carry the names of the functions they translate; steps that a function
makes inline have a name of their own. `TaskQueue`, `Egress` and `PushDelivery`
select by `Faults` which failures the environment may inject; the other modules
have a budget (`left`, or a record `world`) that `Init` chooses from a constant
set of worlds and every action of the environment spends. A world is one
situation to explore, so that a run may cover many without multiplying them.
The definitions introduced by "Wrong variant" are not part of any
specification: they are plausible bugs, and the mutants in `PROJECT.json` put
one in place of the real definition to show that a property notices.

### TaskLifecycle and TaskQueue

A row has `status`, `lease` (NULL, in the future, in the past), `attempts` and
`jobName`; the Job has a state, a failure count and at most one pod; a report
that is on the wire when its pod dies stays in `late` and may land at any later
time. A dispatcher is sequential: drain, launch, record or release, wait, and
on the reap tick the reaper's passes. The row it reads in `list_reapable_tasks`
is kept in `todo` and `cur`, with the `job_name` and `attempts` it had then.
`set_task_status` is unguarded, as in the code, and hands an index task that
ends over to `release_reviews_waiting_on_index`, which runs as a statement of
its own and may fail.

`TaskLifecycle` forgets leases, Job names, pods, listings and program counters.
A task is new, parked, ready, owned (a dispatch is accountable), loose (its
runner is at work and nobody is accountable) or over, and its run is absent,
live or done. The stage is read off status and lease, the run off the Job
(`Stage`, `Work`), and `ImplementsLifecycle` says that every step of the queue
is a step of that life or invisible in it. "Loose" is what an unguarded report
makes of the promise: a report that lands late may put a task that is over back
to work, but never back into the queue and never under a lease.

Abstractions: `run_after` is left out (a queued row may be claimed at any later
time, which covers every delay); rows of different repositories interact only
through the dispatcher; the pod's work is one step.

### Intake

One pull request of one repository. The platform sends events; requests run in
slots, may arrive in any order, be delivered again, and be dropped between any
two statements of their handler. Every early return of the three routers and of
the handlers is there: signature, foreign project, duplicate delivery, kinds
nobody handles, approval, drafts, bots, the two switches of the repository. The
three storm strategies (every push, debounce, supersede), the epochs of
explicit tasks with their unique-key retry, the readiness gate and the close of
the pull request act on the task rows. Left out: issue comments (they follow
the path of a mention on a pull request), the parsing of payloads. GitLab's
`merge` action is one of the updates that move no commit.

### RepoIndex

One repository, its default branch, index runs and a review. A snapshot is two
pages of graph and two batches of chunks, written one request at a time;
`indexed_sha` and the snapshot marker are written where the code writes them;
a chunk and a marker carry the time of their row (`created_at`,
`completed_at`), by which the code finds the newest.
A pod may die between any two, a page may fail and be discarded, the branch may
move. `record_indexed_commit` is best effort in the code: it may fail at every
page and batch, the handler answers 204 all the same, and `recorded` keeps which
attempts got one of theirs through. The purge of a denied repository (with its background task, which a
restart loses, and its reconcile pass) and the stale-index sweep run beside all
of that; each of its statements is tried, and one that fails is passed over with
a warning, as in the code (`purge_skips`).

### ReviewRun

One review run on either host. The OpenCode host is the one that runs today. The
native host is a retired path: `agent-runner/src/run.rs` (lines 520-552) routes
every review to OpenCode, and `agent-runner/src/review/mod.rs` (lines 1-7, 187,
237) keeps it for the tests of the gates and tools the two share, to be removed in
a follow-up. It is modelled because its code, its journal and its tests are still
in the repository; what is said below of turns,
replays and gaps, `GapsAreDisclosed` among it, is said of that path only. The
OpenCode host deliberately posts no note on gaps
(`agent-runner/src/review/opencode.rs`, lines 559-581). Native: turns, the tools on offer, the answer of
the model (a short script of tool calls, restricted to the tools on offer), the
reads of an answer as one step and its other calls as one step each, the three
quality gates (coverage, refutation, static analysis), the guard against loops,
the circuit breaker, wind-down, and the step journal. The journal has the names
of the code: an answer is filed under its turn (`llm_turn:{turn}`), a batch of
reads under its turn (`tools:{turn}`), any other call under its turn and its own
id (`tool:{turn}:{call_id}`). An id belongs to the answer it came with, so it is
modelled by the pod that asked and the place of the call. A pod that resumes is
served what is stored under the name of the step it is at; a row that is absent,
unreadable or swept makes the step run again. OpenCode: prompts, the child's
calls in flight, the recorder file with its cap and swallowed lines, and the
driver that rebuilds the run from it. A prompt is a finite script of calls and
need not come to its end: the child owes no step, the client awaits its answer
without a timeout (`acp-host/src/lib.rs`, `request`), no limit on steps holds in
the child (the test in `agent-runner/src/review/opencode.rs`, lines 1174-1318),
and it is the Job's `activeDeadlineSeconds` that ends it (`job_deadline`, at any
point of a run of either host). A run ended so posts nothing. What a child that
never finishes goes on calling beyond its script is not modelled. A scan buffers its findings itself, and
does not notice when the control plane refuses them. Both hosts end in the same
mapping of outcome to summary, buffer and finalize.

`faults` records what went wrong, so that a property can say under which mishaps
it holds, and `believed` what a reader of the conversation would expect to be
posted. Prompt texts, token counts and trimming are left out; citations of other
files in the text of a finding do not engage them.

### Egress

All tasks of an instance review one head commit of one pull request. A task has
a runner (working, in finalize, about to report), a buffer, and up to one
outbox row per kind of intent: review, reply, notice, verdict, confused, eyes,
start and resolve. `finalize_review` has one step per statement that reads or
writes shared state. The reconciler claims the due rows in order, rechecks
those that may have become stale, posts, records and marks. The platform keeps
how often each intent arrived and the latest check run. `unsure` records the
intents whose last post the reconciler did not learn of or could not store: its
answer was lost, its mark failed, or the process died in between.

Abstractions: a finding is a key; the two deletes that clear the buffer's
inline findings and summary are one step; the size limit of a batch is not
modelled (a batch is all due rows); retention is far longer than a run, so a
row is pruned only when its task is over; durable replay is off, which is the
default; `pr_open` is not modelled. `Tracked` lets an instance follow some
kinds of intent only.

### PlatformCalls

Several reviews of one pull request whose head moves. A patch is a sequence of
typed lines; `diff_lines`, `nearest_added_line` and `validate` compute from it
what the code computes, and `Accepts`, the platforms' own rule, is defined
apart from them by counting lines within a hunk, so that `AnchorsAccepted`
compares the algorithm with a reference. A patch begins with a hunk header, as
the platforms' own do. The dedup counts per key, as
`PostedFindings` does, over the stored reviews and the pending intents. A
delivery is one call on GitHub and one call per comment on the others; it may
be refused, lost, answered and lost, or interrupted; the stored copy, the
listing of comment ids and the labels follow as steps of their own. People
react, delete, comment and label at any time. The configuration file is read
and committed by two administrators beside an author, with each platform's
concurrency token.

Abstractions: normalisation of paths and titles is the identity of abstract
names; which of several findings with one key is suppressed, which depends on
the order they were recorded in, is left open; the clean pass and check runs are
in `Egress`; the first page of changed files is all of them; `finalize_review` is one
step (`Egress` has its lookup, its diff and its enqueue apart); the comments of a
delivery are stored all or none, where the code inserts them one by one and
without a transaction; a comment is
polled for ever (the code stops after a window of days); each administrator
sets a key of their own; nobody deletes the file.

### A2ATasks

Submissions with authorisation outcome, quota and mapping; two handles may
front one run. The event log is appended under the row lock by the status
endpoint, by a cancel and by a rejection, and is frozen by a final event. A
stream replays, tails and has a backstop on the row; a cancel is a
read, a compare-and-set, a write of the snapshot and an append; the last two are
best effort, and the caller is told `canceled` whichever of them was `lost`; webhooks have a cap, MCP runs a quota
under an advisory lock; the retention sweep removes what ended. `silent` and
`reopened` record runs that were moved by a statement that appends nothing, or
that came back from an end.

### PushDelivery

One A2A task: a log without gaps that is frozen by its final event, webhooks
with a cursor, an attempts counter, a due time and a lease, and workers that go
through claim, fetch, send, advance, release, bump and schedule. What the
webhook has received is kept as history. `lease_owner` is written by the code
and never read, so it is not modelled. Which due webhook a claim takes is left
open, which covers every claim order.

## 3. Runs

| Run | Instance | Shows |
|---|---|---|
| `queue_single` | one index task, one dispatcher, every fault, `MAX_ATTEMPTS` = 5, `backoffLimit` = 1 | `QueuedIsClean`, `LeasedRunNeverKilled`, the refinement `ImplementsLifecycle`; under fairness `LeasedRunEnds` |
| `queue_gate` | an index task and a review, crashes and API errors | `AttemptsBounded`; under fairness `WaitingReleased` |
| `intake` | one pull request, 3 heads, up to 3 requests at once, 60 worlds: strategies, platforms, switches, redeliveries, dropped requests, equal mentions, noise | `OneTaskPerDelivery`, `MentionLands`, `PushSparesMentions`, `NewestHeadReviewed`, `SupersededStops` |
| `repo_index` | two index tasks and a review, 2 heads, one retry, 4 worlds: denial and re-approval, failures, a moving branch, an on-demand index | `IndexRunMarksWhole`, `SweepKeepsAnIndex`; under fairness `DeniedIsPurged` |
| `review_run` | two changed files, 3 turns or 3 cycles, 2 attempts, 15 worlds over host, durable replay, entry, kind of model and mishaps; the deadline of the Job | `PostsWhatItRecorded`, `BlockingIsReverified`, `GapsAreDisclosed`, `FinishIsHeard`; under fairness `RunEnds` |
| `egress_retry` | one review with two pods, dropped handlers and dying pods | `FinalizedLeavesIntent`, `NoApologyOverContent`, `NoThumbOverFindings` |
| `egress_again` | a re-review of one commit after the first review, refused posts, lost answers, failing marks, reconciler crashes, cancels | `FindingPostedOnce`, `DeliveredIsKnown`, `RepostedWhenUnsure` |
| `egress_settles` | notice and check run, refused posts, crashes, failing statements | under fairness `IntentSettles` |
| `platform_post` | up to three reviews, three heads (one without patches), 17 worlds: platform, dedup scope, faults, reactions, configuration file | `NothingLost`, `SuppressedWasPosted`, `AnchorsAccepted`, `RejectedWasRejected`, `EditsSurvive`; under fairness `FeedbackFollows` |
| `a2a` | one run, one caller, 4 handles, 2 requests and 2 streams at once, quota 2, caps 1, 7 worlds | `LogEndsAtFinal`, `ReportedReachesLog`, `StreamShowsTheEnd`, `CancelLeavesAnEnd`, `SweepSparesLiveRuns`; under fairness `StreamCloses` |
| `push_stall` | one webhook, two workers, every fault, three events | `NothingSkipped`; under fairness `EventSettles` |
| `half_marked` | violation | a half-written commit is marked as indexed |

`CHECK_DEADLOCK FALSE` appears everywhere but in the queue: those systems
really may stop, once every request is answered, every run over and every row
or event settled. The queue never stops, its dispatcher keeps polling.

### What each property means for the code

The comment above each definition states it and names the functions it is
about; `hazards` in `PROJECT.json` ties it to the line that bites. A few of them
carry conditions, and those are part of the result:

* Where the strategy supersedes, `NewestHeadReviewed` and `SupersededStops`
  speak of pushes handled in their order and one after the other (`Serially`).
* `RepostedWhenUnsure` is what at-least-once delivery leaves of "posted once": a
  refused post, a second finalize or a pruned row repeats nothing, and whatever
  does is a post in doubt.
* `IndexRunMarksWhole` speaks of attempts that got one of their records through.
  If all of them fail, the success report marks whatever commit an earlier
  attempt had recorded, which may be half written: a second way into what
  `half_marked` shows.
* `CancelLeavesAnEnd`: an answered cancel leaves a final event, or a terminal
  snapshot if the event was lost. With both writes lost the handle looks alive,
  is never swept, and a stream on it is closed by its backstop.
* `RunEnds` owes the end of a child that never finishes to the deadline of the
  Job and to nothing else.
* `PostsWhatItRecorded` and `BlockingIsReverified` exclude the runs whose host
  did not see an effect (`SawItAll`): a call applied but unanswered, a turn lost
  with its answer, a recorder line swallowed.
* `SuppressedWasPosted` holds when the earlier reviews show each of their
  findings apart and none is counted twice; `RejectedWasRejected` on GitHub,
  when no comment was moved to a neighbouring line.
* `EditsSurvive` leaves out the first write of an absent file on GitLab, and
  Bitbucket, which has no concurrency token.

### Bounds

* One task is enough for what concerns a single row; the second one (an index
  and a review, a review and its re-review, two handles of one run) is there
  for the gate, for a reaper that goes through several rows, and for dedup. The
  theorems of section 4 hold for any number.
* `ClaimBound` is one more than `MaxAttempts`, so a claim too many can happen.
* `Pods = 2` is what `backoffLimit: 1` gives; `OUTBOX_MAX_ATTEMPTS = 2` lets a
  row fail, back off, fail again and be dead-lettered.
* `PostBound` stops redeliveries that a crash may cause for ever, after they
  have happened: it is 2 in `egress_again`, which is about them, and 1, one post
  whose repetition changes nothing, where no property counts posts; `IdBound` is never reached. `EventBound = 3` with
  `max_events_per_claim = 2` gives a claim that yields and another that
  catches up. `AttemptBound` stops a worker that dies between counting a
  failure and acting on it, after that has happened at least once.
* `ReReview` in `MCEgress` constrains `egress_again` to the case the code
  claims: the second review starts when the first is on the pull request.
* Intake: three heads let a push overtake the push before it; three mentions at
  once are one more than the two attempts `MaxAttempts` leaves
  `create_explicit_task`, so its unique-key retry can run out.
* RepoIndex: two pages and two batches are the least with an unfinished middle;
  two index tasks and one retry give a second index while the first comes back.
* ReviewRun: `MaxTurns = 3` has a first turn, one in the middle where gates can
  bounce, and the wind-down; `Breaker = 2`, `RecorderCap = 8` and two attempts
  are all reached.
* A2ATasks: caps of 1 and a quota of 2 are reached with the requests there are.
* PlatformCalls: `ClampMaxDelta = 1` has lines inside and outside of the window
  in patches of eight lines; two attempts give a review that is given up.

The budgets of the worlds (`left`, `world`) bound how often the environment
acts, and each world is chosen for the mishaps it combines; no run has an action
or a disjunct that never fires.

### Fairness

* TaskQueue: the dispatcher loop turns and pods and releases run (weak
  fairness); the reap tick wins against other wake-ups again and again (strong
  fairness on `list_reapable_tasks`: a tokio interval that has fired stays
  ready). Failures of the dispatcher's environment stop at some point.
  Nothing obliges anybody to create or cancel a task, or a pod to die.
* Egress: the drain loop turns and the clock runs. The platform may refuse for
  ever; crashes and failing statements stop at some point.
* PushDelivery: every worker's poll loop turns and the clock runs; crashes and
  failing statements stop at some point. Stalls and refusals may go on for ever.
* RepoIndex: the reconcile pass comes round, a purge that was started goes on
  and the index it waits for is created and runs (weak fairness); the delete in
  the graph store gets through if it is tried again and again (strong fairness
  on `purge_graph`: a failed attempt ends the purge and the next pass repeats
  it). Replicas lose their purges only as often as the world allows.
* A2ATasks: the task behind a stream is polled. Nobody is obliged to report an
  end: `StreamCloses` speaks of runs that have one.
* ReviewRun: the host takes its next step (weak fairness on every step outside
  of a cycle), or dies and is retried; its provider answers or fails, anything,
  for ever; turns and cycles bound that. The child of the OpenCode host owes
  nothing. While a cycle lasts, the only thing assumed is that the deadline of the
  Job comes.
* PlatformCalls: the reaction poll comes round. Nothing else is assumed.

"Stop at some point" is written `<>[][Fault => OrdinaryStep]_vars` and not
`<>[][~Fault]_vars`: a crash while a process is idle has the same effect as an
ordinary step (a dispatcher that dies while waiting starts draining again, as
after a wake-up), and forbidding the effect would also forbid that step and
leave hardly any fair behaviour to check.

### What the violation shows

`half_marked`. `record_indexed_commit` writes `indexed_sha` with the first
batch of a run, and the success report of any run inserts the snapshot of that
commit. A review of a repository without an index writes one on demand; if its
pod dies after one batch, the retry finds those chunks through the fallback of
`latest_indexed_commit`, takes the repository as indexed, writes nothing and
succeeds. The commit is then marked complete with half of its chunks. An index
run does not have the problem (`IndexRunMarksWhole`), because it always writes
everything before it reports.

### Edges of the passing properties

The following configurations are kept beside the runs. Each drops an assumption
of a run, or asks for what a comment says without its conditions, and ends in a
counterexample. They are not runs of `PROJECT.json`.

| Configuration | Property | What the code does |
|---|---|---|
| `MCTaskQueue_stranded` | `StrandedRunHealed` | the second pod of a failed Job makes the row active without a lease; if it dies, `list_reapable_tasks` never finds it |
| `MCTaskQueue_replicas` | `LeasedRunNeverKilled` | two dispatchers: one deletes the Job the other has just relaunched |
| `MCTaskQueue_waiting` | `WaitingReleased` | cancelling an index releases no review |
| `MCIntake_storm` | `NewestHeadReviewed` | two superseding pushes at once: both make their review, then each cancels the other's |
| `MCIntake_closed` | `ClosedStopsWork` | an opening or push whose request is handled after the close still makes a review |
| `MCIntake_dropped` | `MentionSurvivesDrop` | a request dropped after its delivery row is stored makes the redelivery a duplicate |
| `MCIntake_sync` | `PushIsReviewed` | GitHub's `synchronize` is answered without a review |
| `MCRepoIndex_reapproved` | `ReapprovedKeepsIndex` | the purge looks at the approval once, at its start, and deletes what a re-approval has indexed since |
| `MCReviewRun_gap` | `PostsItsOwn` | a turn that failed leaves a gap in the journal; a resumed run replays up to it, and what the first pod did after it stays in the buffer unknown to the host |
| `MCReviewRun_scan` | `PostsItsOwn` | a replayed `run_sast` pushes no leads, so the anchor gate of a resumed run accepts a finish that the first pod bounced, and what the first pod recorded after the bounce is posted. ADR-0087 (lines 54-55) has derived state re-derived from the replayed results |
| `MCReviewRun_undisclosed` | `GapsAreNamed` | OpenCode: unopened files are not named in the summary |
| `MCEgress_hanging` | `OpenedCheckResolved` | a review that ends in an error reports success without a finalize, and nobody resolves the check opened at dispatch |
| `MCEgress_mismatch` | `CheckMatchesReview` | a finalize that died after it queued the review is repeated, takes the clean path and resolves the check as a success |
| `MCPlatformCalls_given_up` | `NeverLost` | a later review suppresses a finding for an intent that is then dead-lettered |
| `MCPlatformCalls_twice` | `SuppressedDespiteTwice` | a review that is stored and still pending counts twice and suppresses a second finding of its key |
| `MCPlatformCalls_create` | `GitlabEditsSurvive` | the first write of an absent file has no token on GitLab and overwrites |
| `MCPlatformCalls_header` | `NearIsInline` | Bitbucket's raw diff: the `+++` header counts as an added line 0, and a finding near it is not anchored at the real added line |
| `MCA2ATasks_poll` | `PollAgreesWithLog` | a claimed run that was cancelled reports `running`: the row is active again, the log stays at `canceled` |
| `MCA2ATasks_late` | `EndedIsSweepable` | a run that ends between the creation of its task and the insert of the mapping never gets an end in that log |
| `MCA2ATasks_watch` | `StreamDeliversTheEnd` | a stream ends on its backstop before the end is in the log |
| `MCPushDelivery_reorder` | `InOrder` | a stalled worker does not look at whether its cursor write took effect and posts events again after later ones |

Further definitions state what a comment of the code says in full; TLC refutes
each of them when it is listed in a configuration: `CancelledIsFinal` (a pod's
first report overwrites `cancelled`), `OneIndexInFlight` (a failed index comes
back beside its replacement), `CancelledJobSwept` (with nothing to reap, the
sweep of cancelled Jobs is not reached), `A2AQuotaHolds` and `PushCapHolds` (the
quota of A2A runs and the cap of webhooks are read before the insert),
`FailureTold`, `NoticeOrReview` and
`DeliveriesBounded` in `Egress`; `GraphWholeOrAbsent`, `LeftoversAreFound` and
`HalfWrittenNeverServed` (a review searches the half-written commit that its
first pod left) in `RepoIndex`; `NewestHeadReviewed` with `Worlds <- Returned`;
`FinishedIsSummarised` and `AbortIsClean`, and `MajorsWereChecked` with
`Worlds <- LostTurn` (the turn after the bounce is lost to a model error and the
run finishes) in `ReviewRun`; `SuppressedDespiteCollapse`,
`RejectedDespiteClamp`, `RejectedAnywhere`, `FeedbackForgets` and
`LabelsSurvive` in `PlatformCalls`. Others hold and are kept as documentation:
`SlotsAreLiveStreams`, `OverrunIsBounded` (a cap is overrun by at most the
requests in flight), and six that are theorems: `McpQuotaHolds`,
`AbortPostsOnlyReason`, `CursorMonotone`, `LeaseDiscipline`, and `OneDeliverer` and `InOrder` while no worker stalls.

## 4. Theorems

All are about every value of the constants: any number of tasks, dispatchers,
findings, webhooks, workers and events, any bounds. The assumptions are the
named ASSUMEs of the modules, and the hypotheses stated here.

**TaskQueueProofs.** `TypeCorrect`. `LeaseSafety`: `LeaseDiscipline` under
every fault and with any number of dispatchers. `CleanQueue` and
`NoLeasedRunKilled`: `QueuedIsClean` and `LeasedRunNeverKilled` with one
dispatcher, which is how it is deployed; two dispatchers break the second (see
above). The inductive invariant `IInv` adds to the types and the lease
discipline that a task in hand or with a recorded Job has left the queue
(`HandsStarted`, `NamedStarted`), that a Job the reaper has judged dead stays
dead until it has acted (`DeadStayDead`), and that a row listed for the sweep
takes no lease before its turn (`SweptUnleased`). The last two are needed
because the reaper acts on what it read before. `DispatchesBounded`:
`AttemptsBounded` with one dispatcher whose launches succeed, under every other
fault. Its invariant `Budget` says that what the reaper has listed carries the
row's current `attempts` (`ListIsCurrent`) and that a row in the queue or on its
way back to it has an attempt left.

Also in `TaskQueueProofs`, `QueueImplementsLifecycle`: with one dispatcher, the
queue implements `TaskLifecycle` under the mapping `Stage`, `Work`. The
invariant `RefInv` adds to `IInv` that a task whose row was touched by a runner
or a dispatcher has been created (`TouchedStarted`) and that a pod belongs to a
Job (`PodHasJob`). `StageAt` and `WorkAt` say how one changed row changes the
mapping, one lemma per kind of step (`ToldByStatus`, `EndsByJob`, `EndsByPod`,
`GiveUpByRelease`, `LaunchByCreate`, `RemoveByDelete`) finds the abstract step it
maps to, and `LifecycleStep` goes through the actions. `DeadStayDead` and
`SweptUnleased` are what makes every deletion of a Job a step that removes no
live run of an owned task.

**EgressProofs.** The producers of intents (serve, dispatcher, runner) are
first shown to do to the shared state only what `Produces` allows: insert one
row under a free key. The reconciler's steps are then treated one by one.
`OutboxInvariant`, under every fault: types, the claimed row is unsettled, what
was posted has a row, a pruned row's task is over. On top of it:

* `EgressTypeCorrect`;
* `ApologySafety`: `NoApologyOverContent` if statements do not fail, because
  the recheck treats a failed lookup as "nothing there". The invariant
  `NoticeFresh` carries the recheck to the post;
* `DeliverySafety`: `RepostedWhenUnsure` under every fault. The invariant
  `PostedIsHeld` says that an intent that was posted is settled or still in the
  reconciler's hand, unless its post is in doubt;
* `DedupSafety`: `DeliveredIsKnown` if statements do not fail
  (`MarkedIsRecorded`);
* `FinalizeSafety`: `FinalizedLeavesIntent` under every fault, if review, reply
  and verdict are tracked (`DecidedLeavesIntent`);
* `ThumbSafety`: `NoThumbOverFindings` if lookups do not fail and no other
  review of the commit has posted findings (`NothingToRetract`: otherwise a
  retry may retract those over its own queued findings). `SilentIsFree` carries
  the guard of the silent path from its check to the thumb, and says that a run
  on the other path was not clean, whatever pods and retries did in between;
* `RereviewSafety`: `FindingPostedOnce` if lookups do not fail and a later task
  is created when each earlier review with findings is in the reviews table or
  on its way and no other one is about to be queued (`EarlierKnown`). Two runs
  that overlap dedup against each other's absence; that is the case the
  hypothesis excludes. `FindingsApart` says that what a later finalize keeps
  leaves out every earlier payload. The constraint `ReReview` of `egress_again`
  is a special case of `EarlierKnown`.

**PushDeliveryProofs.**

* `PushTypeCorrect`;
* `CursorNeverRewinds`: `CursorMonotone` under every fault;
* `NoEventSkipped`: `NothingSkipped` under every fault. The invariant
  `LocalCovered` says that the webhook has everything up to each worker's local
  cursor: that is why even a stale worker cannot lose an event;
* `LeaseExclusion`: `OneDeliverer` if nobody stalls past its lease. The
  invariant `LeaseProtects` ties every worker at work to a live lease;
* `OrderedDelivery`: `InOrder` under the same hypothesis. `LocalIsExact` and
  `HookTrails` say that local cursor and row agree and that the webhook is at
  most one event ahead.

**A2ATasksProofs.** The inductive invariant `A2AInv` says what a handle is at
each point between its submission and its sweep (`HandleLife`), what a cancel in
flight holds (`CancelHolds`: from its check to its append it has the row lock, so
what it checked stays true, and what its best-effort writes did not store is on
record as lost), that whatever makes a handle look finished has a run behind it
that ended, was moved silently or came back from an end
(`EndsAreExcused`), and that an open stream has shown no final event of the log
it follows (`StreamFollows`).

* `A2AInvariant`, and from it `A2ATypes`, `LogsEndAtFinal`, `ReportsReachLogs`,
  `StreamsShowTheEnd`, `CancelsLeaveAnEnd` and `SweepsSpareLiveRuns`, each the
  property of that name, for any number of runs, handles, requests and streams;
* `McpQuota`, the property `McpQuotaHolds`: a caller never has more active MCP runs than the quota,
  because the count and the insert happen under one advisory lock
  (`McpReserves`). The same count without the lock is what lets A2A runs
  overrun theirs.

**IntakeProofs.** `IntakeInv` says what a request in a slot has established at
each statement (`RequestOK`), that one delivery identifier has one request past
its record (`OneRequest`), what a task row owes to the event it came from and
who may cancel it (`TaskOK`), that the epochs of explicit tasks are taken without
gaps and that each refused attempt of `create_explicit_task` found one more of
them taken (`Reached`, `TaskEpochOK`, `RequestEpochOK`), and that a recorded
delivery is on its way or has its task (`Handled`). From it follow
`DeliveriesMakeOneTask`, `MentionsLand` and `PushesSpareMentions`, and
`NewestHeadsReviewed` for the strategies that cancel nothing (every push,
debounce).

Where a push supersedes, requests that overtake each other cancel the newer
review (`MCIntake_storm`), and so does a commit that is put back (`Returned`).
`Serially` names what excludes both: one request at a time, events in their
order, no forced push back, and not both a request lost before its record and
a redelivery. `SerialInv` then adds that heads rise along the events
(`HeadsRise`), that the request past its record handles the last delivery
received (`InOrder`, with `OnRecord` for redeliveries), that an automatic review
has the head its delivery announced and is cancelled for a newer one only
(`ReviewsHead`), and that a handled push leaves only reviews of its own head or
above (`Superseded`). From it `SupersededReviewsStop` and `NewestHeadsKept`: the
conjunction `Spec /\ Serially` starts where `Serially` holds, and the proof
shows that it stays. TLC checks `SerialInv` with `Worlds <- Orderly`.

**PlatformCallsProofs.** `PlatformInv` keeps apart what is known of payloads and
kept findings (`ShapeOK`, `FoundIsKept`), of a delivery in progress
(`DeliveryOK`), of the comments on the page (`CommentsOK`), of the stored
reactions (`FeedbackOK`) and of the configuration file (`EditorOK`).

* `NothingIsLost` and `HiddenWasShown`: a finding that the dedup drops was held
  by the rows it looked at, as often as it drops it. The argument counts: a
  review that shows as many items as it kept findings shows each of them apart.
* `RejectionsWereMade`, from `WorldSet`: a run has one finding per file and line
  (the unique index `pending_review_inline_uniq` of migration 0012).
* `AnchorsAreAccepted`: for every patch that begins with a hunk header, the
  lines `diff_lines` reads as added are among those a count within the hunk has
  as added. By induction on the lines read: the running number of `diff_lines` is
  the number of the hunk plus the lines shown since (`ReadingCounts`).
* `CommittedEditsSurvive`: a guarded write carries the revision it read, and a
  write that is taken has read the newest.

**RepoIndexProofs.** `IndexInv`: what an index run is past is written, unless a
purge or a sweep has taken it since, and the commit it will mark is the one it
wrote if one of its records got through (`RunWrites`); between its statements a sweep leaves a row of the commits it
keeps or one in its grace (`SweepSpares`).

* `IndexRunsMarkWhole`: a commit is marked by an index run whose record of it got
  through only when all its batches are stored, for any number of tasks and commits, under crashes, retries
  and failing requests;
* `SweepsKeepAnIndex`: a sweep never deletes the last index of a repository. It
  keeps the newest commit, and that there is a newest one is an induction over
  the stamps of the rows.

**ReviewRunProofs.** For every set of files, every model (any set of scripts),
any limits, any number of pods and any budget of mishaps. `Inv` says which turn
or cycle a run may be in (`TurnsLeft`, `HostPlaces`); that no row of the journal
is ahead of the pod that wrote it (`Dated`); that a turn has one stored answer,
and the answer in hand is the stored one whenever pod and turn agree
(`OneAnswer`); and that a stored finish belongs to a finish in every answer its
id could be matched with (`FinishRows`), so that a replay cannot turn another
call into one (`HonestResults`). On these rest

* `ReviewInvariant` and `ReviewTypes`;
* `GapsDisclosed`: `GapsAreDisclosed`, whatever was replayed or swept. A finish
  that ends the loop carries a verdict, so the coverage gate has something to
  amend (`FinishHasVerdict`), and from then on nothing but the amended summary is
  written (`Disclosed`);
* `FinishesAreHeard`: `FinishIsHeard`. A call that has begun has its line in the
  recorder unless an append was swallowed (`Overheard`); below its cap a read
  shows every line (`UncappedRead`); so a finish is counted, and a prompt that
  follows it says which gate bounced it;
* `AbortsPostOnlyReasons`: `AbortPostsOnlyReason`, by the order of the two calls
  that clear and explain (`Aborted`).

What a resumed run remembers is a statement about the history of the run, and
`Memory` makes a state predicate of it, by which the two strongest properties of
a review run are proved:

* `ReviewMemory`. Native host: a run under the journal is a chain of places of
  the loop (`Chain`), its links the rows of the journal (`Remembered`). A place is
  the turn, the gates, what the conversation says so far and what is left of the
  answer; a stored step has one row (`OneRow`), so from a place under the journal
  there is one way on. Every pod walks along the chain from its start, and only
  a pod at its end does anything new. The plane shows what the end of the chain
  believes, or that and the one call that was applied before its row could be
  written; that call is the first the next pod makes, with the same id, so it is
  an upsert. OpenCode host: there is no journal and a new pod wipes the plane.
  Within a cycle the plane shows what the host believed and the results of the
  calls that took effect so far (`Applied`, `Followed`); when the cycle ends, what
  the recorder says is `Applied`, so the host believes what the plane shows.
* `PostsWhatWasRecorded`: `PostsWhatItRecorded`. At the end of the run the pod
  stands at the end of the chain (`Agreed`).
* `BlockingReverified`: `BlockingIsReverified`. Every blocking finding the host
  believes is one the refute gate counts (`Watched`); a finish it let through was
  bounced before or has none; after a bounce the tools are forced until a turn
  with the read tools has been answered (`Rechecked`).

Both carry the hypothesis of the property that the host saw every effect
(`SawItAll`). `Died` and `refused` are allowed there one at a time: with both, a
call that died before its row can be refused when it is made again, and the
plane keeps what the conversation says was refused.

Induction. A step of the form "for every n" is proved from the fact that a
non-empty set of naturals has a least element (`LeastNatural`), which follows
from the library's well-foundedness of `<` on the naturals. A recursive function
is first shown to exist (`RecursionExists`) and then to be the one the
definition chooses.

Sequences. The SMT encoding of this version of the prover takes `Len` to be
defined on every function and to agree with the domain in both directions,
which contradicts itself once a function on `0 .. N` is in sight. The few leaves
that mention `Len` or `Seq` are kept apart from such functions, and each of them
was solved a second time with the sound direction of that axiom alone. That is
also why `RepoIndex` and `diff_lines` are proved about functions and not
sequences.

The type theorems and invariants, `LeaseSafety`, `CursorNeverRewinds`,
`LeaseExclusion`, `OrderedDelivery` and the quota theorem have no run of their
own: they hold for every instance.

Only model-checked:

* the liveness properties `LeasedRunEnds`, `WaitingReleased`, `IntentSettles`,
  `EventSettles`, `DeniedIsPurged`, `StreamCloses`, `RunEnds` and
  `FeedbackFollows`, which need fairness.

Every safety property of a passing run is stated by a theorem. The theorems that
have a hypothesis name it above; outside of it nothing is claimed.

## 5. What is not modelled, and the plan

Not modelled, with the reason for each in `PROJECT.json`: configuration, model
lists, presets as data, tokens, cryptography and address checks (they compare
values and keep no protocol state); prompts, rendering of comments, token
counts and context trimming (data that no property tells apart); analytics and
listings (read-only); the `lci` client and the dashboard (presentation of the
HTTP API); probes, build and deployment files. Most of the lines no definition
maps are of these kinds or are tests that stand beside the code they test.
Left out of modelled components: issue comments as a path of their own; the
implement flow with its `pr_open` intent; the retry and rate-limit schedule of
the clients (every call may fail at any time instead); the extraction of
symbols from source text and the scanners.

Models that could be added: the implement flow with its branch, and the
schedule of the rate limiter.
