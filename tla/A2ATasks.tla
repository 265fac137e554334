------------------------------ MODULE A2ATasks ------------------------------
(***************************************************************************)
(* The agent-to-agent and MCP faces of the service over the rows of        *)
(* `tasks`: submissions and their quotas (`a2a/handler/lifecycle.rs`,      *)
(* `mcp/tools.rs`), the handles a caller polls (`a2a/store.rs`), the       *)
(* append-only event log behind each handle (`a2a/events.rs`), streams     *)
(* that replay and tail it (`a2a/handler/streaming.rs`), cancellation,     *)
(* webhook registration and retention.                                     *)
(*                                                                         *)
(* Every SQL statement or transaction of a request is one step.  Runs are  *)
(* identified by their content key, so two submissions of the same head    *)
(* share a row.  The queue is TaskQueue; here a row is claimed, released,  *)
(* reported by its pod, cancelled by the rest of the service, and a failed *)
(* Job may be started again.                                               *)
(***************************************************************************)
EXTENDS Naturals, Sequences, FiniteSets

CONSTANTS
    Runs,           \* content keys (repository, pull request, words, head)
    Callers,        \* authenticated identities
    MaxHandles,     \* A2A tasks that may be created
    MaxRequests,    \* requests of one kind in flight at once
    MaxStreams,     \* streams that may be opened
    QuotaMax,       \* deep runs per identity and window
    StreamCap,      \* max_streams_per_caller
    HookCap,        \* push_config_cap
    Worlds          \* model bound: what callers and the environment may do

ASSUME A2ABounds ==
    {MaxHandles, MaxRequests, MaxStreams, QuotaMax, StreamCap, HookCap}
        \subseteq Nat \ {0}

Budget == [{"submits", "streams", "bad", "cancels", "outside", "retries", "releases", "mcps",
            "hooks", "faults", "sweeps"} -> Nat]

ASSUME A2AWorlds == Worlds \subseteq Budget

Handles  == 1 .. MaxHandles
Requests == 1 .. MaxRequests
Streams  == 1 .. MaxStreams
NoRun    == "no underlying run"
ASSUME NoRunIsNoRun == NoRun \notin Runs

Active   == {"queued", "running"}
Ended    == {"succeeded", "failed", "cancelled"}
Statuses == {"absent"} \cup Active \cup Ended

Terminal == {"COMPLETED", "FAILED", "CANCELED", "REJECTED"}
States   == Terminal \cup {"SUBMITTED", "WORKING"}
Event    == [state : States \cup {"ARTIFACT"}, final : BOOLEAN]

NoMapping == [caller |-> "nobody", run |-> NoRun, state |-> "SUBMITTED", version |-> 0]
NoRequest == [pc |-> "idle", h |-> 0, version |-> 0]
NoStream  == [pc |-> "idle", h |-> 0, seen |-> 0, terminal |-> FALSE]

VARIABLES
    left,           \* model bound on callers and environment
    status,         \* tasks.status by content key
    pod,            \* the run's pod: none, starting, working, failed, gone
    reviews,        \* runs whose review row is stored
    submission,     \* the SendMessage request behind each handle
    mapping,        \* a2a_tasks (version 0: no row)
    log,            \* a2a_task_events of each handle, in seq order
    lock,           \* tasks rows held FOR UPDATE, and by which request
    cancel,         \* CancelTask requests
    stream,         \* open streams
    slots,          \* StreamCounters: live streams by caller
    hook,           \* CreatePushConfig requests
    hooks,          \* a2a_push_configs of each handle
    mcp,            \* start_review requests
    advisory,       \* pg_advisory_xact_lock by caller
    deliveries,     \* webhook_deliveries named 'mcp.review', by caller
    old,            \* handles older than the retention period
    silent,         \* history: runs whose status moved without set_task_status
    reopened,       \* history: runs that left an end
    late,           \* history: handles mapped when their run had ended
    settled,        \* history: handles with a CancelTask that was answered
    lost            \* history: its best-effort writes that failed, by handle

runVars    == <<status, pod, reviews, silent, reopened>>
taskVars   == <<mapping, log, lock, submission, late>>
cancelVars == <<cancel, settled, lost>>
streamVars == <<stream, slots>>
quotaVars  == <<hook, hooks, mcp, advisory, deliveries>>
vars == <<left, runVars, taskVars, cancelVars, streamVars, quotaVars, old>>

PodStates  == {"none", "starting", "working", "failed", "gone"}
Submission == [pc : {"idle", "quota", "gate", "create", "map", "reject", "event", "done"},
               caller : Callers \cup {"nobody"}, run : Runs \cup {NoRun}]
Mapping    == [caller : Callers \cup {"nobody"}, run : Runs \cup {NoRun},
               state : States, version : Nat]
Cancel     == [pc : {"idle", "flip", "read", "update", "lock", "check", "append"},
               h : {0} \cup Handles, version : Nat]
Stream     == [pc : {"idle", "slot", "replay", "tail", "backstop", "drain", "closed", "cut"},
               h : {0} \cup Handles, seen : Nat, terminal : BOOLEAN]
Hook       == [pc : {"idle", "insert"}, h : {0} \cup Handles]
McpRequest == [pc : {"idle", "lock", "count", "insert", "create"},
               caller : Callers \cup {"nobody"}, run : Runs \cup {NoRun}]

TypeOK ==
    /\ left \in Budget
    /\ status \in [Runs -> Statuses]
    /\ pod \in [Runs -> PodStates]
    /\ reviews \subseteq Runs
    /\ submission \in [Handles -> Submission]
    /\ mapping \in [Handles -> Mapping]
    /\ log \in [Handles -> Seq(Event)]
    /\ lock \in [Runs -> {0} \cup Requests]
    /\ cancel \in [Requests -> Cancel]
    /\ stream \in [Streams -> Stream]
    /\ slots \in [Callers -> 0 .. StreamCap]
    /\ hook \in [Requests -> Hook]
    /\ hooks \in [Handles -> Nat]
    /\ mcp \in [Requests -> McpRequest]
    /\ advisory \in [Callers -> {0} \cup Requests]
    /\ deliveries \in [Callers -> Nat]
    /\ old \subseteq Handles /\ late \subseteq Handles /\ settled \subseteq Handles
    /\ lost \subseteq Handles \X {"snapshot", "event"}
    /\ silent \subseteq Runs /\ reopened \subseteq Runs

Init ==
    /\ left \in Worlds
    /\ status = [r \in Runs |-> "absent"]
    /\ pod = [r \in Runs |-> "none"]
    /\ reviews = {}
    /\ submission = [h \in Handles |-> [pc |-> "idle", caller |-> "nobody", run |-> NoRun]]
    /\ mapping = [h \in Handles |-> NoMapping]
    /\ log = [h \in Handles |-> <<>>]
    /\ lock = [r \in Runs |-> 0]
    /\ cancel = [q \in Requests |-> NoRequest]
    /\ stream = [s \in Streams |-> NoStream]
    /\ slots = [c \in Callers |-> 0]
    /\ hook = [q \in Requests |-> [pc |-> "idle", h |-> 0]]
    /\ hooks = [h \in Handles |-> 0]
    /\ mcp = [q \in Requests |-> [pc |-> "idle", caller |-> "nobody", run |-> NoRun]]
    /\ advisory = [c \in Callers |-> 0]
    /\ deliveries = [c \in Callers |-> 0]
    /\ old = {} /\ silent = {} /\ reopened = {} /\ late = {} /\ settled = {}
    /\ lost = {}

Spend(b) ==
    /\ left[b] > 0
    /\ left' = [left EXCEPT ![b] = @ - 1]

-----------------------------------------------------------------------------
(* Rows, states and the event log.                                         *)

task_state_from_status(s) ==
    CASE s = "queued"    -> "SUBMITTED"
      [] s = "running"   -> "WORKING"
      [] s = "succeeded" -> "COMPLETED"
      [] s = "failed"    -> "FAILED"
      [] s = "cancelled" -> "CANCELED"

Exists(h) == mapping[h].version > 0

\* What GetTask answers: live from the row, else the stored snapshot.
current_state(h) ==
    IF mapping[h].run = NoRun THEN mapping[h].state
    ELSE task_state_from_status(status[mapping[h].run])

has_final(h) == \E i \in DOMAIN log[h] : log[h][i].final

StatusEvent(s) == [state |-> s, final |-> s \in Terminal]

\* The handles fronting run r, by the mapping rows committed so far.
fronts(r) == {h \in Handles : Exists(h) /\ mapping[h].run = r}

\* Wrong variant, helper: the first of them.
fronts_first(r) ==
    {h \in fronts(r) : \A g \in fronts(r) : h <= g}

\* What a status transition appends to the log of one handle: nothing once the
\* log is final; on success the review first, when there is one.
TransitionEvents(h, r, state) ==
    IF has_final(h) THEN <<>>
    ELSE (IF state = "COMPLETED" /\ r \in reviews
          THEN <<[state |-> "ARTIFACT", final |-> FALSE]>> ELSE <<>>)
         \o <<StatusEvent(state)>>

\* Wrong variant: only the first handle of a run is served.
append_transition_events_first(r, s) ==
    log' = [h \in Handles |->
               IF h \in fronts_first(r)
               THEN log[h] \o TransitionEvents(h, r, task_state_from_status(s))
               ELSE log[h]]

append_transition_events(r, s) ==
    log' = [h \in Handles |->
               IF h \in fronts(r)
               THEN log[h] \o TransitionEvents(h, r, task_state_from_status(s))
               ELSE log[h]]

\* One transaction: the row is written whatever it held, which waits for a
\* FOR UPDATE holder, and the events are appended under the row lock.
set_task_status(r, s) ==
    /\ lock[r] = 0
    /\ status' = [status EXCEPT ![r] = s]
    /\ reopened' = IF status[r] \in Ended THEN reopened \cup {r} ELSE reopened
    /\ append_transition_events(r, s)

\* A statement on the row that appends no event; it waits for the lock too.
FlipSilently(r, s) ==
    /\ lock[r] = 0
    /\ status' = [status EXCEPT ![r] = s]
    /\ silent' = silent \cup {r}

-----------------------------------------------------------------------------
(* The run, its pod and the rest of the service.                           *)

runOthers == <<cancelVars, streamVars, quotaVars, old, mapping, lock, submission, late>>

\* Claiming stamps 'running' on the row without an event; the pod reports it.
claim(r) ==
    /\ status[r] = "queued" /\ pod[r] = "none" /\ lock[r] = 0
    /\ status' = [status EXCEPT ![r] = "running"]
    /\ pod' = [pod EXCEPT ![r] = "starting"]
    /\ UNCHANGED <<left, reviews, silent, reopened, log, runOthers>>

report_running(r) ==
    /\ pod[r] = "starting"
    /\ set_task_status(r, "running")
    /\ pod' = [pod EXCEPT ![r] = "working"]
    /\ UNCHANGED <<left, reviews, silent, runOthers>>

\* finalize_review stores the review; the report follows in its own request.
finalize_review(r) ==
    /\ pod[r] = "working" /\ r \notin reviews
    /\ reviews' = reviews \cup {r}
    /\ UNCHANGED <<left, status, pod, silent, reopened, log, runOthers>>

report_ended(r, s) ==
    /\ pod[r] = "working"
    /\ set_task_status(r, s)
    /\ pod' = [pod EXCEPT ![r] = IF s = "failed" THEN "failed" ELSE "gone"]
    /\ UNCHANGED <<left, reviews, silent, runOthers>>

\* The runner sees its row cancelled and leaves without a report.
self_cancel(r) ==
    /\ pod[r] = "working" /\ status[r] = "cancelled"
    /\ pod' = [pod EXCEPT ![r] = "gone"]
    /\ UNCHANGED <<left, status, reviews, silent, reopened, log, runOthers>>

\* Kubernetes runs a failed Job's pod once more.
job_retries(r) ==
    /\ pod[r] = "failed"
    /\ Spend("retries")
    /\ pod' = [pod EXCEPT ![r] = "starting"]
    /\ UNCHANGED <<status, reviews, silent, reopened, log, runOthers>>

\* The reaper gives a run whose pod vanished back to the queue.
release_task(r) ==
    /\ status[r] = "running" /\ pod[r] \in {"starting", "working"} /\ lock[r] = 0
    /\ Spend("releases")
    /\ status' = [status EXCEPT ![r] = "queued"]
    /\ pod' = [pod EXCEPT ![r] = "none"]
    /\ UNCHANGED <<reviews, silent, reopened, log, runOthers>>

\* A closed pull request, a newer head, a purge or an administrator.
cancel_elsewhere(r) ==
    /\ status[r] \in Active
    /\ Spend("outside")
    /\ FlipSilently(r, "cancelled")
    /\ UNCHANGED <<pod, reviews, reopened, log, runOthers>>

RunStep(r) ==
    \/ claim(r) \/ report_running(r) \/ finalize_review(r)
    \/ \E s \in {"succeeded", "failed"} : report_ended(r, s)
    \/ self_cancel(r) \/ job_retries(r) \/ release_task(r) \/ cancel_elsewhere(r)

-----------------------------------------------------------------------------
(* SendMessage: submit_review and reject.                                  *)

submitOthers == <<runVars, log, lock, cancelVars, streamVars, quotaVars, old>>

Goto(h, pc) == submission' = [submission EXCEPT ![h].pc = pc]

InFlight == {h \in Handles : submission[h].pc \notin {"idle", "done"}}

\* A caller sends a request; a malformed one is answered without a trace.  One
\* without the permission or a head commit is rejected ("bad").
send_message(h, c, r) ==
    /\ submission[h].pc = "idle" /\ \A g \in 1 .. h - 1 : submission[g].pc # "idle"
    /\ Cardinality(InFlight) < MaxRequests
    /\ \/ /\ Spend("submits")
          /\ submission' = [submission EXCEPT ![h] =
                               [pc |-> "quota", caller |-> c, run |-> r]]
       \/ /\ Spend("bad")
          /\ submission' = [submission EXCEPT ![h] =
                               [pc |-> "reject", caller |-> c, run |-> NoRun]]
    /\ UNCHANGED <<submitOthers, mapping, late>>

\* Submissions of a caller that were not rejected.
count_recent(c) ==
    Cardinality({h \in Handles : Exists(h) /\ mapping[h].caller = c
                                           /\ mapping[h].state # "REJECTED"})

QuotaBreached(c) == count_recent(c) >= QuotaMax

check_quota(h) ==
    /\ submission[h].pc = "quota"
    /\ IF QuotaBreached(submission[h].caller)
       THEN submission' = [submission EXCEPT ![h].pc = "reject", ![h].run = NoRun]
       ELSE Goto(h, "gate")
    /\ UNCHANGED <<left, submitOthers, mapping, late>>

\* The repository must be connected, approved and provisioned.
check_repository(h) ==
    /\ submission[h].pc = "gate"
    /\ \/ Goto(h, "create") /\ UNCHANGED left
       \/ /\ Spend("bad")
          /\ submission' = [submission EXCEPT ![h].pc = "reject", ![h].run = NoRun]
    /\ UNCHANGED <<submitOthers, mapping, late>>

\* create_task, or the existing row of the same content.
create_or_find(h) ==
    /\ submission[h].pc = "create"
    /\ status' = [status EXCEPT ![submission[h].run] =
                     IF @ = "absent" THEN "queued" ELSE @]
    /\ Goto(h, "map")
    /\ UNCHANGED <<left, pod, reviews, silent, reopened, log, lock, cancelVars, streamVars,
                   quotaVars, old, mapping, late>>

StoreCreate(h, state) ==
    mapping' = [mapping EXCEPT ![h] =
                   [caller |-> submission[h].caller, run |-> submission[h].run,
                    state |-> state, version |-> 1]]

persist_mapping(h) ==
    /\ submission[h].pc = "map"
    /\ StoreCreate(h, "SUBMITTED")
    /\ late' = IF status[submission[h].run] \in Ended THEN late \cup {h} ELSE late
    /\ Goto(h, "done")
    /\ UNCHANGED <<left, submitOthers>>

reject(h) ==
    /\ submission[h].pc = "reject"
    /\ StoreCreate(h, "REJECTED")
    /\ Goto(h, "event")
    /\ UNCHANGED <<left, submitOthers, late>>

\* append_terminal_status without a run: nothing to lock.
reject_event(h) ==
    /\ submission[h].pc = "event"
    /\ log' = IF has_final(h) THEN log
              ELSE [log EXCEPT ![h] = Append(@, StatusEvent("REJECTED"))]
    /\ Goto(h, "done")
    /\ UNCHANGED <<left, runVars, lock, cancelVars, streamVars, quotaVars, old, mapping, late>>

\* The request is dropped, or a statement of it fails: the rest is not done.
submission_fails(h) ==
    /\ h \in InFlight
    /\ Spend("faults")
    /\ Goto(h, "done")
    /\ UNCHANGED <<submitOthers, mapping, late>>

Submit(h) ==
    \/ \E c \in Callers, r \in Runs : send_message(h, c, r)
    \/ check_quota(h) \/ check_repository(h) \/ create_or_find(h) \/ persist_mapping(h)
    \/ reject(h) \/ reject_event(h) \/ submission_fails(h)

-----------------------------------------------------------------------------
(* CancelTask.                                                             *)

cancelOthers == <<pod, reviews, reopened, submission, late, lost, streamVars, quotaVars, old>>

CancelGoto(q, pc) == cancel' = [cancel EXCEPT ![q].pc = pc]

\* load_owned and current_state: a handle already at an end is not cancelable.
cancel_task(q, h) ==
    /\ cancel[q].pc = "idle"
    /\ Exists(h) /\ current_state(h) \notin Terminal
    /\ Spend("cancels")
    /\ cancel' = [cancel EXCEPT ![q] = [pc |-> "flip", h |-> h, version |-> 0]]
    /\ UNCHANGED <<cancelOthers, status, silent, mapping, log, lock, settled>>

cancel_task_by_id(q) ==
    LET r == mapping[cancel[q].h].run IN
    /\ cancel[q].pc = "flip"
    /\ CancelGoto(q, "read")
    /\ \/ status[r] \in Active /\ FlipSilently(r, "cancelled")
       \/ status[r] \notin Active /\ UNCHANGED <<status, silent>>
    /\ UNCHANGED <<left, cancelOthers, mapping, log, lock, settled>>

store_get(q) ==
    /\ cancel[q].pc = "read"
    /\ cancel' = [cancel EXCEPT ![q].pc = "update",
                                ![q].version = mapping[cancel[q].h].version]
    /\ UNCHANGED <<left, cancelOthers, status, silent, mapping, log, lock, settled>>

\* Wrong variant: a lost compare-and-swap ends the request.
AfterUpdate_winner_only(won) == IF won THEN "lock" ELSE "idle"

AfterUpdate(won) == "lock"

\* Compare-and-swap on the version; a lost race is not an error.
store_update(q) ==
    LET h == cancel[q].h
        won == mapping[h].version = cancel[q].version
    IN  /\ cancel[q].pc = "update"
        /\ mapping' = IF won THEN [mapping EXCEPT ![h].state = "CANCELED",
                                                  ![h].version = mapping[h].version + 1]
                      ELSE mapping
        /\ CancelGoto(q, AfterUpdate(won))
        /\ settled' = IF AfterUpdate(won) = "idle" THEN settled \cup {h} ELSE settled
        /\ UNCHANGED <<left, cancelOthers, status, silent, log, lock>>

\* Wrong variant: the row is not locked before the log is read.
lock_row_not(q) ==
    /\ cancel[q].pc = "lock"
    /\ CancelGoto(q, "check")
    /\ UNCHANGED <<left, cancelOthers, status, silent, mapping, log, lock, settled>>

\* append_terminal_status: SELECT ... FOR UPDATE, then has_final, then append.
lock_row(q) ==
    LET r == mapping[cancel[q].h].run IN
    /\ cancel[q].pc = "lock"
    /\ lock[r] = 0
    /\ lock' = [lock EXCEPT ![r] = q]
    /\ CancelGoto(q, "check")
    /\ UNCHANGED <<left, cancelOthers, status, silent, mapping, log, settled>>

Unlock(q) == lock' = [r \in Runs |-> IF lock[r] = q THEN 0 ELSE lock[r]]

check_final(q) ==
    /\ cancel[q].pc = "check"
    /\ IF has_final(cancel[q].h)
       THEN /\ cancel' = [cancel EXCEPT ![q] = NoRequest]
            /\ settled' = settled \cup {cancel[q].h}
            /\ Unlock(q)
       ELSE CancelGoto(q, "append") /\ UNCHANGED <<lock, settled>>
    /\ UNCHANGED <<left, cancelOthers, status, silent, mapping, log>>

append_canceled(q) ==
    /\ cancel[q].pc = "append"
    /\ log' = [log EXCEPT ![cancel[q].h] = Append(@, StatusEvent("CANCELED"))]
    /\ cancel' = [cancel EXCEPT ![q] = NoRequest]
    /\ settled' = settled \cup {cancel[q].h}
    /\ Unlock(q)
    /\ UNCHANGED <<left, cancelOthers, status, silent, mapping>>

\* The flip fails and the error is answered, or the request is dropped half way
\* and nothing is; the transaction, if any, rolls back.
cancel_fails(q) ==
    /\ cancel[q].pc # "idle"
    /\ Spend("faults")
    /\ cancel' = [cancel EXCEPT ![q] = NoRequest]
    /\ Unlock(q)
    /\ UNCHANGED <<cancelOthers, status, silent, mapping, log, settled>>

\* The snapshot and the final event are best effort: a get or an update that
\* fails is passed over, an append that fails is a warning, and the request is
\* answered CANCELED.
snapshot_fails(q) ==
    /\ cancel[q].pc \in {"read", "update"}
    /\ Spend("faults")
    /\ lost' = lost \cup {<<cancel[q].h, "snapshot">>}
    /\ CancelGoto(q, "lock")
    /\ UNCHANGED <<runVars, taskVars, settled, streamVars, quotaVars, old>>

append_fails(q) ==
    /\ cancel[q].pc \in {"lock", "check", "append"}
    /\ Spend("faults")
    /\ lost' = lost \cup {<<cancel[q].h, "event">>}
    /\ cancel' = [cancel EXCEPT ![q] = NoRequest]
    /\ settled' = settled \cup {cancel[q].h}
    /\ Unlock(q)
    /\ UNCHANGED <<runVars, mapping, log, submission, late, streamVars, quotaVars, old>>

Cancelling(q) ==
    \/ \E h \in Handles : cancel_task(q, h)
    \/ cancel_task_by_id(q) \/ store_get(q) \/ store_update(q)
    \/ lock_row(q) \/ check_final(q) \/ append_canceled(q) \/ cancel_fails(q)
    \/ snapshot_fails(q) \/ append_fails(q)

-----------------------------------------------------------------------------
(* Streams: snapshot, slot, replay, tail.                                  *)

streamOthers == <<runVars, taskVars, cancelVars, quotaVars, old>>

OpenStreams == {s \in Streams : stream[s].pc \notin {"idle", "slot", "closed", "cut"}}

CallerOf(s) == mapping[stream[s].h].caller

StreamGoto(s, pc) == stream' = [stream EXCEPT ![s].pc = pc] /\ UNCHANGED slots

\* load_owned and build_task_snapshot.
subscribe(s, h) ==
    /\ stream[s].pc = "idle" /\ \A t \in 1 .. s - 1 : stream[t].pc # "idle"
    /\ Exists(h)
    /\ Spend("streams")
    /\ stream' = [stream EXCEPT ![s] = [pc |-> "slot", h |-> h, seen |-> 0,
                                        terminal |-> current_state(h) \in Terminal]]
    /\ UNCHANGED <<slots, streamOthers>>

\* At the cap the subscription is refused.
try_acquire(s) ==
    LET c == CallerOf(s) IN
    /\ stream[s].pc = "slot"
    /\ IF slots[c] >= StreamCap THEN StreamGoto(s, "cut")
       ELSE /\ slots' = [slots EXCEPT ![c] = @ + 1]
            /\ stream' = [stream EXCEPT ![s].pc = "replay"]
    /\ UNCHANGED <<left, streamOthers>>

\* The guard gives the slot back when the generator ends, whichever way.
Released(s, pc) ==
    IF pc \in {"closed", "cut"} THEN [slots EXCEPT ![CallerOf(s)] = IF @ > 0 THEN @ - 1 ELSE 0]
    ELSE slots

Advance(s, pc, seen) ==
    /\ stream' = [stream EXCEPT ![s].pc = pc, ![s].seen = seen]
    /\ slots' = Released(s, pc)

\* fetch_events_after and emit: up to the first final event, where it closes.
Finals(s) == {i \in DOMAIN log[stream[s].h] : i > stream[s].seen /\ log[stream[s].h][i].final}
LastShown(s) == IF Finals(s) = {} THEN Len(log[stream[s].h])
                ELSE CHOOSE i \in Finals(s) : \A j \in Finals(s) : i <= j

Drain(s, next) == Advance(s, IF Finals(s) = {} THEN next ELSE "closed", LastShown(s))

replay(s) ==
    /\ stream[s].pc = "replay"
    /\ Drain(s, IF stream[s].terminal THEN "closed" ELSE "tail")
    /\ UNCHANGED <<left, streamOthers>>

tail_drain(s) ==
    /\ stream[s].pc = "tail"
    /\ Drain(s, "backstop")
    /\ UNCHANGED <<left, streamOthers>>

is_live_terminal(r) == r = NoRun \/ status[r] \in Ended

\* Wrong variant: the backstop closes without another drain.
backstop_closes(s) ==
    /\ stream[s].pc = "backstop"
    /\ IF is_live_terminal(mapping[stream[s].h].run)
       THEN Advance(s, "closed", stream[s].seen)
       ELSE StreamGoto(s, "tail")
    /\ UNCHANGED <<left, streamOthers>>

\* Wrong variant: no backstop: only a final event closes the tail.
backstop_none(s) ==
    /\ stream[s].pc = "backstop"
    /\ StreamGoto(s, "tail")
    /\ UNCHANGED <<left, streamOthers>>

\* A row at an end: one more drain, then close; else wait for a notification or
\* the fallback poll and look again.
backstop(s) ==
    /\ stream[s].pc = "backstop"
    /\ StreamGoto(s, IF is_live_terminal(mapping[stream[s].h].run) THEN "drain" ELSE "tail")
    /\ UNCHANGED <<left, streamOthers>>

final_drain(s) ==
    /\ stream[s].pc = "drain"
    /\ Drain(s, "closed")
    /\ UNCHANGED <<left, streamOthers>>

\* The client leaves, a query fails, or the stream is three hours old.
stream_cut(s) ==
    /\ s \in OpenStreams
    /\ Advance(s, "cut", stream[s].seen)
    /\ UNCHANGED <<left, streamOthers>>

StreamStep(s) ==
    try_acquire(s) \/ replay(s) \/ tail_drain(s) \/ backstop(s) \/ final_drain(s)

Streaming(s) ==
    \/ \E h \in Handles : subscribe(s, h)
    \/ StreamStep(s) \/ stream_cut(s)

-----------------------------------------------------------------------------
(* Webhook registration, the MCP face, retention.                          *)

hookOthers == <<runVars, taskVars, cancelVars, streamVars, mcp, advisory, deliveries, old>>

HookCapReached(h) == hooks[h] >= HookCap

\* load_owned, then the count; the insert comes after the address check.
create_push_config(q, h) ==
    /\ hook[q].pc = "idle" /\ Exists(h)
    /\ Spend("hooks")
    /\ ~HookCapReached(h)          \* else refused, nothing stored
    /\ hook' = [hook EXCEPT ![q] = [pc |-> "insert", h |-> h]]
    /\ UNCHANGED <<hooks, hookOthers>>

insert_push_config(q) ==
    /\ hook[q].pc = "insert"
    /\ hooks' = [hooks EXCEPT ![hook[q].h] = @ + 1]
    /\ hook' = [hook EXCEPT ![q] = [pc |-> "idle", h |-> 0]]
    /\ UNCHANGED <<left, hookOthers>>

delete_push_config(h) ==
    /\ hooks[h] > 0
    /\ Spend("hooks")
    /\ hooks' = [hooks EXCEPT ![h] = @ - 1]
    /\ UNCHANGED <<hook, hookOthers>>

Hooking ==
    \/ \E q \in Requests : \/ \E h \in Handles : create_push_config(q, h)
                           \/ insert_push_config(q)
    \/ \E h \in Handles : delete_push_config(h)

mcpOthers == <<pod, reviews, silent, reopened, taskVars, cancelVars, streamVars, hook, hooks, old>>

start_review(q, c, r) ==
    /\ mcp[q].pc = "idle"
    /\ Spend("mcps")
    /\ mcp' = [mcp EXCEPT ![q] = [pc |-> "lock", caller |-> c, run |-> r]]
    /\ UNCHANGED <<status, advisory, deliveries, mcpOthers>>

\* reserve_mcp_run_slot: an advisory lock held to the end of the transaction.
advisory_lock(q) ==
    /\ mcp[q].pc = "lock" /\ advisory[mcp[q].caller] = 0
    /\ advisory' = [advisory EXCEPT ![mcp[q].caller] = q]
    /\ mcp' = [mcp EXCEPT ![q].pc = "count"]
    /\ UNCHANGED <<left, status, deliveries, mcpOthers>>

McpDone(q) == mcp' = [mcp EXCEPT ![q] = [pc |-> "idle", caller |-> "nobody", run |-> NoRun]]
AdvisoryUnlock(q) == advisory' = [c \in Callers |-> IF advisory[c] = q THEN 0 ELSE advisory[c]]

mcp_count(q) ==
    /\ mcp[q].pc = "count"
    /\ IF deliveries[mcp[q].caller] >= QuotaMax
       THEN McpDone(q) /\ AdvisoryUnlock(q)
       ELSE mcp' = [mcp EXCEPT ![q].pc = "insert"] /\ UNCHANGED advisory
    /\ UNCHANGED <<left, status, deliveries, mcpOthers>>

mcp_insert(q) ==
    /\ mcp[q].pc = "insert"
    /\ deliveries' = [deliveries EXCEPT ![mcp[q].caller] = @ + 1]
    /\ mcp' = [mcp EXCEPT ![q].pc = "create"]
    /\ AdvisoryUnlock(q)
    /\ UNCHANGED <<left, status, mcpOthers>>

mcp_create(q) ==
    /\ mcp[q].pc = "create"
    /\ status' = [status EXCEPT ![mcp[q].run] = IF @ = "absent" THEN "queued" ELSE @]
    /\ McpDone(q)
    /\ UNCHANGED <<left, advisory, deliveries, mcpOthers>>

\* Dropped or failing; the transaction rolls back and the lock goes with it.
mcp_fails(q) ==
    /\ mcp[q].pc # "idle"
    /\ Spend("faults")
    /\ McpDone(q) /\ AdvisoryUnlock(q)
    /\ UNCHANGED <<status, deliveries, mcpOthers>>

Mcp(q) ==
    \/ \E c \in Callers, r \in Runs : start_review(q, c, r)
    \/ advisory_lock(q) \/ mcp_count(q) \/ mcp_insert(q) \/ mcp_create(q) \/ mcp_fails(q)

\* Days pass: no request or stream on the handle is still open.
Quiet(h) ==
    /\ \A q \in Requests : cancel[q].h # h /\ hook[q].h # h
    /\ \A s \in Streams : stream[s].pc \in {"idle", "closed", "cut"} \/ stream[s].h # h
    /\ submission[h].pc = "done"

age(h) ==
    /\ Exists(h) /\ h \notin old /\ Quiet(h)
    /\ Spend("sweeps")
    /\ old' = old \cup {h}
    /\ UNCHANGED <<runVars, taskVars, cancelVars, streamVars, quotaVars>>

\* Wrong variant: age alone decides.
Sweepable_by_age(h) == h \in old

Sweepable(h) ==
    h \in old /\ (has_final(h) \/ mapping[h].state \in Terminal)

\* Events and webhooks go with the mapping.
sweep_terminal_a2a_tasks(h) ==
    /\ Exists(h) /\ Sweepable(h) /\ Quiet(h)
    /\ mapping' = [mapping EXCEPT ![h] = NoMapping]
    /\ log' = [log EXCEPT ![h] = <<>>]
    /\ hooks' = [hooks EXCEPT ![h] = 0]
    /\ old' = old \ {h} /\ late' = late \ {h} /\ settled' = settled \ {h}
    /\ lost' = {w \in lost : w[1] # h}
    /\ stream' = [s \in Streams |-> IF stream[s].h = h THEN [stream[s] EXCEPT !.h = 0, !.pc = "cut"]
                                    ELSE stream[s]]
    /\ UNCHANGED <<left, runVars, lock, submission, cancel, slots, hook, mcp, advisory,
                   deliveries>>

Retention == \E h \in Handles : age(h) \/ sweep_terminal_a2a_tasks(h)

-----------------------------------------------------------------------------
Next ==
    \/ \E r \in Runs : RunStep(r)
    \/ \E h \in Handles : Submit(h)
    \/ \E q \in Requests : Cancelling(q) \/ Mcp(q)
    \/ \E s \in Streams : Streaming(s)
    \/ Hooking
    \/ Retention

Spec == Init /\ [][Next]_vars

\* A stream's generator is polled by its connection: it keeps taking steps.
FairSpec == Spec /\ \A s \in Streams : WF_vars(StreamStep(s))

-----------------------------------------------------------------------------
(* Properties.                                                             *)

\* The event log is frozen by its final event (events.rs: "never append after a
\* final event"), although reports, caller cancellations and rejections append
\* from different requests.
LogEndsAtFinal ==
    \A h \in Handles : \A i \in DOMAIN log[h] : log[h][i].final => i = Len(log[h])

\* Unless the row was moved by a statement that appends nothing or came back
\* from an end, every handle that was mapped in time has in its log the end a
\* poller sees.
ReportedReachesLog ==
    \A h \in Handles :
        (/\ Exists(h) /\ mapping[h].run # NoRun /\ h \notin late
         /\ status[mapping[h].run] \in Ended
         /\ mapping[h].run \notin silent \cup reopened)
            => /\ log[h] # <<>>
               /\ log[h][Len(log[h])] = StatusEvent(current_state(h))

\* A stream that closed by itself has shown the caller an end: in its snapshot
\* or as its last event.  Holds while nothing moves the row silently.
StreamShowsTheEnd ==
    \A s \in Streams :
        (stream[s].pc = "closed" /\ mapping[stream[s].h].run \notin silent)
            => \/ stream[s].terminal
               \/ /\ stream[s].seen \in DOMAIN log[stream[s].h]
                  /\ log[stream[s].h][stream[s].seen].final

\* An answered CancelTask leaves an end in the log of its handle, however many
\* cancellations, reports and lost compare-and-swaps it met; and when its append
\* failed, the stored snapshot is at an end, unless that write failed as well.
CancelLeavesAnEnd ==
    \A h \in settled :
        \/ has_final(h)
        \/ /\ <<h, "event">> \in lost
           /\ mapping[h].state \in Terminal \/ <<h, "snapshot">> \in lost

\* The slots of a caller are its live streams: none leaks, none is freed twice.
SlotsAreLiveStreams ==
    \A c \in Callers :
        slots[c] = Cardinality({s \in OpenStreams : CallerOf(s) = c})

\* MCP reservations never exceed the quota, whatever runs concurrently.
McpQuotaHolds == \A c \in Callers : deliveries[c] <= QuotaMax

\* The A2A quota and the webhook cap are read before the insert: they are
\* overrun by at most the other requests that were in flight.
OverrunIsBounded ==
    /\ \A c \in Callers : count_recent(c) <= QuotaMax + MaxRequests - 1
    /\ \A h \in Handles : hooks[h] <= HookCap + MaxRequests - 1

\* Retention removes no handle of a run that is still going, unless that run had
\* ended or had been cancelled before and came back.
SweepSparesLiveRuns ==
    [][\A h \in Handles :
          (Exists(h) /\ ~Exists(h)' /\ mapping[h].run # NoRun)
              => \/ status[mapping[h].run] \in Ended
                 \/ mapping[h].run \in silent \cup reopened]_vars

\* Once the run of a stream is at an end for good the stream is closed, events
\* or not.
StreamCloses ==
    \A s \in Streams :
        (<>[](stream[s].h # 0 => is_live_terminal(mapping[stream[s].h].run)))
            => <>[](stream[s].pc \in {"idle", "closed", "cut"})

-----------------------------------------------------------------------------
(* The inductive invariant behind them.                                    *)

\* A handle is mapped once, by its own submission, and has no log before; what
\* has no run was rejected.
HandleOK(h) ==
    /\ ~Exists(h) => log[h] = <<>> /\ h \notin late
    /\ submission[h].pc \in {"idle", "quota", "gate", "create", "map", "reject"} => ~Exists(h)
    /\ submission[h].pc \in {"quota", "gate", "create", "map"} => submission[h].run \in Runs
    /\ submission[h].pc = "map" => status[submission[h].run] # "absent"
    /\ submission[h].pc = "reject" => submission[h].run = NoRun
    /\ submission[h].pc = "event" => Exists(h) /\ mapping[h].run = NoRun
    /\ Exists(h) /\ mapping[h].run = NoRun => mapping[h].state = "REJECTED"
    /\ Exists(h) /\ mapping[h].run # NoRun => status[mapping[h].run] # "absent"

HandleLife == \A h \in Handles : HandleOK(h)

\* A CancelTask works on a handle with a run; from the check to the append it
\* holds the row, and what it checked stays true.  Past the snapshot the handle
\* is at an end, or the write was lost; a lost compare-and-swap was lost to
\* another cancellation.
CancelOK(q) ==
    cancel[q].pc # "idle" =>
        /\ cancel[q].h \in Handles /\ Exists(cancel[q].h)
        /\ mapping[cancel[q].h].run \in Runs
        /\ cancel[q].pc \in {"check", "append"} => lock[mapping[cancel[q].h].run] = q
        /\ cancel[q].pc = "append" => ~has_final(cancel[q].h)
        /\ cancel[q].pc = "update" /\ cancel[q].version # mapping[cancel[q].h].version
              => mapping[cancel[q].h].state \in Terminal
        /\ cancel[q].pc \in {"lock", "check", "append"}
              => \/ mapping[cancel[q].h].state \in Terminal
                 \/ <<cancel[q].h, "snapshot">> \in lost

CancelHolds == \A q \in Requests : CancelOK(q)

\* The row is at an end, or was moved silently, or came back from an end.
Excused(r) == status[r] \in Ended \/ r \in silent \cup reopened

\* Whatever makes a handle look finished has such a run behind it.
EndsAreExcused ==
    /\ \A h \in Handles :
          /\ Exists(h) /\ mapping[h].run # NoRun
          /\ has_final(h) \/ mapping[h].state \in Terminal \/ h \in late
          => Excused(mapping[h].run)
    /\ \A q \in Requests :
          cancel[q].pc \notin {"idle", "flip"} => Excused(mapping[cancel[q].h].run)

\* A stream follows a mapped handle and has shown no final event while it is
\* open; at an end it has seen one in its snapshot or finds one in the log.
StreamOK(s) ==
    LET h == stream[s].h
        r == mapping[h].run
    IN  /\ stream[s].pc \notin {"idle", "cut"} => h # 0
        /\ h # 0 => Exists(h) /\ (r = NoRun => stream[s].terminal)
        /\ h # 0 /\ r # NoRun /\ r \notin silent /\ (status[r] \in Ended \/ stream[s].pc = "drain")
              => has_final(h) \/ stream[s].terminal
        /\ stream[s].pc \in {"slot", "replay", "tail", "backstop", "drain"} =>
              /\ stream[s].seen <= Len(log[h])
              /\ \A i \in DOMAIN log[h] : log[h][i].final => i > stream[s].seen

StreamFollows == \A s \in Streams : StreamOK(s)

A2AInv == TypeOK /\ LogEndsAtFinal /\ HandleLife /\ CancelHolds /\ EndsAreExcused /\ StreamFollows

\* The advisory lock covers the count and the insert of an MCP reservation.
McpReserves ==
    \A q \in Requests :
        /\ mcp[q].pc # "idle" => mcp[q].caller \in Callers
        /\ mcp[q].pc \in {"count", "insert"} => advisory[mcp[q].caller] = q
        /\ mcp[q].pc = "insert" => deliveries[mcp[q].caller] < QuotaMax

-----------------------------------------------------------------------------
(* Claims of the code's comments that its behaviour contradicts.           *)

\* db/tasks.rs: "streaming and polling can never disagree".
PollAgreesWithLog ==
    \A h \in Handles :
        (has_final(h) /\ cancel = [q \in Requests |-> NoRequest])
            => log[h][Len(log[h])].state = current_state(h)

\* handler/streaming.rs: "the stream must close at the terminal state,
\* delivering it" -- also when the caller's own CancelTask ends the run.
StreamDeliversTheEnd ==
    \A s \in Streams :
        stream[s].pc = "closed"
            => \/ stream[s].terminal
               \/ /\ stream[s].seen \in DOMAIN log[stream[s].h]
                  /\ log[stream[s].h][stream[s].seen].final

\* a2a/handler/lifecycle.rs: "a noisy client cannot queue expensive deep runs
\* without bound"; store.rs calls the count a limit.
A2AQuotaHolds == \A c \in Callers : count_recent(c) <= QuotaMax

\* a2a/handler.rs: "a caller may hold at most push_config_cap ACTIVE webhooks".
PushCapHolds == \A h \in Handles : hooks[h] <= HookCap

\* events.rs: "an event exists for every transition a poller could observe" --
\* also for a submission that lands on a run that has already ended, whose
\* mapping retention then never recognises as finished.
EndedIsSweepable ==
    \A h \in Handles :
        (Exists(h) /\ current_state(h) \in Terminal /\ mapping[h].run \notin silent
                   /\ submission[h].pc = "done")
            => (has_final(h) \/ mapping[h].state \in Terminal)

=============================================================================
