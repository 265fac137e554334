---------------------------- MODULE PushDelivery ----------------------------
(***************************************************************************)
(* Push notifications of one A2A task.  The task's event log is the queue; *)
(* each push config (a webhook) has a cursor into it.  Workers of the      *)
(* notifier role claim a due config under a lease, post the events past    *)
(* the cursor one by one, and advance, back off or disable the config.     *)
(*                                                                         *)
(* Every SQL statement and every POST is one atomic step.  lease_owner is  *)
(* written by the code and never read, so it is not modelled; which due    *)
(* config a claim takes is left open, which covers every claim order.      *)
(***************************************************************************)
EXTENDS Naturals, FiniteSets

CONSTANTS
    Configs,                \* config_ids that may be created
    Workers,                \* notifier replicas
    max_attempts,           \* NotifierConfig::max_attempts
    max_events_per_claim,   \* NotifierConfig::max_events_per_claim
    push_config_cap,        \* active configs a caller may have on a task
    Faults,                 \* which failures the environment may inject
    NoConfig,               \* "no config in hand"
    EventBound,             \* model bound on the length of the event log
    AttemptBound            \* model bound: failures lost between bump and schedule

\* "stall" is a worker that sits on a step for longer than its lease.
AllFaults == {"crash", "db_error", "refused", "lost_answer", "stall", "delete"}

ASSUME ConfigsAssumption == IsFiniteSet(Configs) /\ NoConfig \notin Configs
ASSUME BoundsAssumption ==
    /\ max_attempts \in Nat \ {0}
    /\ max_events_per_claim \in Nat \ {0}
    /\ push_config_cap \in Nat
    /\ EventBound \in Nat
    /\ AttemptBound \in Nat
ASSUME FaultsAssumption == Faults \subseteq AllFaults

\* "checked" is a create request between the cap check and the insert.
State == {"absent", "checked", "active", "disabled", "deleted"}
Lease == {"none", "held", "expired"}
PC    == {"idle", "fetch", "send", "advance", "release", "bump", "schedule"}

VARIABLES
    last,       \* highest seq of a2a_task_events
    final,      \* a final event exists: the log is frozen
    swept,      \* the task, its events and its configs are deleted
    state,      \* a2a_push_configs.state
    cursor,     \* delivered_seq
    attempts,   \* consecutive failures
    due,        \* next_attempt_at <= now()
    lease,      \* lease_expires_at
    pc, mine,   \* per worker: position, config in hand,
    seen, tally,\*   local delivered_seq, delivered_this_claim,
    tries,      \*   the attempts that bump returned
    got,        \* history: the seqs the webhook has received
    latest      \* history: the seq of the POST it received last

logVars    == <<last, final, swept>>
rowVars    == <<state, cursor, attempts, due, lease>>
workerVars == <<pc, mine, seen, tally, tries>>
hookVars   == <<got, latest>>
vars       == <<logVars, rowVars, workerVars, hookVars>>

TypeOK ==
    /\ last \in Nat /\ final \in BOOLEAN /\ swept \in BOOLEAN
    /\ state \in [Configs -> State]
    /\ cursor \in [Configs -> Nat]
    /\ attempts \in [Configs -> Nat]
    /\ due \in [Configs -> BOOLEAN]
    /\ lease \in [Configs -> Lease]
    /\ pc \in [Workers -> PC]
    /\ mine \in [Workers -> Configs \cup {NoConfig}]
    /\ seen \in [Workers -> Nat]
    /\ tally \in [Workers -> Nat]
    /\ tries \in [Workers -> Nat]
    /\ got \in [Configs -> SUBSET Nat]
    /\ latest \in [Configs -> Nat]

Init ==
    /\ last = 0 /\ final = FALSE /\ swept = FALSE
    /\ state = [c \in Configs |-> "absent"]
    /\ cursor = [c \in Configs |-> 0]
    /\ attempts = [c \in Configs |-> 0]
    /\ due = [c \in Configs |-> TRUE]
    /\ lease = [c \in Configs |-> "none"]
    /\ pc = [w \in Workers |-> "idle"]
    /\ mine = [w \in Workers |-> NoConfig]
    /\ seen = [w \in Workers |-> 0]
    /\ tally = [w \in Workers |-> 0]
    /\ tries = [w \in Workers |-> 0]
    /\ got = [c \in Configs |-> {}]
    /\ latest = [c \in Configs |-> 0]

-----------------------------------------------------------------------------
(* The event log (a2a/events.rs): seq is MAX(seq) + 1, and has_final stops *)
(* every append once a final event exists.                                 *)

append_event(n) ==
    /\ ~final
    /\ ~swept
    /\ last + n <= EventBound
    /\ last' = last + n

\* A status report: one status update, after the artifact if the status is
\* `succeeded` and the review is stored; a terminal status is final.
append_transition_events ==
    /\ \/ append_event(1) /\ final' \in BOOLEAN
       \/ append_event(2) /\ final' = TRUE
    /\ UNCHANGED <<swept, rowVars, workerVars, hookVars>>

\* A rejected submission or a cancel by the caller.
append_terminal_status ==
    /\ append_event(1)
    /\ final' = TRUE
    /\ UNCHANGED <<swept, rowVars, workerVars, hookVars>>

\* Retention: the terminal task goes, events and configs with it.
sweep_terminal_a2a_tasks ==
    /\ final
    /\ ~swept
    /\ swept' = TRUE
    /\ state' = [c \in Configs |->
                    IF state[c] \in {"active", "disabled"} THEN "deleted" ELSE state[c]]
    /\ UNCHANGED <<last, final, cursor, attempts, due, lease, workerVars, hookVars>>

-----------------------------------------------------------------------------
(* Registration (a2a/handler.rs).  All configs are of one caller.          *)

SetState(c, s) ==
    /\ state' = [state EXCEPT ![c] = s]
    /\ UNCHANGED <<logVars, cursor, attempts, due, lease, workerVars, hookVars>>

\* The cap is compared with a count, the row is inserted later.
count_active_push_configs(c) ==
    /\ state[c] = "absent"
    /\ ~swept
    /\ Cardinality({d \in Configs : state[d] = "active"}) < push_config_cap
    /\ SetState(c, "checked")

insert_push_config(c) ==
    /\ state[c] = "checked"
    /\ ~swept
    /\ SetState(c, "active")

\* The URL is refused, the token cannot be stored, or the insert fails.
CreateFails(c) ==
    /\ state[c] = "checked"
    /\ SetState(c, "absent")

delete_push_config(c) ==
    /\ "delete" \in Faults
    /\ state[c] \in {"active", "disabled"}
    /\ SetState(c, "deleted")

-----------------------------------------------------------------------------
(* The notifier (queue/notifier.rs, db/push_notifications.rs).             *)

Goto(w, l) == pc' = [pc EXCEPT ![w] = l]
Exists(c)  == state[c] \in {"active", "disabled"}
Delivers(w, c) == pc[w] # "idle" /\ mine[w] = c

\* deliver_claimed returns.
Done(w) ==
    /\ pc' = [pc EXCEPT ![w] = "idle"]
    /\ mine' = [mine EXCEPT ![w] = NoConfig]
    /\ seen' = [seen EXCEPT ![w] = 0]
    /\ tally' = [tally EXCEPT ![w] = 0]
    /\ tries' = [tries EXCEPT ![w] = 0]

\* A worker takes config c, its local cursor starting at seq n.
Take(w, c, n) ==
    /\ Goto(w, "fetch")
    /\ mine' = [mine EXCEPT ![w] = c]
    /\ seen' = [seen EXCEPT ![w] = n]
    /\ lease' = [lease EXCEPT ![c] = "held"]
    /\ UNCHANGED <<tally, tries, logVars, state, cursor, attempts, due, hookVars>>

claim_next_push_config(w, c) ==
    /\ pc[w] = "idle"
    /\ state[c] = "active" /\ due[c] /\ cursor[c] < last
    /\ lease[c] # "held"
    /\ Take(w, c, cursor[c])

\* The lowest seq past the local cursor; the log has no gaps.
next_push_event(w) ==
    /\ pc[w] = "fetch"
    /\ Goto(w, IF ~swept /\ seen[w] < last THEN "send" ELSE "release")
    /\ UNCHANGED <<mine, seen, tally, tries, logVars, rowVars, hookVars>>

\* The webhook receives event n of config c.
Receive(c, n) ==
    /\ got' = [got EXCEPT ![c] = @ \cup {n}]
    /\ latest' = [latest EXCEPT ![c] = n]

PostSucceeds(w) ==
    /\ pc[w] = "send"
    /\ Receive(mine[w], seen[w] + 1)
    /\ Goto(w, "advance")
    /\ UNCHANGED <<mine, seen, tally, tries, logVars, rowVars>>

\* Wrong variant: the answer of the webhook is not looked at.
PostFails_unnoticed(w) ==
    /\ pc[w] = "send"
    /\ "refused" \in Faults
    /\ Goto(w, "advance")
    /\ UNCHANGED <<mine, seen, tally, tries, logVars, rowVars, hookVars>>

\* The address is refused, the token cannot be decrypted, the webhook is
\* unreachable or answers an error; or it took the event and timed out.
PostFails(w) ==
    /\ pc[w] = "send"
    /\ \/ "refused" \in Faults /\ UNCHANGED hookVars
       \/ "lost_answer" \in Faults /\ Receive(mine[w], seen[w] + 1)
    /\ Goto(w, "bump")
    /\ UNCHANGED <<mine, seen, tally, tries, logVars, rowVars>>

\* The local cursor moves on whether or not the row did.
Advanced(w) ==
    /\ seen' = [seen EXCEPT ![w] = @ + 1]
    /\ tally' = [tally EXCEPT ![w] = @ + 1]
    /\ Goto(w, IF tally[w] + 1 >= max_events_per_claim THEN "release" ELSE "fetch")
    /\ UNCHANGED <<mine, tries, logVars, state, hookVars>>

\* The row moves to seq n, its failures are forgotten and the lease renewed.
AdvanceRow(c, n) ==
    /\ cursor' = [cursor EXCEPT ![c] = n]
    /\ attempts' = [attempts EXCEPT ![c] = 0]
    /\ due' = [due EXCEPT ![c] = TRUE]
    /\ lease' = [lease EXCEPT ![c] = "held"]

advance_push_delivered(w) ==
    /\ pc[w] = "advance"
    /\ IF Exists(mine[w]) /\ cursor[mine[w]] < seen[w] + 1
       THEN AdvanceRow(mine[w], seen[w] + 1)
       ELSE UNCHANGED <<cursor, attempts, due, lease>>
    /\ Advanced(w)

\* Caught up, or yielding to other configs.  Whose lease it is by now is not
\* looked at.
release_push_config(w) ==
    /\ pc[w] = "release"
    /\ lease' = [lease EXCEPT ![mine[w]] = IF Exists(mine[w]) THEN "none" ELSE @]
    /\ Done(w)
    /\ UNCHANGED <<logVars, state, cursor, attempts, due, hookVars>>

bump_push_attempts(w) ==
    /\ pc[w] = "bump"
    /\ Exists(mine[w])
    /\ attempts' = [attempts EXCEPT ![mine[w]] = @ + 1]
    /\ tries' = [tries EXCEPT ![w] = attempts[mine[w]] + 1]
    /\ Goto(w, "schedule")
    /\ UNCHANGED <<mine, seen, tally, logVars, state, cursor, due, lease, hookVars>>

\* The row has been deleted meanwhile: nothing to count, the attempt ends.
BumpFindsNoRow(w) ==
    /\ pc[w] = "bump"
    /\ ~Exists(mine[w])
    /\ Done(w)
    /\ UNCHANGED <<logVars, rowVars, hookVars>>

\* Wrong variant: every retry starts counting anew.
schedule_forgetting_failures(w) ==
    /\ pc[w] = "schedule"
    /\ IF Exists(mine[w])
       THEN /\ attempts' = [attempts EXCEPT ![mine[w]] = 0]
            /\ due' = [due EXCEPT ![mine[w]] = FALSE]
            /\ lease' = [lease EXCEPT ![mine[w]] = "none"]
            /\ state' = [state EXCEPT ![mine[w]] =
                            IF tries[w] >= max_attempts THEN "disabled" ELSE @]
       ELSE UNCHANGED <<state, attempts, due, lease>>
    /\ Done(w)
    /\ UNCHANGED <<logVars, cursor, hookVars>>

schedule_push_retry(w) ==
    /\ pc[w] = "schedule"
    /\ IF Exists(mine[w])
       THEN /\ due' = [due EXCEPT ![mine[w]] = FALSE]
            /\ lease' = [lease EXCEPT ![mine[w]] = "none"]
            /\ state' = [state EXCEPT ![mine[w]] =
                            IF tries[w] >= max_attempts THEN "disabled" ELSE @]
       ELSE UNCHANGED <<state, due, lease>>
    /\ Done(w)
    /\ UNCHANGED <<logVars, cursor, attempts, hookVars>>

\* A failure that has been counted and is not acted upon stays in attempts;
\* only this makes them grow past max_attempts.
MayGiveUp(w) == pc[w] = "schedule" => attempts[mine[w]] < AttemptBound

\* A statement fails: logged, the lease will expire.
StatementFails(w) ==
    /\ "db_error" \in Faults
    /\ pc[w] \notin {"idle", "send"} /\ MayGiveUp(w)
    /\ Done(w)
    /\ UNCHANGED <<logVars, rowVars, hookVars>>

\* The process dies between two steps and is restarted.
Crash(w) ==
    /\ "crash" \in Faults
    /\ pc[w] # "idle" /\ MayGiveUp(w)
    /\ Done(w)
    /\ UNCHANGED <<logVars, rowVars, hookVars>>

\* The clock passes lease_expires_at.  Unless it stalls, a worker is faster:
\* a POST takes at most 20 seconds, every success renews the 60 of the lease.
LeaseExpires(c) ==
    /\ lease[c] = "held"
    /\ "stall" \in Faults \/ \A w \in Workers : ~Delivers(w, c)
    /\ lease' = [lease EXCEPT ![c] = "expired"]
    /\ UNCHANGED <<logVars, state, cursor, attempts, due, workerVars, hookVars>>

\* The clock passes next_attempt_at.
BackoffElapses(c) ==
    /\ ~due[c]
    /\ due' = [due EXCEPT ![c] = TRUE]
    /\ UNCHANGED <<logVars, state, cursor, attempts, lease, workerVars, hookVars>>

deliver_claimed(w) ==
    \/ next_push_event(w) \/ PostSucceeds(w) \/ PostFails(w)
    \/ advance_push_delivered(w) \/ release_push_config(w)
    \/ bump_push_attempts(w) \/ BumpFindsNoRow(w) \/ schedule_push_retry(w)

deliver_next_due(w) ==
    \/ \E c \in Configs : claim_next_push_config(w, c)
    \/ deliver_claimed(w)

EventLog == append_transition_events \/ append_terminal_status \/ sweep_terminal_a2a_tasks

Registration(c) ==
    \/ count_active_push_configs(c) \/ insert_push_config(c)
    \/ CreateFails(c) \/ delete_push_config(c)

Clock(c) == LeaseExpires(c) \/ BackoffElapses(c)

Next ==
    \/ EventLog
    \/ \E c \in Configs : Registration(c) \/ Clock(c)
    \/ \E w \in Workers : deliver_next_due(w) \/ StatementFails(w) \/ Crash(w)

Spec == Init /\ [][Next]_vars

(***************************************************************************)
(* Fairness.  The poll loop of every worker keeps turning and the clock    *)
(* keeps running; crashes and failing statements stop at some point: from  *)
(* then on a step with the effect of one is also an ordinary step.  The    *)
(* webhook may refuse for ever.                                            *)
(***************************************************************************)
FairSpec ==
    /\ Spec
    /\ \A w \in Workers : WF_vars(deliver_next_due(w))
    /\ \A c \in Configs : WF_vars(Clock(c))
    /\ <>[][\A w \in Workers :
              StatementFails(w) \/ Crash(w) => deliver_next_due(w)]_vars

-----------------------------------------------------------------------------
(* Properties.                                                             *)

\* At least once, and in order the first time: the cursor never passes an
\* event the webhook has not received, and no event reaches it before every
\* earlier one has, whatever workers crash, stall or work from stale copies.
NothingSkipped ==
    \A c \in Configs :
        /\ 1..cursor[c] \subseteq got[c]
        /\ \A n \in got[c] : 1..n \subseteq got[c]

\* The cursor never moves back, although a worker whose lease has expired may
\* write after the one that took over from it.
CursorMonotone == [][\A c \in Configs : cursor'[c] >= cursor[c]]_vars

\* While no worker outlives its lease, one worker at a time delivers a config.
OneDeliverer ==
    \A c \in Configs : \A v, w \in Workers : Delivers(v, c) /\ Delivers(w, c) => v = w

\* The webhook sees the events in order; a redelivery repeats the last event,
\* it never goes further back.
InOrder == [][\A c \in Configs : latest'[c] >= latest[c]]_vars

\* What makes NothingSkipped inductive: a worker at work has a config in
\* hand that was inserted, the webhook has everything up to the worker's local
\* cursor, and the event after it as soon as the POST has succeeded.
InHand ==
    \A w \in Workers : pc[w] # "idle" =>
        mine[w] \in Configs /\ state[mine[w]] \notin {"absent", "checked"}
LocalCovered ==
    \A w \in Workers : pc[w] # "idle" =>
        /\ 1..seen[w] \subseteq got[mine[w]]
        /\ pc[w] = "advance" => seen[w] + 1 \in got[mine[w]]

\* What makes OneDeliverer and InOrder inductive when nobody stalls: a config
\* in hand is leased, its worker's local cursor is the row's, and the webhook
\* is at most one event ahead of either.
LeaseProtects == \A c \in Configs : (\E w \in Workers : Delivers(w, c)) => lease[c] = "held"
LocalIsExact ==
    \A w \in Workers, c \in Configs : Delivers(w, c) =>
        /\ latest[c] <= seen[w] + 1
        /\ state[c] # "deleted" => cursor[c] = seen[w]
HookTrails == \A c \in Configs : state[c] # "deleted" => latest[c] <= cursor[c] + 1

\* Every event logged for an active config is delivered, or the config ends
\* up disabled or deleted.
EventSettles ==
    \A c \in Configs : \A n \in 1..EventBound :
        (state[c] = "active" /\ n <= last /\ cursor[c] < n)
            ~> (cursor[c] >= n \/ state[c] # "active")
=============================================================================
