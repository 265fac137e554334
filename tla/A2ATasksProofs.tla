--------------------------- MODULE A2ATasksProofs ---------------------------
(***************************************************************************)
(* Proofs about A2ATasks, for any number of runs, callers, handles,        *)
(* requests and streams.                                                   *)
(*                                                                         *)
(* A2AInv is the inductive invariant.  Its conjuncts lean on each other:   *)
(* a log ends at its final event because a cancellation that is about to   *)
(* append holds the row and has seen no final event (CancelHolds), which   *)
(* stays true because a handle keeps the run it was mapped to (HandleLife).*)
(* A final event or a terminal snapshot stands for a run that is at an     *)
(* end, was moved silently or came back (EndsAreExcused), and an excuse is *)
(* for good (ExcusedStable); that carries retention and the reports.       *)
(*                                                                         *)
(* The steps of one variable are summed up once (MappingSteps, LogSteps,   *)
(* StatusSteps, CancelSteps, StreamSteps, ...) and the invariants follow   *)
(* from those sums.                                                        *)
(***************************************************************************)
EXTENDS A2ATasks, SequenceTheorems, TLAPS

-----------------------------------------------------------------------------
(* Types.                                                                  *)

\* What the handlers append are events.
LEMMA EventTypes ==
    /\ \A st \in States : StatusEvent(st) \in Event
    /\ [state |-> "ARTIFACT", final |-> FALSE] \in Event
<1>1. ASSUME NEW st \in States
      PROVE  StatusEvent(st) \in Event
  <2>1. (st \in Terminal) \in BOOLEAN
    OBVIOUS
  <2>2. \A b \in BOOLEAN : [state |-> st, final |-> b] \in Event
    BY DEF Event
  <2>. QED
    BY <2>1, <2>2, Zenon DEF StatusEvent
<1>. QED
  BY <1>1 DEF Event

\* The wire state of a status is terminal exactly when the status is an end.
LEMMA StateTypes ==
    ASSUME NEW s \in Active \cup Ended
    PROVE  /\ task_state_from_status(s) \in States
           /\ task_state_from_status(s) \in Terminal <=> s \in Ended
  BY DEF task_state_from_status, Active, Ended, States, Terminal

\* What a transition appends is a sequence of events.
LEMMA TransitionTypes ==
    ASSUME NEW h \in Handles, NEW r, NEW st \in States
    PROVE  TransitionEvents(h, r, st) \in Seq(Event)
<1>1. <<>> \in Seq(Event) /\ <<StatusEvent(st)>> \in Seq(Event)
  BY EventTypes
<1>2. <<[state |-> "ARTIFACT", final |-> FALSE]>> \in Seq(Event)
  BY EventTypes
<1>3. (IF st = "COMPLETED" /\ r \in reviews
          THEN <<[state |-> "ARTIFACT", final |-> FALSE]>> ELSE <<>>) \in Seq(Event)
  BY <1>1, <1>2
<1>. QED
  BY <1>1, <1>3, ConcatProperties DEF TransitionEvents

\* A transition keeps the logs logs.
LEMMA AppendTypes ==
    ASSUME log \in [Handles -> Seq(Event)], NEW r, NEW s \in Active \cup Ended,
           append_transition_events(r, s)
    PROVE  log' \in [Handles -> Seq(Event)]
<1>1. \A h \in Handles : log[h] \o TransitionEvents(h, r, task_state_from_status(s)) \in Seq(Event)
  BY TransitionTypes, StateTypes, ConcatProperties
<1>. QED
  BY <1>1 DEF append_transition_events

\* Draining shows a position of the log: the final event when there is one ahead.
LEMMA DrainTypes ==
    ASSUME A2AInv, NEW s \in Streams, stream[s].pc \notin {"idle", "cut"}
    PROVE  /\ log[stream[s].h] \in Seq(Event)
           /\ LastShown(s) \in Nat
           /\ Finals(s) # {} => LastShown(s) \in Finals(s)
<1>1. stream[s].h \in Handles
  BY DEF A2AInv, StreamFollows, StreamOK, TypeOK, Stream
<1>2. log[stream[s].h] \in Seq(Event)
  BY <1>1 DEF A2AInv, TypeOK
<1>3. \A i, j \in Finals(s) : i = j
  BY <1>1 DEF A2AInv, LogEndsAtFinal, Finals
<1>4. Finals(s) \subseteq Nat
  BY <1>2 DEF Finals
<1>5. ASSUME Finals(s) # {}
      PROVE  LastShown(s) \in Finals(s)
  <2>1. PICK i \in Finals(s) : TRUE
    BY <1>5
  <2>2. \A j \in Finals(s) : i <= j
    BY <1>3, <1>4
  <2>. QED
    BY <1>5, <2>2 DEF LastShown
<1>. QED
  BY <1>2, <1>4, <1>5 DEF LastShown
\* Counting up keeps a function of naturals.
LEMMA CountUp ==
    ASSUME NEW S, NEW f \in [S -> Nat], NEW c
    PROVE  [f EXCEPT ![c] = @ + 1] \in [S -> Nat]
<1>1. CASE c \in S
  BY <1>1
<1>2. CASE c \notin S
  BY <1>2
<1>. QED
  BY <1>1, <1>2

\* Giving a slot back keeps the counters within the cap.
LEMMA ReleasedTypes ==
    ASSUME slots \in [Callers -> 0 .. StreamCap], NEW s, NEW pc
    PROVE  Released(s, pc) \in [Callers -> 0 .. StreamCap]
<1>1. \A c \in Callers : (IF slots[c] > 0 THEN slots[c] - 1 ELSE 0) \in 0 .. StreamCap
  BY A2ABounds
<1>2. CASE CallerOf(s) \in Callers
  BY <1>1, <1>2 DEF Released
<1>3. CASE CallerOf(s) \notin Callers
  BY <1>3 DEF Released
<1>. QED
  BY <1>2, <1>3

\* The compare-and-swap of CancelTask keeps the row a row.
LEMMA MarkTypes ==
    ASSUME NEW m \in Mapping
    PROVE  [m EXCEPT !.state = "CANCELED", !.version = m.version + 1] \in Mapping
<1>1. "CANCELED" \in States /\ m.version + 1 \in Nat
  BY DEF Mapping, States, Terminal
<1>2. \A st \in States, v \in Nat : [m EXCEPT !.state = st, !.version = v] \in Mapping
  BY DEF Mapping
<1>. QED
  BY <1>1, <1>2

\* Moving a stream on keeps streams and counters typed.
LEMMA AdvanceTypes ==
    ASSUME stream \in [Streams -> Stream], slots \in [Callers -> 0 .. StreamCap],
           NEW s \in Streams, NEW pc \in {"tail", "backstop", "closed", "cut"}, NEW seen \in Nat,
           Advance(s, pc, seen)
    PROVE  /\ stream' \in [Streams -> Stream]
           /\ slots' \in [Callers -> 0 .. StreamCap]
<1>1. [stream[s] EXCEPT !.pc = pc, !.seen = seen] \in Stream
  BY DEF Stream
<1>2. stream' = [stream EXCEPT ![s] = [stream[s] EXCEPT !.pc = pc, !.seen = seen]]
  BY DEF Advance, Stream
<1>3. slots' \in [Callers -> 0 .. StreamCap]
  BY ReleasedTypes DEF Advance
<1>. QED
  BY <1>1, <1>2, <1>3

\* Every step keeps TypeOK: one step per action, one fact per variable it changes.
LEMMA StepTypes ==
    ASSUME A2AInv, [Next]_vars
    PROVE  TypeOK'
<1>. USE DEF vars, runVars, taskVars, cancelVars, streamVars,
   quotaVars, runOthers, submitOthers, cancelOthers, streamOthers, hookOthers, mcpOthers
<1>left. left \in Budget
  BY DEF A2AInv, TypeOK
<1>status. status \in [Runs -> Statuses]
  BY DEF A2AInv, TypeOK
<1>pod. pod \in [Runs -> PodStates]
  BY DEF A2AInv, TypeOK
<1>reviews. reviews \subseteq Runs
  BY DEF A2AInv, TypeOK
<1>submission. submission \in [Handles -> Submission]
  BY DEF A2AInv, TypeOK
<1>mapping. mapping \in [Handles -> Mapping]
  BY DEF A2AInv, TypeOK
<1>log. log \in [Handles -> Seq(Event)]
  BY DEF A2AInv, TypeOK
<1>lock. lock \in [Runs -> {0} \cup Requests]
  BY DEF A2AInv, TypeOK
<1>cancel. cancel \in [Requests -> Cancel]
  BY DEF A2AInv, TypeOK
<1>stream. stream \in [Streams -> Stream]
  BY DEF A2AInv, TypeOK
<1>slots. slots \in [Callers -> 0 .. StreamCap]
  BY DEF A2AInv, TypeOK
<1>hook. hook \in [Requests -> Hook]
  BY DEF A2AInv, TypeOK
<1>hooks. hooks \in [Handles -> Nat]
  BY DEF A2AInv, TypeOK
<1>mcp. mcp \in [Requests -> McpRequest]
  BY DEF A2AInv, TypeOK
<1>advisory. advisory \in [Callers -> {0} \cup Requests]
  BY DEF A2AInv, TypeOK
<1>deliveries. deliveries \in [Callers -> Nat]
  BY DEF A2AInv, TypeOK
<1>old. old \subseteq Handles
  BY DEF A2AInv, TypeOK
<1>late. late \subseteq Handles
  BY DEF A2AInv, TypeOK
<1>settled. settled \subseteq Handles
  BY DEF A2AInv, TypeOK
<1>lost. lost \subseteq Handles \X {"snapshot", "event"}
  BY DEF A2AInv, TypeOK
<1>silent. silent \subseteq Runs
  BY DEF A2AInv, TypeOK
<1>reopened. reopened \subseteq Runs
  BY DEF A2AInv, TypeOK
<1>1. ASSUME NEW r \in Runs, claim(r)
      PROVE  TypeOK'
  <2>1. status' \in [Runs -> Statuses]
    BY <1>1, <1>status, <1>submission, <1>mapping, <1>mcp DEF claim, Statuses, Active, Ended
  <2>2. pod' \in [Runs -> PodStates]
    BY <1>1, <1>pod DEF claim, PodStates
  <2>. QED
    BY A2AInv, <1>1, <2>1, <2>2 DEF A2AInv, TypeOK, claim
<1>2. ASSUME NEW r \in Runs, report_running(r)
      PROVE  TypeOK'
  <2>1. status' \in [Runs -> Statuses]
    BY <1>2, <1>status, <1>submission, <1>mapping, <1>mcp DEF report_running, set_task_status,
       Statuses, Active, Ended
  <2>2. pod' \in [Runs -> PodStates]
    BY <1>2, <1>pod DEF report_running, set_task_status, PodStates
  <2>3. reopened' \subseteq Runs
    BY <1>2, <1>reopened DEF report_running, set_task_status
  <2>4. log' \in [Handles -> Seq(Event)]
    BY <1>2, <1>log, AppendTypes DEF report_running, set_task_status, Active
  <2>. QED
    BY A2AInv, <1>2, <2>1, <2>2, <2>3, <2>4 DEF A2AInv, TypeOK, report_running
<1>3. ASSUME NEW r \in Runs, finalize_review(r)
      PROVE  TypeOK'
  <2>1. reviews' \subseteq Runs
    BY <1>3, <1>reviews DEF finalize_review
  <2>. QED
    BY A2AInv, <1>3, <2>1 DEF A2AInv, TypeOK, finalize_review
<1>4. ASSUME NEW r \in Runs, NEW s \in {"succeeded", "failed"}, report_ended(r, s)
      PROVE  TypeOK'
  <2>1. status' \in [Runs -> Statuses]
    BY <1>4, <1>status, <1>submission, <1>mapping, <1>mcp DEF report_ended, set_task_status,
       Statuses, Active, Ended
  <2>2. pod' \in [Runs -> PodStates]
    BY <1>4, <1>pod DEF report_ended, set_task_status, PodStates
  <2>3. reopened' \subseteq Runs
    BY <1>4, <1>reopened DEF report_ended, set_task_status
  <2>4. log' \in [Handles -> Seq(Event)]
    BY <1>4, <1>log, AppendTypes DEF report_ended, set_task_status, Ended
  <2>. QED
    BY A2AInv, <1>4, <2>1, <2>2, <2>3, <2>4 DEF A2AInv, TypeOK, report_ended
<1>5. ASSUME NEW r \in Runs, self_cancel(r)
      PROVE  TypeOK'
  <2>1. pod' \in [Runs -> PodStates]
    BY <1>5, <1>pod DEF self_cancel, PodStates
  <2>. QED
    BY A2AInv, <1>5, <2>1 DEF A2AInv, TypeOK, self_cancel
<1>6. ASSUME NEW r \in Runs, job_retries(r)
      PROVE  TypeOK'
  <2>1. left' \in Budget
    BY <1>6, <1>left DEF job_retries, Spend, Budget
  <2>2. pod' \in [Runs -> PodStates]
    BY <1>6, <1>pod DEF job_retries, Spend, PodStates
  <2>. QED
    BY A2AInv, <1>6, <2>1, <2>2 DEF A2AInv, TypeOK, job_retries
<1>7. ASSUME NEW r \in Runs, release_task(r)
      PROVE  TypeOK'
  <2>1. left' \in Budget
    BY <1>7, <1>left DEF release_task, Spend, Budget
  <2>2. status' \in [Runs -> Statuses]
    BY <1>7, <1>status, <1>submission, <1>mapping, <1>mcp DEF release_task, Spend, Statuses,
       Active, Ended
  <2>3. pod' \in [Runs -> PodStates]
    BY <1>7, <1>pod DEF release_task, Spend, PodStates
  <2>. QED
    BY A2AInv, <1>7, <2>1, <2>2, <2>3 DEF A2AInv, TypeOK, release_task
<1>8. ASSUME NEW r \in Runs, cancel_elsewhere(r)
      PROVE  TypeOK'
  <2>1. left' \in Budget
    BY <1>8, <1>left DEF cancel_elsewhere, Spend, FlipSilently, Budget
  <2>2. status' \in [Runs -> Statuses]
    BY <1>8, <1>status, <1>submission, <1>mapping, <1>mcp DEF cancel_elsewhere, Spend,
       FlipSilently, Statuses, Active, Ended
  <2>3. silent' \subseteq Runs
    BY <1>8, <1>silent DEF cancel_elsewhere, Spend, FlipSilently
  <2>. QED
    BY A2AInv, <1>8, <2>1, <2>2, <2>3 DEF A2AInv, TypeOK, cancel_elsewhere
<1>9. ASSUME NEW h \in Handles, NEW c \in Callers, NEW r \in Runs, send_message(h, c, r)
      PROVE  TypeOK'
  <2>1. left' \in Budget
    BY <1>9, <1>left DEF send_message, Spend, Budget
  <2>2. submission' \in [Handles -> Submission]
    BY <1>9, <1>submission DEF send_message, Spend, Submission
  <2>. QED
    BY A2AInv, <1>9, <2>1, <2>2 DEF A2AInv, TypeOK, send_message
<1>10. ASSUME NEW h \in Handles, check_quota(h)
      PROVE  TypeOK'
  <2>1. submission' \in [Handles -> Submission]
    BY <1>10, <1>submission DEF check_quota, Goto, Submission
  <2>. QED
    BY A2AInv, <1>10, <2>1 DEF A2AInv, TypeOK, check_quota
<1>11. ASSUME NEW h \in Handles, check_repository(h)
      PROVE  TypeOK'
  <2>1. left' \in Budget
    BY <1>11, <1>left DEF check_repository, Goto, Spend, Budget
  <2>2. submission' \in [Handles -> Submission]
    BY <1>11, <1>submission DEF check_repository, Goto, Spend, Submission
  <2>. QED
    BY A2AInv, <1>11, <2>1, <2>2 DEF A2AInv, TypeOK, check_repository
<1>12. ASSUME NEW h \in Handles, create_or_find(h)
      PROVE  TypeOK'
  <2>1. status' \in [Runs -> Statuses]
    BY <1>12, <1>status, <1>submission, <1>mapping, <1>mcp DEF create_or_find, Goto, Statuses,
       Active, Ended
  <2>2. submission' \in [Handles -> Submission]
    BY <1>12, <1>submission DEF create_or_find, Goto, Submission
  <2>. QED
    BY A2AInv, <1>12, <2>1, <2>2 DEF A2AInv, TypeOK, create_or_find
<1>13. ASSUME NEW h \in Handles, persist_mapping(h)
      PROVE  TypeOK'
  <2>1. mapping' \in [Handles -> Mapping]
    <3>1. [caller |-> submission[h].caller, run |-> submission[h].run,
           state |-> "SUBMITTED", version |-> 1] \in Mapping
      BY <1>submission DEF Submission, Mapping, States
    <3>. QED
      BY <1>13, <1>mapping, <3>1 DEF persist_mapping, StoreCreate
  <2>2. late' \subseteq Handles
    BY <1>13, <1>late DEF persist_mapping, Goto, StoreCreate
  <2>3. submission' \in [Handles -> Submission]
    BY <1>13, <1>submission DEF persist_mapping, Goto, StoreCreate, Submission
  <2>. QED
    BY A2AInv, <1>13, <2>1, <2>2, <2>3 DEF A2AInv, TypeOK, persist_mapping
<1>14. ASSUME NEW h \in Handles, reject(h)
      PROVE  TypeOK'
  <2>1. mapping' \in [Handles -> Mapping]
    <3>1. [caller |-> submission[h].caller, run |-> submission[h].run,
           state |-> "REJECTED", version |-> 1] \in Mapping
      BY <1>submission DEF Submission, Mapping, States, Terminal
    <3>. QED
      BY <1>14, <1>mapping, <3>1 DEF reject, StoreCreate
  <2>2. submission' \in [Handles -> Submission]
    BY <1>14, <1>submission DEF reject, Goto, StoreCreate, Submission
  <2>. QED
    BY A2AInv, <1>14, <2>1, <2>2 DEF A2AInv, TypeOK, reject
<1>15. ASSUME NEW h \in Handles, reject_event(h)
      PROVE  TypeOK'
  <2>1. log' \in [Handles -> Seq(Event)]
    <3>1. StatusEvent("REJECTED") \in Event
      BY EventTypes DEF States, Terminal
    <3>. QED
      BY <1>15, <1>log, <3>1, AppendProperties DEF reject_event
  <2>2. submission' \in [Handles -> Submission]
    BY <1>15, <1>submission DEF reject_event, Goto, Submission
  <2>. QED
    BY A2AInv, <1>15, <2>1, <2>2 DEF A2AInv, TypeOK, reject_event
<1>16. ASSUME NEW h \in Handles, submission_fails(h)
      PROVE  TypeOK'
  <2>1. left' \in Budget
    BY <1>16, <1>left DEF submission_fails, Goto, Spend, Budget
  <2>2. submission' \in [Handles -> Submission]
    BY <1>16, <1>submission DEF submission_fails, Goto, Spend, Submission
  <2>. QED
    BY A2AInv, <1>16, <2>1, <2>2 DEF A2AInv, TypeOK, submission_fails
<1>17. ASSUME NEW q \in Requests, NEW h \in Handles, cancel_task(q, h)
      PROVE  TypeOK'
  <2>1. left' \in Budget
    BY <1>17, <1>left DEF cancel_task, Spend, Budget
  <2>2. cancel' \in [Requests -> Cancel]
    BY <1>17, <1>cancel DEF cancel_task, Spend, Cancel, NoRequest
  <2>. QED
    BY A2AInv, <1>17, <2>1, <2>2 DEF A2AInv, TypeOK, cancel_task
<1>18. ASSUME NEW q \in Requests, cancel_task_by_id(q)
      PROVE  TypeOK'
  <2>1. cancel' \in [Requests -> Cancel]
    BY <1>18, <1>cancel DEF cancel_task_by_id, CancelGoto, FlipSilently, Cancel, NoRequest
  <2>2. status' \in [Runs -> Statuses]
    BY <1>18, <1>status, <1>submission, <1>mapping, <1>mcp DEF cancel_task_by_id, CancelGoto,
       FlipSilently, Statuses, Active, Ended
  <2>3. silent' \subseteq Runs
    BY <1>18, <1>silent DEF cancel_task_by_id, FlipSilently, A2AInv, CancelHolds, CancelOK
  <2>. QED
    BY A2AInv, <1>18, <2>1, <2>2, <2>3 DEF A2AInv, TypeOK, cancel_task_by_id
<1>19. ASSUME NEW q \in Requests, store_get(q)
      PROVE  TypeOK'
  <2>1. cancel' \in [Requests -> Cancel]
    <3>1. \A x \in Cancel, n \in Nat : [x EXCEPT !.pc = "update", !.version = n] \in Cancel
      BY DEF Cancel
    <3>2. mapping[cancel[q].h].version \in Nat
      BY <1>19, <1>mapping DEF store_get, A2AInv, CancelHolds, CancelOK, Mapping
    <3>. QED
      BY <1>19, <1>cancel, <3>1, <3>2 DEF store_get
  <2>. QED
    BY A2AInv, <1>19, <2>1 DEF A2AInv, TypeOK, store_get
<1>20. ASSUME NEW q \in Requests, store_update(q)
      PROVE  TypeOK'
  <2>1. mapping' \in [Handles -> Mapping]
    <3>1. cancel[q].h \in Handles /\ mapping[cancel[q].h] \in Mapping
      BY <1>20, <1>mapping DEF store_update, A2AInv, CancelHolds, CancelOK
    <3>2. mapping' = mapping \/ mapping' = [mapping EXCEPT ![cancel[q].h] =
             [mapping[cancel[q].h] EXCEPT !.state = "CANCELED", !.version = mapping[cancel[q].h].version + 1]]
      BY <1>20, <1>mapping, <3>1 DEF store_update, Mapping
    <3>. QED
      BY <1>mapping, <3>1, <3>2, MarkTypes
  <2>2. cancel' \in [Requests -> Cancel]
    BY <1>20, <1>cancel DEF store_update, CancelGoto, AfterUpdate, Cancel, NoRequest
  <2>3. settled' \subseteq Handles
    BY <1>20, <1>settled DEF store_update, AfterUpdate, A2AInv, CancelHolds, CancelOK
  <2>. QED
    BY A2AInv, <1>20, <2>1, <2>2, <2>3 DEF A2AInv, TypeOK, store_update
<1>21. ASSUME NEW q \in Requests, lock_row(q)
      PROVE  TypeOK'
  <2>1. lock' \in [Runs -> {0} \cup Requests]
    BY <1>21, <1>lock DEF lock_row, CancelGoto
  <2>2. cancel' \in [Requests -> Cancel]
    BY <1>21, <1>cancel DEF lock_row, CancelGoto, Cancel, NoRequest
  <2>. QED
    BY A2AInv, <1>21, <2>1, <2>2 DEF A2AInv, TypeOK, lock_row
<1>22. ASSUME NEW q \in Requests, check_final(q)
      PROVE  TypeOK'
  <2>1. cancel' \in [Requests -> Cancel]
    BY <1>22, <1>cancel DEF check_final, CancelGoto, Unlock, Cancel, NoRequest
  <2>2. settled' \subseteq Handles
    BY <1>22, <1>settled DEF check_final, CancelGoto, A2AInv, CancelHolds, CancelOK
  <2>3. lock' \in [Runs -> {0} \cup Requests]
    BY <1>22, <1>lock DEF check_final, CancelGoto, Unlock
  <2>. QED
    BY A2AInv, <1>22, <2>1, <2>2, <2>3 DEF A2AInv, TypeOK, check_final
<1>23. ASSUME NEW q \in Requests, append_canceled(q)
      PROVE  TypeOK'
  <2>1. log' \in [Handles -> Seq(Event)]
    <3>1. StatusEvent("CANCELED") \in Event
      BY EventTypes DEF States, Terminal
    <3>. QED
      BY <1>23, <1>log, <3>1, AppendProperties DEF append_canceled
  <2>2. cancel' \in [Requests -> Cancel]
    BY <1>23, <1>cancel DEF append_canceled, Unlock, Cancel, NoRequest
  <2>3. settled' \subseteq Handles
    BY <1>23, <1>settled DEF append_canceled, CancelGoto, A2AInv, CancelHolds, CancelOK
  <2>4. lock' \in [Runs -> {0} \cup Requests]
    BY <1>23, <1>lock DEF append_canceled, Unlock
  <2>. QED
    BY A2AInv, <1>23, <2>1, <2>2, <2>3, <2>4 DEF A2AInv, TypeOK, append_canceled
<1>24. ASSUME NEW q \in Requests, cancel_fails(q)
      PROVE  TypeOK'
  <2>1. left' \in Budget
    BY <1>24, <1>left DEF cancel_fails, Unlock, Spend, Budget
  <2>2. cancel' \in [Requests -> Cancel]
    BY <1>24, <1>cancel DEF cancel_fails, Unlock, Spend, Cancel, NoRequest
  <2>3. lock' \in [Runs -> {0} \cup Requests]
    BY <1>24, <1>lock DEF cancel_fails, Unlock, Spend
  <2>. QED
    BY A2AInv, <1>24, <2>1, <2>2, <2>3 DEF A2AInv, TypeOK, cancel_fails
<1>25. ASSUME NEW q \in Requests, NEW c \in Callers, NEW r \in Runs, start_review(q, c, r)
      PROVE  TypeOK'
  <2>1. left' \in Budget
    BY <1>25, <1>left DEF start_review, Spend, Budget
  <2>2. mcp' \in [Requests -> McpRequest]
    BY <1>25, <1>mcp DEF start_review, Spend, McpRequest
  <2>. QED
    BY A2AInv, <1>25, <2>1, <2>2 DEF A2AInv, TypeOK, start_review
<1>26. ASSUME NEW q \in Requests, advisory_lock(q)
      PROVE  TypeOK'
  <2>1. advisory' \in [Callers -> {0} \cup Requests]
    BY <1>26, <1>advisory DEF advisory_lock
  <2>2. mcp' \in [Requests -> McpRequest]
    BY <1>26, <1>mcp DEF advisory_lock, McpRequest
  <2>. QED
    BY A2AInv, <1>26, <2>1, <2>2 DEF A2AInv, TypeOK, advisory_lock
<1>27. ASSUME NEW q \in Requests, mcp_count(q)
      PROVE  TypeOK'
  <2>1. mcp' \in [Requests -> McpRequest]
    BY <1>27, <1>mcp DEF mcp_count, McpDone, AdvisoryUnlock, McpRequest
  <2>2. advisory' \in [Callers -> {0} \cup Requests]
    BY <1>27, <1>advisory DEF mcp_count, McpDone, AdvisoryUnlock
  <2>. QED
    BY A2AInv, <1>27, <2>1, <2>2 DEF A2AInv, TypeOK, mcp_count
<1>28. ASSUME NEW q \in Requests, mcp_insert(q)
      PROVE  TypeOK'
  <2>1. deliveries' \in [Callers -> Nat]
    BY <1>28, <1>deliveries, CountUp DEF mcp_insert
  <2>2. mcp' \in [Requests -> McpRequest]
    BY <1>28, <1>mcp DEF mcp_insert, AdvisoryUnlock, McpRequest
  <2>3. advisory' \in [Callers -> {0} \cup Requests]
    BY <1>28, <1>advisory DEF mcp_insert, AdvisoryUnlock
  <2>. QED
    BY A2AInv, <1>28, <2>1, <2>2, <2>3 DEF A2AInv, TypeOK, mcp_insert
<1>29. ASSUME NEW q \in Requests, mcp_create(q)
      PROVE  TypeOK'
  <2>1. status' \in [Runs -> Statuses]
    BY <1>29, <1>status, <1>submission, <1>mapping, <1>mcp DEF mcp_create, McpDone, Statuses,
       Active, Ended
  <2>2. mcp' \in [Requests -> McpRequest]
    BY <1>29, <1>mcp DEF mcp_create, McpDone, McpRequest
  <2>. QED
    BY A2AInv, <1>29, <2>1, <2>2 DEF A2AInv, TypeOK, mcp_create
<1>30. ASSUME NEW q \in Requests, mcp_fails(q)
      PROVE  TypeOK'
  <2>1. left' \in Budget
    BY <1>30, <1>left DEF mcp_fails, McpDone, AdvisoryUnlock, Spend, Budget
  <2>2. mcp' \in [Requests -> McpRequest]
    BY <1>30, <1>mcp DEF mcp_fails, McpDone, AdvisoryUnlock, Spend, McpRequest
  <2>3. advisory' \in [Callers -> {0} \cup Requests]
    BY <1>30, <1>advisory DEF mcp_fails, McpDone, AdvisoryUnlock, Spend
  <2>. QED
    BY A2AInv, <1>30, <2>1, <2>2, <2>3 DEF A2AInv, TypeOK, mcp_fails
<1>31. ASSUME NEW s \in Streams, NEW h \in Handles, subscribe(s, h)
      PROVE  TypeOK'
  <2>1. left' \in Budget
    BY <1>31, <1>left DEF subscribe, Spend, Budget
  <2>2. stream' \in [Streams -> Stream]
    BY <1>31, <1>stream DEF subscribe, Spend, Stream
  <2>. QED
    BY A2AInv, <1>31, <2>1, <2>2 DEF A2AInv, TypeOK, subscribe
<1>32. ASSUME NEW s \in Streams, try_acquire(s)
      PROVE  TypeOK'
  <2>1. slots' \in [Callers -> 0 .. StreamCap]
    BY <1>32, <1>slots, A2ABounds DEF try_acquire, StreamGoto
  <2>2. stream' \in [Streams -> Stream]
    BY <1>32, <1>stream DEF try_acquire, StreamGoto, Stream
  <2>. QED
    BY A2AInv, <1>32, <2>1, <2>2 DEF A2AInv, TypeOK, try_acquire
<1>33. ASSUME NEW s \in Streams, replay(s)
      PROVE  TypeOK'
  <2>1. LastShown(s) \in Nat
    BY <1>33, DrainTypes DEF replay
  <2>2. stream' \in [Streams -> Stream] /\ slots' \in [Callers -> 0 .. StreamCap]
    BY <1>33, <1>stream, <1>slots, <2>1, AdvanceTypes DEF replay, Drain
  <2>. QED
    BY A2AInv, <1>33, <2>2 DEF A2AInv, TypeOK, replay
<1>34. ASSUME NEW s \in Streams, tail_drain(s)
      PROVE  TypeOK'
  <2>1. LastShown(s) \in Nat
    BY <1>34, DrainTypes DEF tail_drain
  <2>2. stream' \in [Streams -> Stream] /\ slots' \in [Callers -> 0 .. StreamCap]
    BY <1>34, <1>stream, <1>slots, <2>1, AdvanceTypes DEF tail_drain, Drain
  <2>. QED
    BY A2AInv, <1>34, <2>2 DEF A2AInv, TypeOK, tail_drain
<1>35. ASSUME NEW s \in Streams, backstop(s)
      PROVE  TypeOK'
  <2>1. stream' \in [Streams -> Stream]
    BY <1>35, <1>stream DEF backstop, StreamGoto, Stream
  <2>. QED
    BY A2AInv, <1>35, <2>1 DEF A2AInv, TypeOK, backstop, StreamGoto
<1>36. ASSUME NEW s \in Streams, final_drain(s)
      PROVE  TypeOK'
  <2>1. LastShown(s) \in Nat
    BY <1>36, DrainTypes DEF final_drain
  <2>2. stream' \in [Streams -> Stream] /\ slots' \in [Callers -> 0 .. StreamCap]
    BY <1>36, <1>stream, <1>slots, <2>1, AdvanceTypes DEF final_drain, Drain
  <2>. QED
    BY A2AInv, <1>36, <2>2 DEF A2AInv, TypeOK, final_drain
<1>37. ASSUME NEW s \in Streams, stream_cut(s)
      PROVE  TypeOK'
  <2>1. stream[s].seen \in Nat
    BY <1>stream DEF Stream
  <2>2. stream' \in [Streams -> Stream] /\ slots' \in [Callers -> 0 .. StreamCap]
    BY <1>37, <1>stream, <1>slots, <2>1, AdvanceTypes DEF stream_cut
  <2>. QED
    BY A2AInv, <1>37, <2>2 DEF A2AInv, TypeOK, stream_cut
<1>38. ASSUME NEW q \in Requests, NEW h \in Handles, create_push_config(q, h)
      PROVE  TypeOK'
  <2>1. left' \in Budget
    BY <1>38, <1>left DEF create_push_config, Spend, Budget
  <2>2. hook' \in [Requests -> Hook]
    BY <1>38, <1>hook DEF create_push_config, Spend, Hook
  <2>. QED
    BY A2AInv, <1>38, <2>1, <2>2 DEF A2AInv, TypeOK, create_push_config
<1>39. ASSUME NEW q \in Requests, insert_push_config(q)
      PROVE  TypeOK'
  <2>1. hooks' \in [Handles -> Nat]
    BY <1>39, <1>hooks, CountUp DEF insert_push_config
  <2>2. hook' \in [Requests -> Hook]
    BY <1>39, <1>hook DEF insert_push_config, Hook
  <2>. QED
    BY A2AInv, <1>39, <2>1, <2>2 DEF A2AInv, TypeOK, insert_push_config
<1>40. ASSUME NEW h \in Handles, delete_push_config(h)
      PROVE  TypeOK'
  <2>1. left' \in Budget
    BY <1>40, <1>left DEF delete_push_config, Spend, Budget
  <2>2. hooks' \in [Handles -> Nat]
    BY <1>40, <1>hooks DEF delete_push_config, Spend
  <2>. QED
    BY A2AInv, <1>40, <2>1, <2>2 DEF A2AInv, TypeOK, delete_push_config
<1>41. ASSUME NEW h \in Handles, age(h)
      PROVE  TypeOK'
  <2>1. left' \in Budget
    BY <1>41, <1>left DEF age, Spend, Budget
  <2>2. old' \subseteq Handles
    BY <1>41, <1>old DEF age, Spend
  <2>. QED
    BY A2AInv, <1>41, <2>1, <2>2 DEF A2AInv, TypeOK, age
<1>42. ASSUME NEW h \in Handles, sweep_terminal_a2a_tasks(h)
      PROVE  TypeOK'
  <2>1. mapping' \in [Handles -> Mapping]
    <3>1. NoMapping \in Mapping
      BY DEF NoMapping, Mapping, States
    <3>. QED
      BY <1>42, <1>mapping, <3>1 DEF sweep_terminal_a2a_tasks
  <2>2. log' \in [Handles -> Seq(Event)]
    <3>1. <<>> \in Seq(Event)
      BY EmptySeq
    <3>. QED
      BY <1>42, <1>log, <3>1 DEF sweep_terminal_a2a_tasks
  <2>3. hooks' \in [Handles -> Nat]
    BY <1>42, <1>hooks DEF sweep_terminal_a2a_tasks
  <2>4. old' \subseteq Handles
    BY <1>42, <1>old DEF sweep_terminal_a2a_tasks
  <2>5. late' \subseteq Handles
    BY <1>42, <1>late DEF sweep_terminal_a2a_tasks
  <2>6. settled' \subseteq Handles
    BY <1>42, <1>settled DEF sweep_terminal_a2a_tasks
  <2>8. lost' \subseteq Handles \X {"snapshot", "event"}
    BY <1>42, <1>lost DEF sweep_terminal_a2a_tasks
  <2>7. stream' \in [Streams -> Stream]
    BY <1>42, <1>stream DEF sweep_terminal_a2a_tasks, Stream
  <2>. QED
    BY A2AInv, <1>42, <2>1, <2>2, <2>3, <2>4, <2>5, <2>6, <2>7, <2>8
       DEF A2AInv, TypeOK, sweep_terminal_a2a_tasks
<1>43. ASSUME NEW q \in Requests, snapshot_fails(q)
      PROVE  TypeOK'
  <2>1. left' \in Budget
    BY <1>43, <1>left DEF snapshot_fails, Spend, Budget
  <2>2. cancel' \in [Requests -> Cancel]
    BY <1>43, <1>cancel DEF snapshot_fails, CancelGoto, Cancel
  <2>3. lost' \subseteq Handles \X {"snapshot", "event"}
    BY <1>43, <1>lost DEF snapshot_fails, A2AInv, CancelHolds, CancelOK
  <2>. QED
    BY A2AInv, <1>43, <2>1, <2>2, <2>3 DEF A2AInv, TypeOK, snapshot_fails
<1>44. ASSUME NEW q \in Requests, append_fails(q)
      PROVE  TypeOK'
  <2>1. left' \in Budget
    BY <1>44, <1>left DEF append_fails, Spend, Budget
  <2>2. cancel' \in [Requests -> Cancel]
    BY <1>44, <1>cancel DEF append_fails, Cancel, NoRequest
  <2>0. cancel[q].h \in Handles
    BY <1>44 DEF append_fails, A2AInv, CancelHolds, CancelOK
  <2>3. settled' \subseteq Handles
    BY <1>44, <1>settled, <2>0 DEF append_fails
  <2>5. lost' \subseteq Handles \X {"snapshot", "event"}
    BY <1>44, <1>lost, <2>0 DEF append_fails
  <2>4. lock' \in [Runs -> {0} \cup Requests]
    BY <1>44, <1>lock DEF append_fails, Unlock
  <2>. QED
    BY A2AInv, <1>44, <2>1, <2>2, <2>3, <2>4, <2>5 DEF A2AInv, TypeOK, append_fails
<1>45. CASE UNCHANGED vars
  BY <1>45 DEF A2AInv, TypeOK
<1>. QED
  BY <1>1, <1>2, <1>3, <1>4, <1>5, <1>6, <1>7, <1>8, <1>9, <1>10, <1>11, <1>12, <1>13, <1>14,
     <1>15, <1>16, <1>17, <1>18, <1>19, <1>20, <1>21, <1>22, <1>23, <1>24, <1>25, <1>26, <1>27,
     <1>28, <1>29, <1>30, <1>31, <1>32, <1>33, <1>34, <1>35, <1>36, <1>37, <1>38, <1>39, <1>40,
     <1>41, <1>42, <1>43, <1>44, <1>45
     DEF Next, RunStep, Submit, Cancelling, Mcp, Streaming, StreamStep, Hooking, Retention

-----------------------------------------------------------------------------
(* What an append does to a log.                                           *)

\* An event log that ends here: its last event is the status event of st, and no
\* event before it is final.
EndsWith(events, st) ==
    /\ events \in Seq(Event) /\ events # <<>>
    /\ events[Len(events)] = StatusEvent(st)
    /\ \A i \in DOMAIN events : events[i].final => i = Len(events)
    /\ (\E i \in DOMAIN events : events[i].final) <=> st \in Terminal

\* One status event appended to a log without a final event.
LEMMA AppendEnds ==
    ASSUME NEW events \in Seq(Event), \A i \in DOMAIN events : ~events[i].final,
           NEW st \in States
    PROVE  /\ EndsWith(Append(events, StatusEvent(st)), st)
           /\ Len(Append(events, StatusEvent(st))) > Len(events)
<1>1. StatusEvent(st) \in Event
  BY EventTypes
<1>. DEFINE t == Append(events, StatusEvent(st))
<1>2. /\ t \in Seq(Event) /\ t # <<>> /\ Len(t) = Len(events) + 1
      /\ t[Len(t)] = StatusEvent(st)
      /\ \A i \in 1 .. Len(events) : t[i] = events[i]
  BY <1>1, AppendProperties
<1>3. StatusEvent(st).final <=> st \in Terminal
  BY Zenon DEF StatusEvent
<1>4. DOMAIN t = 1 .. Len(t) /\ DOMAIN events = 1 .. Len(events) /\ Len(events) \in Nat
  BY <1>2
<1>. HIDE DEF t
<1>5. \A i \in DOMAIN t : i # Len(t) => ~t[i].final
  BY <1>2, <1>4
<1>6. Len(t) \in DOMAIN t
  BY <1>2, <1>4
<1>7. EndsWith(t, st)
  BY <1>2, <1>3, <1>5, <1>6 DEF EndsWith
<1>. QED
  BY <1>2, <1>4, <1>7 DEF t

\* What a reported transition does to a log: nothing once it is final.
LEMMA TransitionEnds ==
    ASSUME A2AInv, NEW r, NEW s \in Active \cup Ended, append_transition_events(r, s),
           NEW h \in Handles
    PROVE  \/ /\ log'[h] = log[h]
              /\ h \notin fronts(r) \/ has_final(h)
           \/ /\ h \in fronts(r) /\ ~has_final(h)
              /\ EndsWith(log'[h], task_state_from_status(s))
              /\ Len(log'[h]) > Len(log[h])
<1>. DEFINE st == task_state_from_status(s)
            art == [state |-> "ARTIFACT", final |-> FALSE]
            ev == StatusEvent(st)
<1>1. log[h] \in Seq(Event) /\ st \in States /\ art \in Event /\ ev \in Event
  BY EventTypes, StateTypes DEF A2AInv, TypeOK
<1>2. CASE h \notin fronts(r)
  BY <1>2 DEF append_transition_events
<1>3. CASE h \in fronts(r) /\ has_final(h)
  <2>1. log'[h] = log[h] \o <<>>
    BY <1>3 DEF append_transition_events, TransitionEvents
  <2>. QED
    BY <1>1, <1>3, <2>1, ConcatEmptySeq
<1>4. CASE h \in fronts(r) /\ ~has_final(h)
  <2>0. \A i \in DOMAIN log[h] : ~log[h][i].final
    BY <1>4 DEF has_final
  <2>1. CASE st = "COMPLETED" /\ r \in reviews
    <3>1. log'[h] = log[h] \o (<<art>> \o <<ev>>)
      BY <1>4, <2>1 DEF append_transition_events, TransitionEvents
    <3>2. <<art>> \in Seq(Event) /\ <<ev>> \in Seq(Event) /\ Append(log[h], art) \in Seq(Event)
      BY <1>1
    <3>3. log'[h] = Append(Append(log[h], art), ev)
      <4>. HIDE DEF art, ev
      <4>1. log'[h] = (log[h] \o <<art>>) \o <<ev>>
        BY <1>1, <3>1, <3>2, ConcatAssociative
      <4>. QED
        BY <1>1, <3>2, <4>1, AppendIsConcat
    <3>. DEFINE u == Append(log[h], art)
    <3>4. /\ u \in Seq(Event) /\ Len(u) = Len(log[h]) + 1
          /\ u[Len(u)] = art /\ \A i \in 1 .. Len(log[h]) : u[i] = log[h][i]
      BY <1>1, AppendProperties
    <3>5. ~art.final
      OBVIOUS
    <3>6. DOMAIN u = 1 .. Len(u) /\ DOMAIN log[h] = 1 .. Len(log[h]) /\ Len(log[h]) \in Nat
      BY <1>1, <3>4
    <3>. HIDE DEF u, art
    <3>7. \A i \in DOMAIN u : ~u[i].final
      BY <2>0, <3>4, <3>5, <3>6
    <3>8. EndsWith(Append(u, ev), st) /\ Len(Append(u, ev)) > Len(u)
      BY <1>1, <3>4, <3>7, AppendEnds
    <3>. QED
      <4>1. log'[h] = Append(u, ev)
        BY <3>3 DEF u
      <4>. HIDE DEF ev
      <4>. QED
        BY <1>4, <3>4, <3>6, <3>8, <4>1
  <2>2. CASE ~(st = "COMPLETED" /\ r \in reviews)
    <3>1. log'[h] = log[h] \o (<<>> \o <<ev>>)
      BY <1>4, <2>2 DEF append_transition_events, TransitionEvents
    <3>2. log'[h] = Append(log[h], ev)
      BY <1>1, <3>1
    <3>. QED
      BY <1>1, <1>4, <2>0, <3>2, AppendEnds
  <2>. QED
    BY <2>1, <2>2
<1>. QED
  BY <1>2, <1>3, <1>4

-----------------------------------------------------------------------------
(* Sums of the steps of one variable.                                      *)

\* What the invariants about handles, runs and cancellations speak of.
core == <<status, silent, reopened, submission, mapping, log, lock, cancel, late, settled, lost>>

\* The steps of a run that change it, and all that do.
RunCore(r) ==
    \/ claim(r) \/ report_running(r) \/ release_task(r) \/ cancel_elsewhere(r)
    \/ \E s \in {"succeeded", "failed"} : report_ended(r, s)

CoreStep ==
    \/ \E r \in Runs : RunCore(r)
    \/ \E h \in Handles : Submit(h) \/ sweep_terminal_a2a_tasks(h)
    \/ \E q \in Requests : Cancelling(q) \/ mcp_create(q)

\* Every other step leaves it alone.
LEMMA Frame ==
    ASSUME [Next]_vars
    PROVE  CoreStep \/ UNCHANGED core
<1>. USE DEF core, vars, runVars, taskVars, cancelVars, streamVars, quotaVars,
             runOthers, submitOthers, cancelOthers, streamOthers, hookOthers, mcpOthers
<1>1. ASSUME NEW r \in Runs, RunStep(r)
      PROVE  CoreStep \/ UNCHANGED core
  BY <1>1 DEF RunStep, CoreStep, RunCore, finalize_review, self_cancel, job_retries
<1>2. ASSUME NEW s \in Streams, Streaming(s)
      PROVE  UNCHANGED core
  BY <1>2 DEF Streaming, StreamStep, subscribe, try_acquire, replay, tail_drain, backstop,
              final_drain, stream_cut
<1>3. ASSUME NEW q \in Requests, Mcp(q)
      PROVE  CoreStep \/ UNCHANGED core
  BY <1>3 DEF Mcp, CoreStep, start_review, advisory_lock, mcp_count, mcp_insert, mcp_fails
<1>4. ASSUME Hooking
      PROVE  UNCHANGED core
  BY <1>4 DEF Hooking, create_push_config, insert_push_config, delete_push_config
<1>5. ASSUME Retention
      PROVE  CoreStep \/ UNCHANGED core
  BY <1>5 DEF Retention, CoreStep, age
<1>6. CASE UNCHANGED vars
  BY <1>6
<1>. QED
  BY <1>1, <1>2, <1>3, <1>4, <1>5, <1>6 DEF Next, CoreStep

\* What a step does to the row of a handle.
LEMMA MappingSteps ==
    ASSUME A2AInv, [Next]_vars, NEW g \in Handles
    PROVE  \/ mapping'[g] = mapping[g]
           \/ sweep_terminal_a2a_tasks(g) \/ persist_mapping(g) \/ reject(g)
           \/ \E q \in Requests : store_update(q) /\ cancel[q].h = g
<1>. USE DEF core, runVars, taskVars, cancelVars, runOthers, submitOthers, cancelOthers, mcpOthers
<1>0. mapping \in [Handles -> Mapping]
  BY DEF A2AInv, TypeOK
<1>1. ASSUME NEW r \in Runs, RunCore(r)
      PROVE  UNCHANGED mapping
  BY <1>1 DEF RunCore, claim, report_running, report_ended, release_task, cancel_elsewhere
<1>2. ASSUME NEW h \in Handles, Submit(h), ~persist_mapping(h), ~reject(h)
      PROVE  UNCHANGED mapping
  BY <1>2 DEF Submit, send_message, check_quota, check_repository, create_or_find, reject_event,
              submission_fails
<1>3. ASSUME NEW h \in Handles, h # g,
             persist_mapping(h) \/ reject(h) \/ sweep_terminal_a2a_tasks(h)
      PROVE  mapping'[g] = mapping[g]
  BY <1>0, <1>3 DEF persist_mapping, reject, StoreCreate, sweep_terminal_a2a_tasks
<1>4. ASSUME NEW q \in Requests, Cancelling(q) \/ mcp_create(q), ~store_update(q)
      PROVE  UNCHANGED mapping
  BY <1>4 DEF Cancelling, cancel_task, cancel_task_by_id, store_get, lock_row, check_final,
              append_canceled, cancel_fails, snapshot_fails, append_fails, mcp_create
<1>5. ASSUME NEW q \in Requests, store_update(q), cancel[q].h # g
      PROVE  mapping'[g] = mapping[g]
  BY <1>0, <1>5 DEF store_update
<1>6. CASE UNCHANGED core
  BY <1>6
<1>. QED
  BY Frame, <1>1, <1>2, <1>3, <1>4, <1>5, <1>6 DEF CoreStep

\* A report that writes a row and appends to the log of handle g.
ReportReaches(g, r, s) ==
    /\ set_task_status(r, s)
    /\ g \in fronts(r) /\ ~has_final(g)
    /\ EndsWith(log'[g], task_state_from_status(s)) /\ Len(log'[g]) > Len(log[g])

\* What a step does to the log of a handle.
LEMMA LogSteps ==
    ASSUME A2AInv, [Next]_vars, NEW g \in Handles
    PROVE  \/ log'[g] = log[g]
           \/ sweep_terminal_a2a_tasks(g)
           \/ reject_event(g) /\ ~has_final(g)
           \/ \E q \in Requests : append_canceled(q) /\ cancel[q].h = g
           \/ \E r \in Runs, s \in {"running", "succeeded", "failed"} : ReportReaches(g, r, s)
<1>. USE DEF core, runVars, taskVars, cancelVars, runOthers, submitOthers, cancelOthers, mcpOthers
<1>0. log \in [Handles -> Seq(Event)]
  BY DEF A2AInv, TypeOK
<1>1. ASSUME NEW r \in Runs, claim(r) \/ release_task(r) \/ cancel_elsewhere(r)
      PROVE  UNCHANGED log
  BY <1>1 DEF claim, release_task, cancel_elsewhere
<1>2. ASSUME NEW r \in Runs, NEW s \in {"running", "succeeded", "failed"}, set_task_status(r, s)
      PROVE  log'[g] = log[g] \/ ReportReaches(g, r, s)
  BY <1>2, TransitionEnds DEF set_task_status, ReportReaches, Active, Ended
<1>3. ASSUME NEW r \in Runs, RunCore(r), ~claim(r), ~release_task(r), ~cancel_elsewhere(r)
      PROVE  \E s \in {"running", "succeeded", "failed"} : set_task_status(r, s)
  BY <1>3 DEF RunCore, report_running, report_ended
<1>4. ASSUME NEW h \in Handles, Submit(h), ~reject_event(h)
      PROVE  UNCHANGED log
  BY <1>4 DEF Submit, send_message, check_quota, check_repository, create_or_find,
              persist_mapping, reject, submission_fails
<1>5. ASSUME NEW h \in Handles, reject_event(h) \/ sweep_terminal_a2a_tasks(h), h # g
      PROVE  log'[g] = log[g]
  BY <1>0, <1>5 DEF reject_event, sweep_terminal_a2a_tasks
<1>6. ASSUME reject_event(g), has_final(g)
      PROVE  log'[g] = log[g]
  BY <1>6 DEF reject_event
<1>7. ASSUME NEW q \in Requests, Cancelling(q) \/ mcp_create(q), ~append_canceled(q)
      PROVE  UNCHANGED log
  BY <1>7 DEF Cancelling, cancel_task, cancel_task_by_id, store_get, store_update, lock_row,
              check_final, cancel_fails, snapshot_fails, append_fails, mcp_create
<1>8. ASSUME NEW q \in Requests, append_canceled(q), cancel[q].h # g
      PROVE  log'[g] = log[g]
  BY <1>0, <1>8 DEF append_canceled
<1>9. CASE UNCHANGED core
  BY <1>9
<1>. QED
  BY Frame, <1>1, <1>2, <1>3, <1>4, <1>5, <1>6, <1>7, <1>8, <1>9 DEF CoreStep

\* What a step does to the status of a run, and that the histories of silent
\* moves and of reopened runs only grow.
LEMMA StatusSteps ==
    ASSUME A2AInv, [Next]_vars, NEW p \in Runs
    PROVE  /\ silent \subseteq silent' /\ reopened \subseteq reopened'
           /\ \/ status'[p] = status[p]
              \/ status[p] = "absent" /\ status'[p] = "queued"
              \/ status[p] \in Active /\ status'[p] \in Active
              \/ status[p] \in Active /\ status'[p] = "cancelled" /\ p \in silent'
              \/ \E s \in {"running", "succeeded", "failed"} : set_task_status(p, s)
<1>. USE DEF core, runVars, taskVars, cancelVars, runOthers, submitOthers, cancelOthers, mcpOthers
<1>0. status \in [Runs -> Statuses]
  BY DEF A2AInv, TypeOK
<1>1. ASSUME NEW r \in Runs, claim(r) \/ release_task(r)
      PROVE  /\ UNCHANGED <<silent, reopened>>
             /\ status'[p] = status[p] \/ (status[p] \in Active /\ status'[p] \in Active)
  BY <1>0, <1>1 DEF claim, release_task, Active
<1>2. ASSUME NEW r \in Runs, cancel_elsewhere(r)
      PROVE  /\ silent' = silent \cup {r} /\ UNCHANGED reopened
             /\ \/ status'[p] = status[p]
                \/ p = r /\ status[p] \in Active /\ status'[p] = "cancelled"
  BY <1>0, <1>2 DEF cancel_elsewhere, FlipSilently
<1>3. ASSUME NEW r \in Runs, NEW s \in {"running", "succeeded", "failed"}, set_task_status(r, s)
      PROVE  reopened \subseteq reopened' /\ (p # r => status'[p] = status[p])
  BY <1>0, <1>3 DEF set_task_status
<1>4. ASSUME NEW r \in Runs, RunCore(r), ~claim(r), ~release_task(r), ~cancel_elsewhere(r)
      PROVE  /\ UNCHANGED silent
             /\ \E s \in {"running", "succeeded", "failed"} : set_task_status(r, s)
  BY <1>4 DEF RunCore, report_running, report_ended
<1>5. ASSUME NEW h \in Handles, create_or_find(h)
      PROVE  /\ UNCHANGED <<silent, reopened>>
             /\ status'[p] = status[p] \/ (status[p] = "absent" /\ status'[p] = "queued")
  BY <1>0, <1>5 DEF create_or_find
<1>6. ASSUME NEW h \in Handles, Submit(h) \/ sweep_terminal_a2a_tasks(h), ~create_or_find(h)
      PROVE  UNCHANGED <<status, silent, reopened>>
  BY <1>6 DEF Submit, send_message, check_quota, check_repository, persist_mapping, reject,
              reject_event, submission_fails, sweep_terminal_a2a_tasks
<1>7. ASSUME NEW q \in Requests, cancel_task_by_id(q)
      PROVE  /\ silent \subseteq silent' /\ UNCHANGED reopened
             /\ \/ status'[p] = status[p]
                \/ status[p] \in Active /\ status'[p] = "cancelled" /\ p \in silent'
  BY <1>0, <1>7 DEF cancel_task_by_id, FlipSilently
<1>8. ASSUME NEW q \in Requests, mcp_create(q)
      PROVE  /\ UNCHANGED <<silent, reopened>>
             /\ status'[p] = status[p] \/ (status[p] = "absent" /\ status'[p] = "queued")
  BY <1>0, <1>8 DEF mcp_create
<1>9. ASSUME NEW q \in Requests, Cancelling(q), ~cancel_task_by_id(q)
      PROVE  UNCHANGED <<status, silent, reopened>>
  BY <1>9 DEF Cancelling, cancel_task, store_get, store_update, lock_row, check_final,
              append_canceled, cancel_fails, snapshot_fails, append_fails
<1>10. CASE UNCHANGED core
  BY <1>10
<1>. QED
  BY Frame, <1>1, <1>2, <1>3, <1>4, <1>5, <1>6, <1>7, <1>8, <1>9, <1>10 DEF CoreStep

\* An excuse is for good: a row leaves an end only by a report, which is recorded.
LEMMA ExcusedStable ==
    ASSUME A2AInv, [Next]_vars, NEW p \in Runs, Excused(p)
    PROVE  Excused(p)'
<1>1. \A s \in {"running", "succeeded", "failed"} : set_task_status(p, s) /\ status[p] \in Ended => p \in reopened'
  BY DEF set_task_status
<1>. QED
  BY <1>1, StatusSteps DEF Excused, Active, Ended

\* Every step keeps HandleLife.
LEMMA StepHandles ==
    ASSUME A2AInv, [Next]_vars
    PROVE  HandleLife'
<1>. USE DEF core, vars, runVars, taskVars, cancelVars, streamVars, quotaVars,
             runOthers, submitOthers, cancelOthers, streamOthers, hookOthers, mcpOthers
<1>. SUFFICES ASSUME NEW g \in Handles PROVE HandleOK(g)'
  BY DEF HandleLife
<1>a. status \in [Runs -> Statuses] /\ mapping \in [Handles -> Mapping]
  BY DEF A2AInv, TypeOK
<1>b. submission \in [Handles -> Submission] /\ log \in [Handles -> Seq(Event)]
  BY DEF A2AInv, TypeOK
<1>c. HandleOK(g)
  BY DEF A2AInv, HandleLife
<1>1. ASSUME NEW r \in Runs, claim(r)
      PROVE  HandleOK(g)'
  BY <1>1, <1>a, <1>b, <1>c DEF claim, HandleOK, Exists
<1>2. ASSUME NEW r \in Runs, report_running(r)
      PROVE  HandleOK(g)'
  <2>1. ~Exists(g) => log'[g] = log[g]
    BY <1>2, TransitionEnds DEF report_running, set_task_status, fronts, Active, Ended
  <2>2. \A p \in Runs : status[p] # "absent" => status'[p] # "absent"
    BY <1>2, <1>a DEF report_running, set_task_status
  <2>. QED
    BY <1>2, <1>a, <1>b, <1>c, <2>1, <2>2 DEF report_running, HandleOK, Exists, Submission, Mapping
<1>3. ASSUME NEW r \in Runs, release_task(r)
      PROVE  HandleOK(g)'
  BY <1>3, <1>a, <1>b, <1>c DEF release_task, Spend, HandleOK, Exists
<1>4. ASSUME NEW r \in Runs, cancel_elsewhere(r)
      PROVE  HandleOK(g)'
  BY <1>4, <1>a, <1>b, <1>c DEF cancel_elsewhere, Spend, FlipSilently, HandleOK, Exists
<1>5. ASSUME NEW r \in Runs, NEW s \in {"succeeded", "failed"}, report_ended(r, s)
      PROVE  HandleOK(g)'
  <2>1. ~Exists(g) => log'[g] = log[g]
    BY <1>5, TransitionEnds DEF report_ended, set_task_status, fronts, Active, Ended
  <2>2. \A p \in Runs : status[p] # "absent" => status'[p] # "absent"
    BY <1>5, <1>a DEF report_ended, set_task_status
  <2>. QED
    BY <1>5, <1>a, <1>b, <1>c, <2>1, <2>2 DEF report_ended, HandleOK, Exists, Submission, Mapping
<1>6. ASSUME NEW h \in Handles, NEW c \in Callers, NEW r \in Runs, send_message(h, c, r)
      PROVE  HandleOK(g)'
  <2>1. /\ UNCHANGED <<status, mapping, log, late>>
        /\ submission[h].pc \in {"idle", "quota", "gate"}
    BY <1>6 DEF send_message
  <2>2. CASE g = h
    <3>1. \/ submission'[g].pc \in {"quota", "gate", "create"} /\ submission'[g].run \in Runs
          \/ submission'[g].pc = "reject" /\ submission'[g].run = NoRun
      <4>1. submission[g].pc \in {"quota", "gate"} => submission[g].run \in Runs
        BY <1>c DEF HandleOK
      <4>. QED
        BY <1>6, <1>b, <2>2, <4>1 DEF send_message, Goto, Submission
    <3>. QED
      BY <1>c, <2>1, <2>2, <3>1, NoRunIsNoRun DEF HandleOK, Exists
  <2>3. CASE g # h
    <3>1. submission'[g] = submission[g]
      BY <1>6, <1>b, <2>3 DEF send_message, Goto
    <3>. QED
      BY <1>c, <2>1, <3>1 DEF HandleOK, Exists
  <2>. QED
    BY <2>2, <2>3
<1>7. ASSUME NEW h \in Handles, check_quota(h)
      PROVE  HandleOK(g)'
  <2>1. /\ UNCHANGED <<status, mapping, log, late>>
        /\ submission[h].pc \in {"idle", "quota", "gate"}
    BY <1>7 DEF check_quota
  <2>2. CASE g = h
    <3>1. \/ submission'[g].pc \in {"quota", "gate", "create"} /\ submission'[g].run \in Runs
          \/ submission'[g].pc = "reject" /\ submission'[g].run = NoRun
      <4>1. submission[g].pc \in {"quota", "gate"} => submission[g].run \in Runs
        BY <1>c DEF HandleOK
      <4>. QED
        BY <1>7, <1>b, <2>2, <4>1 DEF check_quota, Goto, Submission
    <3>. QED
      BY <1>c, <2>1, <2>2, <3>1, NoRunIsNoRun DEF HandleOK, Exists
  <2>3. CASE g # h
    <3>1. submission'[g] = submission[g]
      BY <1>7, <1>b, <2>3 DEF check_quota, Goto
    <3>. QED
      BY <1>c, <2>1, <3>1 DEF HandleOK, Exists
  <2>. QED
    BY <2>2, <2>3
<1>8. ASSUME NEW h \in Handles, check_repository(h)
      PROVE  HandleOK(g)'
  <2>1. /\ UNCHANGED <<status, mapping, log, late>>
        /\ submission[h].pc \in {"idle", "quota", "gate"}
    BY <1>8 DEF check_repository
  <2>2. CASE g = h
    <3>1. \/ submission'[g].pc \in {"quota", "gate", "create"} /\ submission'[g].run \in Runs
          \/ submission'[g].pc = "reject" /\ submission'[g].run = NoRun
      <4>1. submission[g].pc \in {"quota", "gate"} => submission[g].run \in Runs
        BY <1>c DEF HandleOK
      <4>. QED
        BY <1>8, <1>b, <2>2, <4>1 DEF check_repository, Goto, Submission
    <3>. QED
      BY <1>c, <2>1, <2>2, <3>1, NoRunIsNoRun DEF HandleOK, Exists
  <2>3. CASE g # h
    <3>1. submission'[g] = submission[g]
      BY <1>8, <1>b, <2>3 DEF check_repository, Goto
    <3>. QED
      BY <1>c, <2>1, <3>1 DEF HandleOK, Exists
  <2>. QED
    BY <2>2, <2>3
<1>9. ASSUME NEW h \in Handles, create_or_find(h)
      PROVE  HandleOK(g)'
  BY <1>9, <1>a, <1>b, <1>c DEF create_or_find, Goto, HandleOK, Exists
<1>10. ASSUME NEW h \in Handles, persist_mapping(h)
      PROVE  HandleOK(g)'
  <2>1. CASE g = h
    <3>1. /\ mapping'[g].version = 1 /\ mapping'[g].run = submission[g].run
          /\ submission'[g].pc = "done" /\ status' = status /\ log' = log
      BY <1>10, <1>a, <1>b, <2>1 DEF persist_mapping, StoreCreate, Goto, Submission
    <3>2. submission[g].run \in Runs /\ status[submission[g].run] # "absent"
      BY <1>10, <1>c, <2>1 DEF persist_mapping, HandleOK
    <3>. QED
      BY <3>1, <3>2, NoRunIsNoRun DEF HandleOK, Exists
  <2>2. CASE g # h
    BY <1>10, <1>a, <1>b, <1>c, <2>2 DEF persist_mapping, StoreCreate, Goto, HandleOK, Exists
  <2>. QED
    BY <2>1, <2>2
<1>11. ASSUME NEW h \in Handles, reject(h)
      PROVE  HandleOK(g)'
  BY <1>11, <1>a, <1>b, <1>c DEF reject, Goto, StoreCreate, HandleOK, Exists
<1>12. ASSUME NEW h \in Handles, reject_event(h)
      PROVE  HandleOK(g)'
  BY <1>12, <1>a, <1>b, <1>c DEF reject_event, Goto, HandleOK, Exists
<1>13. ASSUME NEW h \in Handles, submission_fails(h)
      PROVE  HandleOK(g)'
  BY <1>13, <1>a, <1>b, <1>c DEF submission_fails, Goto, Spend, HandleOK, Exists
<1>14. ASSUME NEW h \in Handles, sweep_terminal_a2a_tasks(h)
      PROVE  HandleOK(g)'
  <2>1. UNCHANGED <<submission, status>> /\ submission[h].pc = "done"
    BY <1>14 DEF sweep_terminal_a2a_tasks, Quiet
  <2>2. CASE g = h
    <3>1. mapping'[g].version = 0 /\ log'[g] = <<>> /\ g \notin late'
      BY <1>14, <1>a, <1>b, <2>2 DEF sweep_terminal_a2a_tasks, NoMapping
    <3>. QED
      BY <2>1, <2>2, <3>1 DEF HandleOK, Exists
  <2>3. CASE g # h
    BY <1>14, <1>a, <1>b, <1>c, <2>1, <2>3 DEF sweep_terminal_a2a_tasks, HandleOK, Exists
  <2>. QED
    BY <2>2, <2>3
<1>15. ASSUME NEW q \in Requests, NEW h \in Handles, cancel_task(q, h)
      PROVE  HandleOK(g)'
  BY <1>15, <1>a, <1>b, <1>c DEF cancel_task, Spend, HandleOK, Exists
<1>16. ASSUME NEW q \in Requests, cancel_task_by_id(q)
      PROVE  HandleOK(g)'
  <2>1. mapping[cancel[q].h].run \in Runs
    BY <1>16 DEF cancel_task_by_id, A2AInv, CancelHolds, CancelOK
  <2>2. \A p \in Runs : status[p] # "absent" => status'[p] # "absent"
    BY <1>16, <1>a, <2>1 DEF cancel_task_by_id, FlipSilently
  <2>. QED
    BY <1>16, <1>a, <1>b, <1>c, <2>2 DEF cancel_task_by_id, HandleOK, Exists, Submission, Mapping
<1>17. ASSUME NEW q \in Requests, store_get(q)
      PROVE  HandleOK(g)'
  BY <1>17, <1>a, <1>b, <1>c DEF store_get, HandleOK, Exists
<1>18. ASSUME NEW q \in Requests, store_update(q)
      PROVE  HandleOK(g)'
  <2>1. cancel[q].h \in Handles /\ Exists(cancel[q].h) /\ mapping[cancel[q].h].run # NoRun
    BY <1>18, NoRunIsNoRun DEF store_update, A2AInv, CancelHolds, CancelOK
  <2>2. mapping[cancel[q].h].version \in Nat
    BY <1>a, <2>1 DEF Mapping
  <2>3. /\ mapping'[g].run = mapping[g].run
        /\ Exists(g)' <=> Exists(g)
        /\ mapping[g].run = NoRun => mapping'[g] = mapping[g]
    BY <1>18, <1>a, <2>1, <2>2 DEF store_update, Exists, Mapping
  <2>4. UNCHANGED <<status, log, submission, late>>
    BY <1>18 DEF store_update
  <2>. QED
    BY <1>c, <2>3, <2>4 DEF HandleOK, Exists
<1>19. ASSUME NEW q \in Requests, lock_row(q)
      PROVE  HandleOK(g)'
  BY <1>19, <1>a, <1>b, <1>c DEF lock_row, CancelGoto, HandleOK, Exists
<1>20. ASSUME NEW q \in Requests, check_final(q)
      PROVE  HandleOK(g)'
  BY <1>20, <1>a, <1>b, <1>c DEF check_final, CancelGoto, Unlock, HandleOK, Exists
<1>21. ASSUME NEW q \in Requests, append_canceled(q)
      PROVE  HandleOK(g)'
  <2>1. cancel[q].h \in Handles /\ Exists(cancel[q].h)
    BY <1>21 DEF append_canceled, A2AInv, CancelHolds, CancelOK
  <2>2. ~Exists(g) => log'[g] = log[g]
    BY <1>21, <1>b, <2>1 DEF append_canceled
  <2>. QED
    BY <1>21, <1>c, <2>2 DEF append_canceled, HandleOK, Exists
<1>22. ASSUME NEW q \in Requests, cancel_fails(q) \/ snapshot_fails(q) \/ append_fails(q)
      PROVE  HandleOK(g)'
  <2>1. UNCHANGED <<status, submission, mapping, log, late>>
    BY <1>22 DEF cancel_fails, snapshot_fails, append_fails
  <2>. QED
    BY <1>c, <2>1 DEF HandleOK, Exists
<1>23. ASSUME NEW q \in Requests, mcp_create(q)
      PROVE  HandleOK(g)'
  BY <1>23, <1>a, <1>b, <1>c DEF mcp_create, McpDone, HandleOK, Exists
<1>24. CASE UNCHANGED core
  BY <1>24, <1>c DEF HandleOK, Exists
<1>. QED
  BY Frame, <1>1, <1>2, <1>3, <1>4, <1>5, <1>6, <1>7, <1>8, <1>9, <1>10, <1>11, <1>12, <1>13,
     <1>14, <1>15, <1>16, <1>17, <1>18, <1>19, <1>20, <1>21, <1>22, <1>23, <1>24 DEF CoreStep,
     RunCore, Submit, Cancelling

-----------------------------------------------------------------------------
(* The parts of the invariant.                                             *)

\* Every step keeps a log that ends at its final event.
LEMMA StepLogs ==
    ASSUME A2AInv, [Next]_vars
    PROVE  LogEndsAtFinal'
<1>. SUFFICES ASSUME NEW g \in Handles, NEW i \in DOMAIN log'[g], log'[g][i].final
              PROVE  i = Len(log'[g])
  BY DEF LogEndsAtFinal
<1>0. log[g] \in Seq(Event) /\ log \in [Handles -> Seq(Event)]
  BY DEF A2AInv, TypeOK
<1>1. CASE log'[g] = log[g]
  BY <1>1 DEF A2AInv, LogEndsAtFinal
<1>2. CASE sweep_terminal_a2a_tasks(g)
  <2>1. log'[g] = <<>>
    BY <1>0, <1>2 DEF sweep_terminal_a2a_tasks
  <2>. QED
    BY <2>1
<1>3. CASE reject_event(g) /\ ~has_final(g)
  <2>1. log'[g] = Append(log[g], StatusEvent("REJECTED"))
    BY <1>0, <1>3 DEF reject_event
  <2>2. EndsWith(log'[g], "REJECTED")
    BY <1>0, <1>3, <2>1, AppendEnds DEF has_final, States, Terminal
  <2>. QED
    BY <2>2 DEF EndsWith
<1>4. ASSUME NEW q \in Requests, append_canceled(q), cancel[q].h = g
      PROVE  i = Len(log'[g])
  <2>1. ~has_final(g)
    BY <1>4 DEF append_canceled, A2AInv, CancelHolds, CancelOK
  <2>2. log'[g] = Append(log[g], StatusEvent("CANCELED"))
    BY <1>0, <1>4 DEF append_canceled
  <2>3. EndsWith(log'[g], "CANCELED")
    BY <1>0, <2>1, <2>2, AppendEnds DEF has_final, States, Terminal
  <2>. QED
    BY <2>3 DEF EndsWith
<1>. QED
  BY <1>1, <1>2, <1>3, <1>4, LogSteps DEF ReportReaches, EndsWith

\* A log that is final stays as it is until retention takes it.
LEMMA FinalIsFrozen ==
    ASSUME A2AInv, [Next]_vars, NEW g \in Handles, has_final(g)
    PROVE  log'[g] = log[g] \/ sweep_terminal_a2a_tasks(g)
<1>1. \A q \in Requests : append_canceled(q) => cancel[q].h # g
  BY DEF append_canceled, A2AInv, CancelHolds, CancelOK
<1>. QED
  BY <1>1, LogSteps DEF ReportReaches

\* A step that is not of request t leaves it and the lock it holds alone.
LEMMA CancelSteps ==
    ASSUME A2AInv, [Next]_vars, NEW t \in Requests, ~Cancelling(t)
    PROVE  cancel'[t] = cancel[t] /\ \A p \in Runs : lock[p] = t => lock'[p] = t
<1>. USE DEF core, runVars, taskVars, cancelVars, runOthers, submitOthers, cancelOthers, mcpOthers
<1>0. cancel \in [Requests -> Cancel] /\ lock \in [Runs -> {0} \cup Requests]
  BY DEF A2AInv, TypeOK
<1>1. t # 0
  BY A2ABounds DEF Requests
<1>2. ASSUME NEW q \in Requests, Cancelling(q)
      PROVE  cancel'[t] = cancel[t] /\ \A p \in Runs : lock[p] = t => lock'[p] = t
  <2>0. q # t
    BY <1>2
  <2>1. ASSUME NEW h \in Handles, cancel_task(q, h)
        PROVE  cancel'[t] = cancel[t] /\ UNCHANGED lock
    BY <1>0, <2>0, <2>1 DEF cancel_task
  <2>2. CASE cancel_task_by_id(q) \/ store_get(q) \/ store_update(q)
    BY <1>0, <2>0, <2>2 DEF cancel_task_by_id, store_get, store_update, CancelGoto
  <2>3. CASE lock_row(q)
    BY <1>0, <1>1, <2>0, <2>3 DEF lock_row, CancelGoto
  <2>4. CASE check_final(q) \/ append_canceled(q) \/ cancel_fails(q)
    BY <1>0, <2>0, <2>4 DEF check_final, append_canceled, cancel_fails, CancelGoto, Unlock
  <2>5. CASE snapshot_fails(q) \/ append_fails(q)
    BY <1>0, <2>0, <2>5 DEF snapshot_fails, append_fails, CancelGoto, Unlock
  <2>. QED
    BY <1>2, <2>1, <2>2, <2>3, <2>4, <2>5 DEF Cancelling
<1>3. ASSUME NEW h \in Handles, Submit(h) \/ sweep_terminal_a2a_tasks(h)
      PROVE  UNCHANGED <<cancel, lock>>
  BY <1>3 DEF Submit, send_message, check_quota, check_repository, create_or_find,
              persist_mapping, reject, reject_event, submission_fails, sweep_terminal_a2a_tasks
<1>4. ASSUME NEW r \in Runs, RunCore(r)
      PROVE  UNCHANGED <<cancel, lock>>
  BY <1>4 DEF RunCore, claim, report_running, report_ended, release_task, cancel_elsewhere
<1>5. ASSUME NEW q \in Requests, mcp_create(q)
      PROVE  UNCHANGED <<cancel, lock>>
  BY <1>5 DEF mcp_create
<1>6. CASE UNCHANGED core
  BY <1>6
<1>. QED
  BY Frame, <1>2, <1>3, <1>4, <1>5, <1>6 DEF CoreStep

\* A handle that exists keeps its run until retention takes it.
LEMMA RunStays ==
    ASSUME A2AInv, [Next]_vars, NEW g \in Handles, Exists(g), ~sweep_terminal_a2a_tasks(g)
    PROVE  Exists(g)' /\ mapping'[g].run = mapping[g].run
<1>0. mapping \in [Handles -> Mapping] /\ mapping[g].version \in Nat
  BY DEF A2AInv, TypeOK, Mapping
<1>1. ~persist_mapping(g) /\ ~reject(g)
  BY DEF persist_mapping, reject, A2AInv, HandleLife, HandleOK
<1>2. ASSUME NEW q \in Requests, store_update(q), cancel[q].h = g
      PROVE  Exists(g)' /\ mapping'[g].run = mapping[g].run
  BY <1>0, <1>2 DEF store_update, Exists, Mapping
<1>. QED
  BY <1>1, <1>2, MappingSteps DEF Exists

\* A snapshot at an end stays there until retention takes it, and its version
\* moves only to one.
LEMMA SnapshotSteps ==
    ASSUME A2AInv, [Next]_vars, NEW g \in Handles, Exists(g), ~sweep_terminal_a2a_tasks(g)
    PROVE  /\ mapping[g].state \in Terminal => mapping'[g].state \in Terminal
           /\ mapping'[g].version # mapping[g].version => mapping'[g].state \in Terminal
<1>0. mapping \in [Handles -> Mapping] /\ mapping[g] \in Mapping
  BY DEF A2AInv, TypeOK
<1>1. ~persist_mapping(g) /\ ~reject(g)
  BY DEF persist_mapping, reject, A2AInv, HandleLife, HandleOK
<1>2. ASSUME NEW q \in Requests, store_update(q), cancel[q].h = g
      PROVE  mapping'[g] = mapping[g] \/ mapping'[g].state \in Terminal
  BY <1>0, <1>2 DEF store_update, Mapping, Terminal
<1>. QED
  BY <1>1, <1>2, MappingSteps

\* What a cancellation of g has lost stays on record until retention takes g.
LEMMA LostSteps ==
    ASSUME [Next]_vars, NEW g \in Handles, ~sweep_terminal_a2a_tasks(g),
           NEW k \in {"snapshot", "event"}, <<g, k>> \in lost
    PROVE  <<g, k>> \in lost'
<1>. USE DEF core, runVars, taskVars, cancelVars, runOthers, submitOthers, cancelOthers, mcpOthers
<1>1. ASSUME NEW q \in Requests, Cancelling(q) \/ mcp_create(q)
      PROVE  lost \subseteq lost'
  BY <1>1 DEF Cancelling, cancel_task, cancel_task_by_id, store_get, store_update, lock_row,
              check_final, append_canceled, cancel_fails, snapshot_fails, append_fails, mcp_create
<1>2. ASSUME NEW h \in Handles, Submit(h)
      PROVE  lost' = lost
  BY <1>2 DEF Submit, send_message, check_quota, check_repository, create_or_find, reject,
              persist_mapping, reject_event, submission_fails
<1>3. ASSUME NEW h \in Handles, h # g, sweep_terminal_a2a_tasks(h)
      PROVE  <<g, k>> \in lost'
  <2>1. <<g, k>>[1] = g
    OBVIOUS
  <2>. QED
    BY <1>3, <2>1 DEF sweep_terminal_a2a_tasks
<1>4. ASSUME NEW r \in Runs, RunCore(r)
      PROVE  lost' = lost
  BY <1>4 DEF RunCore, claim, report_running, report_ended, release_task, cancel_elsewhere
<1>5. CASE UNCHANGED core
  BY <1>5
<1>. QED
  BY Frame, <1>1, <1>2, <1>3, <1>4, <1>5 DEF CoreStep

\* The log of a handle with a run gets nothing new while a request holds the row.
LEMMA LockHoldsTheLog ==
    ASSUME A2AInv, [Next]_vars, NEW t \in Requests, ~Cancelling(t), NEW g \in Handles,
           Exists(g), mapping[g].run \in Runs, lock[mapping[g].run] = t,
           ~sweep_terminal_a2a_tasks(g)
    PROVE  log'[g] = log[g]
<1>1. ~reject_event(g)
  BY NoRunIsNoRun DEF reject_event, A2AInv, HandleLife, HandleOK
<1>2. \A q \in Requests : append_canceled(q) => cancel[q].h # g
  BY DEF append_canceled, A2AInv, CancelHolds, CancelOK, Cancelling
<1>3. t # 0
  BY A2ABounds DEF Requests
<1>4. \A r \in Runs : \A s : set_task_status(r, s) => g \notin fronts(r)
  BY <1>3 DEF set_task_status, fronts
<1>. QED
  BY <1>1, <1>2, <1>4, LogSteps DEF ReportReaches

\* Every step keeps CancelHolds.
LEMMA StepCancels ==
    ASSUME A2AInv, [Next]_vars
    PROVE  CancelHolds'
<1>. USE DEF runVars, cancelVars, streamVars, quotaVars, cancelOthers
<1>. SUFFICES ASSUME NEW t \in Requests PROVE CancelOK(t)'
  BY DEF CancelHolds
<1>0. /\ cancel \in [Requests -> Cancel] /\ lock \in [Runs -> {0} \cup Requests]
      /\ mapping \in [Handles -> Mapping] /\ CancelOK(t)
  BY DEF A2AInv, TypeOK, CancelHolds
<1>1. CASE ~Cancelling(t)
  <2>1. cancel'[t] = cancel[t] /\ \A p \in Runs : lock[p] = t => lock'[p] = t
    BY <1>1, CancelSteps
  <2>. SUFFICES ASSUME cancel[t].pc # "idle" PROVE CancelOK(t)'
    BY <2>1 DEF CancelOK
  <2>2. PICK g \in Handles : g = cancel[t].h /\ Exists(g) /\ mapping[g].run \in Runs
    BY <1>0 DEF CancelOK
  <2>3. ~sweep_terminal_a2a_tasks(g)
    BY <2>2 DEF sweep_terminal_a2a_tasks, Quiet
  <2>4. Exists(g)' /\ mapping'[g].run = mapping[g].run
    BY <2>2, <2>3, RunStays
  <2>5. cancel[t].pc = "append" => log'[g] = log[g]
    BY <1>0, <1>1, <2>2, <2>3, LockHoldsTheLog DEF CancelOK
  <2>6. /\ mapping[g].state \in Terminal => mapping'[g].state \in Terminal
        /\ mapping'[g].version # mapping[g].version => mapping'[g].state \in Terminal
    BY <2>2, <2>3, SnapshotSteps
  <2>7. <<g, "snapshot">> \in lost => <<g, "snapshot">> \in lost'
    BY <2>3, LostSteps
  <2>. QED
    BY <1>0, <2>1, <2>2, <2>4, <2>5, <2>6, <2>7 DEF CancelOK, has_final, Exists
<1>2. ASSUME NEW h \in Handles, cancel_task(t, h)
      PROVE  CancelOK(t)'
  <2>1. mapping[h].run # NoRun
    BY <1>2 DEF cancel_task, current_state, Terminal, A2AInv, HandleLife, HandleOK
  <2>2. mapping[h].run \in Runs
    BY <1>0, <2>1 DEF Mapping
  <2>. QED
    BY <1>0, <1>2, <2>2 DEF cancel_task, CancelOK, Exists
<1>3. CASE cancel_task_by_id(t) \/ store_get(t)
  BY <1>0, <1>3 DEF cancel_task_by_id, store_get, CancelGoto, CancelOK, Exists, Cancel
<1>4. CASE store_update(t)
  <2>1. PICK g \in Handles : g = cancel[t].h /\ Exists(g) /\ mapping[g].run \in Runs
    BY <1>0, <1>4 DEF store_update, CancelOK
  <2>2. ~sweep_terminal_a2a_tasks(g)
    BY <2>1 DEF sweep_terminal_a2a_tasks, Quiet
  <2>3. Exists(g)' /\ mapping'[g].run = mapping[g].run
    BY <2>1, <2>2, RunStays
  <2>4. cancel'[t].h = g /\ cancel'[t].pc = "lock"
    BY <1>0, <1>4, <2>1 DEF store_update, CancelGoto, AfterUpdate, Cancel
  <2>5. mapping'[g].state \in Terminal
    BY <1>0, <1>4, <2>1 DEF store_update, CancelOK, Mapping, Terminal
  <2>. QED
    BY <2>1, <2>3, <2>4, <2>5 DEF CancelOK, Exists
<1>5. CASE lock_row(t)
  BY <1>0, <1>5 DEF lock_row, CancelGoto, CancelOK, Exists, Cancel
<1>6. CASE check_final(t)
  <2>1. CASE has_final(cancel[t].h)
    BY <1>0, <1>6, <2>1 DEF check_final, CancelOK, NoRequest
  <2>2. CASE ~has_final(cancel[t].h)
    <3>1. PICK g \in Handles : g = cancel[t].h /\ Exists(g) /\ mapping[g].run \in Runs /\ lock[mapping[g].run] = t
      BY <1>0, <1>6 DEF check_final, CancelOK
    <3>2. /\ cancel'[t].h = g /\ cancel'[t].pc = "append"
          /\ UNCHANGED <<mapping, lock, log, lost>>
      BY <1>0, <1>6, <2>2, <3>1 DEF check_final, CancelGoto, Cancel
    <3>3. mapping[g].state \in Terminal \/ <<g, "snapshot">> \in lost
      BY <1>0, <1>6, <3>1 DEF check_final, CancelOK
    <3>. QED
      BY <2>2, <3>1, <3>2, <3>3 DEF CancelOK, Exists, has_final
  <2>. QED
    BY <2>1, <2>2
<1>7. CASE append_canceled(t) \/ cancel_fails(t) \/ append_fails(t)
  BY <1>0, <1>7 DEF append_canceled, cancel_fails, append_fails, CancelOK, NoRequest
<1>8. CASE snapshot_fails(t)
  <2>1. PICK g \in Handles : g = cancel[t].h /\ Exists(g) /\ mapping[g].run \in Runs
    BY <1>0, <1>8 DEF snapshot_fails, CancelOK
  <2>2. /\ cancel'[t].h = g /\ cancel'[t].pc = "lock" /\ mapping' = mapping
        /\ <<g, "snapshot">> \in lost'
    BY <1>0, <1>8, <2>1 DEF snapshot_fails, CancelGoto, Cancel, taskVars
  <2>. QED
    BY <2>1, <2>2 DEF CancelOK, Exists
<1>. QED
  BY <1>1, <1>2, <1>3, <1>4, <1>5, <1>6, <1>7, <1>8 DEF Cancelling

\* Only mapping a handle to a run that had ended makes it late.
LEMMA LateSteps ==
    ASSUME [Next]_vars, NEW g \in Handles
    PROVE  /\ \/ g \in late' => g \in late
              \/ persist_mapping(g) /\ status[submission[g].run] \in Ended
           /\ g \in late => g \in late' \/ sweep_terminal_a2a_tasks(g)
<1>. USE DEF core, runVars, taskVars, cancelVars, runOthers, submitOthers, cancelOthers, mcpOthers
<1>1. ASSUME NEW q \in Requests, Cancelling(q) \/ mcp_create(q)
      PROVE  UNCHANGED late
  BY <1>1 DEF Cancelling, cancel_task, cancel_task_by_id, store_get, store_update, lock_row,
              check_final, append_canceled, cancel_fails, snapshot_fails, append_fails, mcp_create
<1>2. ASSUME NEW h \in Handles, Submit(h), ~persist_mapping(h)
      PROVE  UNCHANGED late
  BY <1>2 DEF Submit, send_message, check_quota, check_repository, create_or_find, reject,
              reject_event, submission_fails
<1>3. ASSUME NEW h \in Handles, persist_mapping(h) \/ sweep_terminal_a2a_tasks(h)
      PROVE  /\ \/ g \in late' => g \in late
                \/ persist_mapping(g) /\ status[submission[g].run] \in Ended
             /\ g \in late => g \in late' \/ sweep_terminal_a2a_tasks(g)
  BY <1>3 DEF persist_mapping, sweep_terminal_a2a_tasks
<1>4. ASSUME NEW r \in Runs, RunCore(r)
      PROVE  UNCHANGED late
  BY <1>4 DEF RunCore, claim, report_running, report_ended, release_task, cancel_elsewhere
<1>5. CASE UNCHANGED core
  BY <1>5
<1>. QED
  BY Frame, <1>1, <1>2, <1>3, <1>4, <1>5 DEF CoreStep

\* Every step keeps EndsAreExcused.
LEMMA StepEnds ==
    ASSUME A2AInv, [Next]_vars
    PROVE  EndsAreExcused'
<1>. USE DEF runVars, cancelVars, streamVars, quotaVars, cancelOthers
<1>0. /\ cancel \in [Requests -> Cancel] /\ mapping \in [Handles -> Mapping]
      /\ status \in [Runs -> Statuses] /\ log \in [Handles -> Seq(Event)]
  BY DEF A2AInv, TypeOK
<1>1. ASSUME NEW g \in Handles, Exists(g)', mapping'[g].run # NoRun,
             has_final(g)' \/ mapping'[g].state \in Terminal \/ g \in late'
      PROVE  Excused(mapping[g].run)'
  <2>0. ~sweep_terminal_a2a_tasks(g)
    <3>1. sweep_terminal_a2a_tasks(g) => mapping'[g] = NoMapping
      BY <1>0 DEF sweep_terminal_a2a_tasks
    <3>. QED
      BY <1>1, <3>1 DEF Exists, NoMapping
  <2>1. CASE Exists(g)
    <3>1. PICK p \in Runs : p = mapping[g].run /\ mapping'[g].run = p
      BY <1>0, <1>1, <2>0, <2>1, RunStays DEF Mapping
    <3>2. CASE Excused(p)
      BY <3>1, <3>2, ExcusedStable DEF Excused
    <3>3. CASE ~Excused(p)
      <4>1. ~has_final(g) /\ mapping[g].state \notin Terminal /\ g \notin late
        BY <1>1, <2>1, <3>1, <3>3 DEF A2AInv, EndsAreExcused
      <4>2. \A q \in Requests : cancel[q].h = g => cancel[q].pc \in {"idle", "flip"}
        BY <3>1, <3>3 DEF A2AInv, EndsAreExcused
      <4>3. ~persist_mapping(g) /\ ~reject(g)
        BY <2>1 DEF persist_mapping, reject, A2AInv, HandleLife, HandleOK
      <4>4. mapping'[g] = mapping[g] /\ g \notin late'
        BY <2>0, <4>1, <4>2, <4>3, MappingSteps, LateSteps DEF store_update
      <4>5. has_final(g)'
        BY <1>1, <4>1, <4>4
      <4>6. log'[g] # log[g]
        BY <4>1, <4>5 DEF has_final
      <4>7. ~reject_event(g)
        BY <1>1, <3>1 DEF reject_event, A2AInv, HandleLife, HandleOK
      <4>8. PICK r \in Runs, s \in {"running", "succeeded", "failed"} :
               /\ set_task_status(r, s) /\ g \in fronts(r)
               /\ EndsWith(log'[g], task_state_from_status(s))
        BY <2>0, <4>2, <4>6, <4>7, LogSteps DEF append_canceled, ReportReaches
      <4>9. s \in Ended
        BY <4>5, <4>8, StateTypes DEF EndsWith, has_final, Active, Ended
      <4>. QED
        BY <1>0, <3>1, <4>8, <4>9 DEF set_task_status, fronts, Excused
    <3>. QED
      BY <3>2, <3>3
  <2>2. CASE ~Exists(g)
    <3>1. persist_mapping(g) \/ reject(g)
      <4>1. \A q \in Requests : store_update(q) => cancel[q].h # g
        BY <2>2 DEF store_update, A2AInv, CancelHolds, CancelOK
      <4>. QED
        BY <1>1, <2>0, <2>2, <4>1, MappingSteps DEF Exists
    <3>2. ~reject(g)
      <4>1. ASSUME reject(g)
            PROVE  mapping'[g].run = NoRun
        BY <1>0, <4>1 DEF reject, StoreCreate, A2AInv, HandleLife, HandleOK
      <4>. QED
        BY <1>1, <4>1
    <3>3. /\ mapping'[g].run = submission[g].run /\ mapping'[g].state = "SUBMITTED"
          /\ UNCHANGED <<status, log>> /\ submission[g].run \in Runs
      BY <1>0, <3>1, <3>2 DEF persist_mapping, StoreCreate, submitOthers, A2AInv, HandleLife,
         HandleOK
    <3>4. log[g] = <<>> /\ g \notin late
      BY <2>2 DEF A2AInv, HandleLife, HandleOK
    <3>5. ~has_final(g)'
      BY <3>3, <3>4 DEF has_final
    <3>6. g \in late'
      BY <1>1, <3>3, <3>5 DEF Terminal
    <3>. QED
      BY <3>1, <3>2, <3>3, <3>4, <3>6, LateSteps DEF Excused
  <2>. QED
    BY <2>1, <2>2
<1>2. ASSUME NEW t \in Requests, cancel'[t].pc \notin {"idle", "flip"}
      PROVE  Excused(mapping[cancel[t].h].run)'
  <2>1. cancel'[t].h = cancel[t].h /\ cancel[t].pc # "idle"
        /\ (cancel[t].pc = "flip" => cancel_task_by_id(t))
    <3>1. CASE ~Cancelling(t)
      BY <1>2, <3>1, CancelSteps
    <3>2. ASSUME NEW h \in Handles
          PROVE  ~cancel_task(t, h)
      BY <1>0, <1>2 DEF cancel_task
    <3>3. CASE cancel_task_by_id(t)
      BY <1>0, <3>3 DEF cancel_task_by_id, CancelGoto, Cancel
    <3>4. CASE store_get(t) \/ store_update(t) \/ lock_row(t) \/ snapshot_fails(t)
      BY <1>0, <3>4 DEF store_get, store_update, lock_row, snapshot_fails, CancelGoto, Cancel
    <3>5. CASE check_final(t)
      BY <1>0, <1>2, <3>5 DEF check_final, CancelGoto, Cancel, NoRequest
    <3>6. ~append_canceled(t) /\ ~cancel_fails(t) /\ ~append_fails(t)
      BY <1>0, <1>2 DEF append_canceled, cancel_fails, append_fails, NoRequest
    <3>. QED
      BY <3>1, <3>2, <3>3, <3>4, <3>5, <3>6 DEF Cancelling
  <2>2. PICK g \in Handles, p \in Runs : g = cancel[t].h /\ Exists(g) /\ p = mapping[g].run
    BY <2>1 DEF A2AInv, CancelHolds, CancelOK
  <2>3. ~sweep_terminal_a2a_tasks(g)
    BY <2>2 DEF sweep_terminal_a2a_tasks, Quiet
  <2>4. mapping'[g].run = p
    BY <2>2, <2>3, RunStays
  <2>5. CASE Excused(p)
    BY <2>1, <2>2, <2>4, <2>5, ExcusedStable DEF Excused
  <2>6. CASE ~Excused(p)
    <3>1. cancel_task_by_id(t)
      BY <2>1, <2>2, <2>6 DEF A2AInv, EndsAreExcused
    <3>2. status[p] \in Active
      BY <1>0, <2>2, <2>6, NoRunIsNoRun DEF A2AInv, HandleLife, HandleOK, Excused, Statuses
    <3>. QED
      BY <2>1, <2>2, <2>4, <3>1, <3>2 DEF cancel_task_by_id, FlipSilently, Excused
  <2>. QED
    BY <2>5, <2>6
<1>. QED
  BY <1>1, <1>2 DEF EndsAreExcused

\* A stream's own step touches nothing the other invariants speak of.
LEMMA StreamFrame ==
    ASSUME NEW s \in Streams, Streaming(s)
    PROVE  UNCHANGED core
  BY DEF core, runVars, taskVars, cancelVars, streamOthers, Streaming, StreamStep, subscribe,
         try_acquire, replay, tail_drain, backstop, final_drain, stream_cut

\* Who moves a stream: itself, or the sweep of its handle.
LEMMA StreamSteps ==
    ASSUME A2AInv, [Next]_vars, NEW t \in Streams
    PROVE  \/ stream'[t] = stream[t]
           \/ Streaming(t)
           \/ stream'[t].h = 0 /\ stream'[t].pc = "cut"
<1>. USE DEF vars, taskVars, streamVars, quotaVars, runOthers, submitOthers, cancelOthers,
             hookOthers, mcpOthers
<1>0. stream \in [Streams -> Stream]
  BY DEF A2AInv, TypeOK
<1>1. ASSUME NEW s \in Streams, Streaming(s), s # t
      PROVE  stream'[t] = stream[t]
  BY <1>0, <1>1 DEF Streaming, StreamStep, subscribe, try_acquire, replay, tail_drain, backstop,
                    final_drain, stream_cut, StreamGoto, Drain, Advance
<1>2. ASSUME NEW h \in Handles, sweep_terminal_a2a_tasks(h)
      PROVE  stream'[t] = stream[t] \/ (stream'[t].h = 0 /\ stream'[t].pc = "cut")
  BY <1>0, <1>2 DEF sweep_terminal_a2a_tasks, Stream
<1>3. ASSUME NEW r \in Runs, RunStep(r)
      PROVE  UNCHANGED stream
  BY <1>3 DEF RunStep, claim, report_running, finalize_review, report_ended, self_cancel,
              job_retries, release_task, cancel_elsewhere
<1>4. ASSUME NEW h \in Handles, Submit(h)
      PROVE  UNCHANGED stream
  BY <1>4 DEF Submit, send_message, check_quota, check_repository, create_or_find,
              persist_mapping, reject, reject_event, submission_fails
<1>5. ASSUME NEW q \in Requests, Cancelling(q)
      PROVE  UNCHANGED stream
  BY <1>5 DEF Cancelling, cancel_task, cancel_task_by_id, store_get, store_update, lock_row,
              check_final, append_canceled, cancel_fails, snapshot_fails, append_fails
<1>6. ASSUME NEW q \in Requests, Mcp(q)
      PROVE  UNCHANGED stream
  BY <1>6 DEF Mcp, start_review, advisory_lock, mcp_count, mcp_insert, mcp_create, mcp_fails
<1>7. ASSUME Hooking \/ \E h \in Handles : age(h)
      PROVE  UNCHANGED stream
  BY <1>7 DEF Hooking, create_push_config, insert_push_config, delete_push_config, age
<1>8. CASE UNCHANGED vars
  BY <1>8
<1>. QED
  BY <1>1, <1>2, <1>3, <1>4, <1>5, <1>6, <1>7, <1>8 DEF Next, Retention

\* A log that is not swept keeps its length or gets one end more.
LEMMA LogGrows ==
    ASSUME A2AInv, [Next]_vars, NEW g \in Handles, ~sweep_terminal_a2a_tasks(g)
    PROVE  \/ log'[g] = log[g]
           \/ \E st \in States : EndsWith(log'[g], st) /\ Len(log'[g]) > Len(log[g])
<1>0. log[g] \in Seq(Event) /\ log \in [Handles -> Seq(Event)]
  BY DEF A2AInv, TypeOK
<1>1. CASE reject_event(g) /\ ~has_final(g)
  <2>1. log'[g] = Append(log[g], StatusEvent("REJECTED"))
    BY <1>0, <1>1 DEF reject_event
  <2>. QED
    BY <1>0, <1>1, <2>1, AppendEnds DEF has_final, States, Terminal
<1>2. ASSUME NEW q \in Requests, append_canceled(q), cancel[q].h = g
      PROVE  \E st \in States : EndsWith(log'[g], st) /\ Len(log'[g]) > Len(log[g])
  <2>1. ~has_final(g)
    BY <1>2 DEF append_canceled, A2AInv, CancelHolds, CancelOK
  <2>2. log'[g] = Append(log[g], StatusEvent("CANCELED"))
    BY <1>0, <1>2 DEF append_canceled
  <2>. QED
    BY <1>0, <2>1, <2>2, AppendEnds DEF has_final, States, Terminal
<1>3. \A s \in {"running", "succeeded", "failed"} : task_state_from_status(s) \in States
  BY StateTypes DEF Active, Ended
<1>. QED
  BY <1>1, <1>2, <1>3, LogSteps DEF ReportReaches

\* What draining the log shows: everything, or everything up to the final event.
LEMMA DrainShows ==
    ASSUME A2AInv, NEW s \in Streams, stream[s].pc \in {"replay", "tail", "drain"},
           NEW next \in {"tail", "backstop", "closed"}, Drain(s, next), NEW g \in Handles,
           g = stream[s].h
    PROVE  /\ stream'[s].h = g /\ stream'[s].terminal = stream[s].terminal
           /\ stream'[s].seen <= Len(log[g])
           /\ has_final(g) => /\ stream'[s].pc = "closed"
                              /\ stream'[s].seen \in DOMAIN log[g] /\ log[g][stream'[s].seen].final
           /\ ~has_final(g) => stream'[s].pc = next
<1>0. stream \in [Streams -> Stream] /\ log[g] \in Seq(Event)
  BY DEF A2AInv, TypeOK
<1>1. Finals(s) = {i \in DOMAIN log[g] : log[g][i].final}
  <2>1. \A i \in DOMAIN log[g] : log[g][i].final => i > stream[s].seen
    BY DEF A2AInv, StreamFollows, StreamOK
  <2>. QED
    BY <2>1 DEF Finals
<1>2. Finals(s) # {} <=> has_final(g)
  BY <1>1 DEF has_final
<1>3. LastShown(s) \in Nat /\ (Finals(s) # {} => LastShown(s) \in Finals(s))
  BY DrainTypes
<1>4. LastShown(s) <= Len(log[g])
  <2>1. \A i \in DOMAIN log[g] : i <= Len(log[g])
    BY <1>0
  <2>2. Len(log[g]) \in Nat
    BY <1>0
  <2>. QED
    BY <1>1, <1>3, <2>1, <2>2 DEF LastShown
<1>5. /\ stream'[s].h = g /\ stream'[s].terminal = stream[s].terminal
      /\ stream'[s].seen = LastShown(s)
      /\ stream'[s].pc = IF Finals(s) = {} THEN next ELSE "closed"
  BY <1>0 DEF Drain, Advance, Stream
<1>. QED
  BY <1>1, <1>2, <1>3, <1>4, <1>5

\* Every step keeps StreamFollows.
LEMMA StepStreams ==
    ASSUME A2AInv, [Next]_vars
    PROVE  StreamFollows'
<1>. SUFFICES ASSUME NEW t \in Streams PROVE StreamOK(t)'
  BY DEF StreamFollows
<1>0. /\ stream \in [Streams -> Stream] /\ mapping \in [Handles -> Mapping]
      /\ log \in [Handles -> Seq(Event)] /\ status \in [Runs -> Statuses]
      /\ StreamOK(t) /\ 0 \notin Handles
  BY DEF A2AInv, TypeOK, StreamFollows, Handles
<1>1. CASE stream'[t] = stream[t] /\ stream[t].h = 0
  BY <1>0, <1>1 DEF StreamOK
<1>2. CASE stream'[t] = stream[t] /\ stream[t].h # 0
  <2>1. PICK g \in Handles : g = stream[t].h
    BY <1>0, <1>2 DEF Stream
  <2>2. Exists(g)
    BY <1>0, <1>2, <2>1 DEF StreamOK
  <2>3. ~sweep_terminal_a2a_tasks(g)
    <3>1. sweep_terminal_a2a_tasks(g) => stream'[t] = [stream[t] EXCEPT !.h = 0, !.pc = "cut"]
      BY <2>1 DEF sweep_terminal_a2a_tasks
    <3>2. [stream[t] EXCEPT !.h = 0, !.pc = "cut"].h = 0
      BY <1>0 DEF Stream
    <3>. QED
      BY <1>2, <3>1, <3>2
  <2>4. PICK p \in Runs \cup {NoRun} : p = mapping[g].run /\ mapping'[g].run = p /\ Exists(g)'
    BY <1>0, <2>2, <2>3, RunStays DEF Mapping
  <2>5. ASSUME p # NoRun, p \notin silent', status'[p] \in Ended \/ stream[t].pc = "drain",
               ~stream[t].terminal
        PROVE  has_final(g)'
    <3>1. p \in Runs /\ p \notin silent
      BY <2>4, <2>5, StatusSteps
    <3>2. CASE has_final(g)
      BY <2>3, <3>2, FinalIsFrozen DEF has_final
    <3>3. CASE ~has_final(g)
      <4>1. status[p] \notin Ended /\ stream[t].pc # "drain"
        BY <1>0, <1>2, <2>1, <2>4, <2>5, <3>1, <3>3 DEF StreamOK
      <4>2. PICK z \in {"running", "succeeded", "failed"} : set_task_status(p, z)
        BY <2>5, <3>1, <4>1, StatusSteps DEF Active, Ended
      <4>3. z \in Ended
        BY <1>0, <2>5, <3>1, <4>1, <4>2 DEF set_task_status
      <4>4. EndsWith(log'[g], task_state_from_status(z))
        BY <2>2, <2>4, <3>3, <4>2, <4>3, TransitionEnds DEF set_task_status, fronts
      <4>. QED
        BY <4>3, <4>4, StateTypes DEF EndsWith, has_final
    <3>. QED
      BY <3>2, <3>3
  <2>6. ASSUME stream[t].pc \in {"slot", "replay", "tail", "backstop", "drain"}
        PROVE  /\ stream[t].seen <= Len(log'[g])
               /\ \A i \in DOMAIN log'[g] : log'[g][i].final => i > stream[t].seen
    <3>1. /\ stream[t].seen \in Nat /\ stream[t].seen <= Len(log[g]) /\ log[g] \in Seq(Event)
          /\ \A i \in DOMAIN log[g] : log[g][i].final => i > stream[t].seen
      BY <1>0, <2>1, <2>6 DEF StreamOK, Stream
    <3>2. CASE log'[g] = log[g]
      BY <3>1, <3>2
    <3>3. ASSUME NEW st \in States, EndsWith(log'[g], st), Len(log'[g]) > Len(log[g])
          PROVE  /\ stream[t].seen <= Len(log'[g])
                 /\ \A i \in DOMAIN log'[g] : log'[g][i].final => i > stream[t].seen
      <4>1. Len(log'[g]) \in Nat /\ Len(log[g]) \in Nat
        BY <3>1, <3>3 DEF EndsWith
      <4>2. \A i \in DOMAIN log'[g] : log'[g][i].final => i = Len(log'[g])
        BY <3>3 DEF EndsWith
      <4>3. stream[t].seen < Len(log'[g])
        BY <3>1, <3>3, <4>1
      <4>4. PICK k \in Nat, m \in Nat : k = stream[t].seen /\ m = Len(log'[g]) /\ k < m
        BY <3>1, <4>1, <4>3, Zenon
      <4>5. k <= m
        BY <4>4
      <4>6. \A i \in DOMAIN log'[g] : log'[g][i].final => i = m
        BY <4>2, <4>4
      <4>7. ASSUME NEW i \in DOMAIN log'[g], log'[g][i].final
            PROVE  i > k
        <5>1. i = m
          BY <4>6, <4>7
        <5>. QED
          BY <4>4, <5>1
      <4>. QED
        BY <4>4, <4>5, <4>7, Zenon
    <3>. QED
      BY <2>3, <3>2, <3>3, LogGrows
  <2>. QED
    BY <1>0, <1>2, <2>1, <2>4, <2>5, <2>6 DEF StreamOK
<1>3. CASE stream'[t].h = 0 /\ stream'[t].pc = "cut"
  BY <1>3 DEF StreamOK
<1>4. CASE Streaming(t)
  <2>1. UNCHANGED <<status, silent, mapping, log>>
    BY <1>4, StreamFrame DEF core
  <2>2. ASSUME NEW g \in Handles, subscribe(t, g)
        PROVE  StreamOK(t)'
    <3>1. stream'[t] = [pc |-> "slot", h |-> g, seen |-> 0, terminal |-> current_state(g) \in Terminal]
      BY <1>0, <2>2 DEF subscribe
    <3>2. Exists(g) /\ mapping[g].run \in Runs \cup {NoRun}
      BY <1>0, <2>2 DEF subscribe, Mapping
    <3>3. mapping[g].run = NoRun => current_state(g) \in Terminal
      BY <3>2 DEF A2AInv, HandleLife, HandleOK, current_state, Terminal
    <3>4. mapping[g].run # NoRun /\ status[mapping[g].run] \in Ended => current_state(g) \in Terminal
      BY StateTypes DEF current_state
    <3>5. stream'[t].terminal <=> current_state(g) \in Terminal
      <4>. DEFINE rec == [pc |-> "slot", h |-> g, seen |-> 0, terminal |-> current_state(g) \in Terminal]
      <4>1. rec.terminal <=> current_state(g) \in Terminal
        BY Zenon
      <4>2. stream'[t] = rec
        BY <3>1, Zenon
      <4>. HIDE DEF rec
      <4>. QED
        BY <4>1, <4>2
    <3>6. stream'[t].pc = "slot" /\ stream'[t].h = g /\ stream'[t].seen = 0
      BY <3>1
    <3>7. Len(log[g]) >= 0 /\ \A i \in DOMAIN log[g] : i > 0
      BY <1>0
    <3>. QED
      BY <1>0, <2>1, <3>2, <3>3, <3>4, <3>5, <3>6, <3>7 DEF StreamOK, Exists, has_final
  <2>3. CASE try_acquire(t)
    <3>1. /\ stream[t].pc = "slot" /\ stream'[t].pc \in {"replay", "cut"}
          /\ stream'[t].h = stream[t].h /\ stream'[t].seen = stream[t].seen
          /\ stream'[t].terminal = stream[t].terminal
      BY <1>0, <2>3 DEF try_acquire, StreamGoto, Stream
    <3>. QED
      BY <1>0, <2>1, <3>1 DEF StreamOK, Exists, has_final
  <2>4. CASE backstop(t)
    <3>1. PICK g \in Handles : g = stream[t].h
      BY <1>0, <2>4 DEF backstop, StreamOK, Stream
    <3>2. /\ stream[t].pc = "backstop"
          /\ stream'[t].pc = IF is_live_terminal(mapping[g].run) THEN "drain" ELSE "tail"
          /\ stream'[t].h = g /\ stream'[t].seen = stream[t].seen
          /\ stream'[t].terminal = stream[t].terminal
      BY <1>0, <2>4, <3>1 DEF backstop, StreamGoto, Stream
    <3>. QED
      BY <1>0, <2>1, <3>1, <3>2 DEF StreamOK, Exists, has_final, is_live_terminal
  <2>5. CASE replay(t) \/ tail_drain(t) \/ final_drain(t)
    <3>1. PICK next \in {"tail", "backstop", "closed"} : Drain(t, next)
      BY <2>5 DEF replay, tail_drain, final_drain
    <3>2. stream[t].pc \in {"replay", "tail", "drain"}
      BY <2>5 DEF replay, tail_drain, final_drain
    <3>3. PICK g \in Handles : g = stream[t].h
      BY <1>0, <3>2 DEF StreamOK, Stream
    <3>4. /\ stream'[t].h = g /\ stream'[t].terminal = stream[t].terminal
          /\ stream'[t].seen <= Len(log[g])
          /\ stream'[t].pc \in {"closed", next}
          /\ stream'[t].pc # "closed" => ~has_final(g)
      BY <3>1, <3>2, <3>3, DrainShows
    <3>5. stream'[t].pc # "drain"
      BY <3>4
    <3>. QED
      BY <1>0, <2>1, <3>2, <3>3, <3>4, <3>5 DEF StreamOK, Exists, has_final
  <2>6. CASE stream_cut(t)
    <3>1. /\ stream[t].pc # "idle" /\ stream'[t].pc = "cut" /\ stream'[t].h = stream[t].h
          /\ stream'[t].terminal = stream[t].terminal
      BY <1>0, <2>6 DEF stream_cut, OpenStreams, Advance, Stream
    <3>. QED
      BY <1>0, <2>1, <3>1 DEF StreamOK, Exists, has_final
  <2>. QED
    BY <1>4, <2>2, <2>3, <2>4, <2>5, <2>6 DEF Streaming, StreamStep
<1>. QED
  BY <1>1, <1>2, <1>3, <1>4, StreamSteps

-----------------------------------------------------------------------------
(* The theorems.                                                           *)

\* The initial states satisfy the inductive invariant.
LEMMA InitInv ==
    ASSUME Init
    PROVE  A2AInv
<1>1. TypeOK
  <2>1. NoMapping \in Mapping /\ NoRequest \in Cancel /\ <<>> \in Seq(Event)
    BY DEF NoMapping, Mapping, NoRequest, Cancel, States
  <2>2. NoStream \in Stream
    BY DEF NoStream, Stream
  <2>3. left \in Budget
    BY A2AWorlds DEF Init
  <2>4. 0 \in 0 .. StreamCap
    BY A2ABounds
  <2>5. /\ [pc |-> "idle", caller |-> "nobody", run |-> NoRun] \in Submission
        /\ [pc |-> "idle", caller |-> "nobody", run |-> NoRun] \in McpRequest
        /\ [pc |-> "idle", h |-> 0] \in Hook
    BY DEF Submission, McpRequest, Hook
  <2>. QED
    BY <2>1, <2>2, <2>3, <2>4, <2>5 DEF Init, TypeOK, Statuses, PodStates
<1>2. /\ \A h \in Handles : mapping[h].version = 0 /\ log[h] = <<>> /\ submission[h].pc = "idle"
      /\ \A q \in Requests : cancel[q].pc = "idle"
      /\ \A s \in Streams : stream[s].pc = "idle" /\ stream[s].h = 0
      /\ late = {}
  BY DEF Init, NoMapping, NoRequest, NoStream
<1>. QED
  BY <1>1, <1>2 DEF A2AInv, LogEndsAtFinal, HandleLife, HandleOK, CancelHolds, CancelOK,
                    EndsAreExcused, StreamFollows, StreamOK, Exists, has_final

\* The inductive invariant holds in every state.
THEOREM A2AInvariant == Spec => []A2AInv
<1>1. A2AInv /\ [Next]_vars => A2AInv'
  BY StepTypes, StepLogs, StepHandles, StepCancels, StepEnds, StepStreams DEF A2AInv
<1>. QED
  BY InitInv, <1>1, PTL DEF Spec

\* Every variable keeps its type (a2a/store.rs, a2a/events.rs, mcp/tools.rs).
THEOREM A2ATypes == Spec => []TypeOK
  BY A2AInvariant, PTL DEF A2AInv

\* events.rs appends under the row's lock and only to a log without a final
\* event: a log ends at its final event, whoever appends.
THEOREM LogsEndAtFinal == Spec => []LogEndsAtFinal
  BY A2AInvariant, PTL DEF A2AInv

\* Reports of the run reach the log of every handle mapped in time.
THEOREM ReportsReachLogs == Spec => []ReportedReachesLog
<1>1. Init => ReportedReachesLog
  BY DEF Init, ReportedReachesLog, NoMapping, Exists
<1>2. A2AInv /\ ReportedReachesLog /\ [Next]_vars => ReportedReachesLog'
  <2>. SUFFICES ASSUME A2AInv, ReportedReachesLog, [Next]_vars, NEW g \in Handles,
                       Exists(g)', mapping'[g].run # NoRun, g \notin late',
                       status'[mapping'[g].run] \in Ended,
                       mapping'[g].run \notin silent' \cup reopened'
                PROVE  /\ log'[g] # <<>>
                       /\ log'[g][Len(log'[g])] = StatusEvent(task_state_from_status(status'[mapping'[g].run]))
    BY DEF ReportedReachesLog, current_state
  <2>0. /\ mapping \in [Handles -> Mapping] /\ status \in [Runs -> Statuses]
        /\ log \in [Handles -> Seq(Event)]
    BY DEF A2AInv, TypeOK
  <2>1. ~sweep_terminal_a2a_tasks(g)
    <3>1. sweep_terminal_a2a_tasks(g) => mapping'[g] = NoMapping
      BY <2>0 DEF sweep_terminal_a2a_tasks
    <3>. QED
      BY <3>1 DEF Exists, NoMapping
  <2>2. Exists(g)
    <3>1. ~reject(g)
      <4>1. ASSUME reject(g)
            PROVE  mapping'[g].run = NoRun
        BY <2>0, <4>1 DEF reject, StoreCreate, A2AInv, HandleLife, HandleOK
      <4>. QED
        BY <4>1
    <3>2. ~persist_mapping(g)
      <4>1. ASSUME persist_mapping(g)
            PROVE  /\ mapping'[g].run = submission[g].run /\ status' = status
                   /\ status[submission[g].run] \in Ended => g \in late'
        BY <2>0, <4>1 DEF persist_mapping, StoreCreate, submitOthers, runVars
      <4>. QED
        BY <4>1
    <3>3. \A q \in Requests : store_update(q) /\ cancel[q].h = g => Exists(g)
      BY DEF store_update, A2AInv, CancelHolds, CancelOK
    <3>. QED
      BY <2>1, <3>1, <3>2, <3>3, MappingSteps DEF Exists
  <2>3. PICK p \in Runs : p = mapping[g].run /\ mapping'[g].run = p
    BY <2>0, <2>1, <2>2, RunStays DEF Mapping
  <2>4. p \notin silent \cup reopened /\ p \notin silent' \cup reopened' /\ status'[p] \in Ended
    BY <2>3, StatusSteps
  <2>5. CASE status[p] \in Ended
    <3>1. \A z : ~set_task_status(p, z)
      BY <2>4, <2>5 DEF set_task_status
    <3>2. status'[p] = status[p]
      BY <2>4, <2>5, <3>1, StatusSteps DEF Active, Ended
    <3>3. g \notin late
      BY <2>1, LateSteps
    <3>4. log[g] # <<>> /\ log[g][Len(log[g])] = StatusEvent(task_state_from_status(status[p]))
      BY <2>2, <2>3, <2>4, <2>5, <3>3, NoRunIsNoRun DEF ReportedReachesLog, current_state
    <3>5. has_final(g)
      <4>1. StatusEvent(task_state_from_status(status[p])).final
        <5>1. task_state_from_status(status[p]) \in Terminal
          BY <2>5, StateTypes
        <5>. QED
          BY <5>1, Zenon DEF StatusEvent
      <4>2. Len(log[g]) \in DOMAIN log[g]
        BY <2>0, <3>4
      <4>. QED
        BY <3>4, <4>1, <4>2 DEF has_final
    <3>6. log'[g] = log[g]
      BY <2>1, <3>5, FinalIsFrozen
    <3>. QED
      BY <2>3, <3>2, <3>4, <3>6
  <2>6. CASE status[p] \notin Ended
    <3>1. ~has_final(g)
      BY <2>2, <2>3, <2>4, <2>6, NoRunIsNoRun DEF A2AInv, EndsAreExcused, Excused
    <3>2. PICK z \in {"running", "succeeded", "failed"} : set_task_status(p, z)
      BY <2>4, <2>6, StatusSteps DEF Active, Ended
    <3>3. status'[p] = z /\ z \in Active \cup Ended
      BY <2>0, <3>2 DEF set_task_status, Active, Ended
    <3>4. EndsWith(log'[g], task_state_from_status(z))
      BY <2>2, <2>3, <3>1, <3>2, <3>3, TransitionEnds DEF set_task_status, fronts
    <3>. QED
      BY <2>3, <3>3, <3>4 DEF EndsWith
  <2>. QED
    BY <2>5, <2>6
<1>. QED
  BY <1>1, <1>2, A2AInvariant, PTL DEF Spec

\* A stream that closed by itself has shown an end.
THEOREM StreamsShowTheEnd == Spec => []StreamShowsTheEnd
<1>1. Init => StreamShowsTheEnd
  BY DEF Init, StreamShowsTheEnd, NoStream
<1>2. A2AInv /\ StreamShowsTheEnd /\ [Next]_vars => StreamShowsTheEnd'
  <2>. SUFFICES ASSUME A2AInv, StreamShowsTheEnd, [Next]_vars, NEW t \in Streams,
                       stream'[t].pc = "closed", mapping'[stream'[t].h].run \notin silent',
                       ~stream'[t].terminal
                PROVE  /\ stream'[t].seen \in DOMAIN log'[stream'[t].h]
                       /\ log'[stream'[t].h][stream'[t].seen].final
    BY DEF StreamShowsTheEnd
  <2>0. stream \in [Streams -> Stream] /\ StreamOK(t) /\ 0 \notin Handles
    BY DEF A2AInv, TypeOK, StreamFollows, Handles
  <2>1. CASE stream'[t] = stream[t]
    <3>1. PICK g \in Handles : g = stream[t].h /\ Exists(g)
      BY <2>0, <2>1 DEF StreamOK, Stream
    <3>2. ~sweep_terminal_a2a_tasks(g)
      <4>1. sweep_terminal_a2a_tasks(g) => stream'[t] = [stream[t] EXCEPT !.h = 0, !.pc = "cut"]
        BY <3>1 DEF sweep_terminal_a2a_tasks
      <4>2. [stream[t] EXCEPT !.h = 0, !.pc = "cut"].h = 0
        BY <2>0 DEF Stream
      <4>. QED
        BY <2>0, <2>1, <3>1, <4>1, <4>2
    <3>3. mapping'[g].run = mapping[g].run
      BY <3>1, <3>2, RunStays
    <3>4. stream[t].seen \in DOMAIN log[g] /\ log[g][stream[t].seen].final
      <4>1. mapping[g].run \in Runs \cup {NoRun} /\ silent \subseteq Runs
        BY DEF A2AInv, TypeOK, Mapping
      <4>2. mapping[g].run \notin silent
        BY <2>1, <3>1, <3>3, <4>1, NoRunIsNoRun, StatusSteps
      <4>. QED
        BY <2>1, <3>1, <4>2 DEF StreamShowsTheEnd
    <3>5. log'[g] = log[g]
      BY <3>2, <3>4, FinalIsFrozen DEF has_final
    <3>. QED
      BY <2>1, <3>1, <3>4, <3>5
  <2>2. CASE Streaming(t)
    <3>1. UNCHANGED <<status, silent, mapping, log>>
      BY <2>2, StreamFrame DEF core
    <3>2. /\ ~try_acquire(t) /\ ~backstop(t) /\ ~stream_cut(t)
          /\ \A h \in Handles : ~subscribe(t, h)
      BY <2>0 DEF try_acquire, backstop, stream_cut, subscribe, StreamGoto, Advance, Stream
    <3>3. PICK next \in {"tail", "backstop", "closed"} :
             /\ Drain(t, next)
             /\ stream[t].pc \in {"replay", "tail", "drain"}
             /\ next = "closed" => stream[t].terminal \/ stream[t].pc = "drain"
      BY <2>2, <3>2 DEF Streaming, StreamStep, replay, tail_drain, final_drain
    <3>4. PICK g \in Handles : g = stream[t].h
      BY <2>0, <3>3 DEF StreamOK, Stream
    <3>5. stream'[t].h = g /\ stream'[t].terminal = stream[t].terminal
      BY <3>3, <3>4, DrainShows
    <3>6. has_final(g)
      BY <2>0, <3>1, <3>3, <3>4, <3>5, DrainShows DEF StreamOK
    <3>7. stream'[t].seen \in DOMAIN log[g] /\ log[g][stream'[t].seen].final
      BY <3>3, <3>4, <3>6, DrainShows
    <3>. QED
      BY <3>1, <3>5, <3>7
  <2>. QED
    BY <2>1, <2>2, StreamSteps
<1>. QED
  BY <1>1, <1>2, A2AInvariant, PTL DEF Spec

\* A handle is settled by a cancellation that found or wrote an end, or whose
\* append failed.
LEMMA SettledSteps ==
    ASSUME A2AInv, [Next]_vars, NEW g \in Handles, g \in settled'
    PROVE  \/ g \in settled /\ ~sweep_terminal_a2a_tasks(g)
           \/ \E q \in Requests :
                 /\ cancel[q].h = g
                 /\ (check_final(q) /\ has_final(g)) \/ append_canceled(q) \/ append_fails(q)
<1>. USE DEF core, runVars, taskVars, cancelVars, runOthers, submitOthers, cancelOthers, mcpOthers
<1>0. ~sweep_terminal_a2a_tasks(g)
  BY DEF sweep_terminal_a2a_tasks
<1>1. ASSUME NEW q \in Requests, Cancelling(q), ~check_final(q), ~append_canceled(q),
             ~append_fails(q)
      PROVE  UNCHANGED settled
  BY <1>1 DEF Cancelling, cancel_task, cancel_task_by_id, store_get, store_update, AfterUpdate,
              lock_row, cancel_fails, snapshot_fails
<1>2. ASSUME NEW q \in Requests, check_final(q) \/ append_canceled(q) \/ append_fails(q),
             g \notin settled
      PROVE  /\ cancel[q].h = g
             /\ (check_final(q) /\ has_final(g)) \/ append_canceled(q) \/ append_fails(q)
  BY <1>2 DEF check_final, append_canceled, append_fails
<1>3. ASSUME NEW h \in Handles, Submit(h)
      PROVE  UNCHANGED settled
  BY <1>3 DEF Submit, send_message, check_quota, check_repository, create_or_find,
              persist_mapping, reject, reject_event, submission_fails
<1>4. ASSUME NEW h \in Handles, sweep_terminal_a2a_tasks(h)
      PROVE  g \in settled
  BY <1>4 DEF sweep_terminal_a2a_tasks
<1>5. ASSUME NEW r \in Runs, RunCore(r)
      PROVE  UNCHANGED settled
  BY <1>5 DEF RunCore, claim, report_running, report_ended, release_task, cancel_elsewhere
<1>6. ASSUME NEW q \in Requests, mcp_create(q)
      PROVE  UNCHANGED settled
  BY <1>6 DEF mcp_create
<1>7. CASE UNCHANGED core
  BY <1>0, <1>7
<1>. QED
  BY Frame, <1>0, <1>1, <1>2, <1>3, <1>4, <1>5, <1>6, <1>7 DEF CoreStep

\* An answered CancelTask leaves an end in the log of its handle; or the append
\* was lost, and its snapshot is at an end or was lost as well.
THEOREM CancelsLeaveAnEnd == Spec => []CancelLeavesAnEnd
<1>. DEFINE Left(h) == \/ mapping[h].state \in Terminal
                       \/ <<h, "snapshot">> \in lost
            Settles == CancelLeavesAnEnd /\ \A h \in settled : Exists(h)
<1>1. Init => Settles
  BY DEF Init, CancelLeavesAnEnd
<1>2. A2AInv /\ Settles /\ [Next]_vars => Settles'
  <2>. SUFFICES ASSUME A2AInv, Settles, [Next]_vars, NEW g \in settled'
                PROVE  /\ has_final(g)' \/ (<<g, "event">> \in lost' /\ Left(g)')
                       /\ Exists(g)'
    BY DEF CancelLeavesAnEnd
  <2>0. g \in Handles
    BY StepTypes DEF TypeOK
  <2>1. CASE g \in settled /\ ~sweep_terminal_a2a_tasks(g)
    <3>1. Exists(g) /\ Exists(g)'
      BY <2>0, <2>1, RunStays
    <3>2. CASE has_final(g)
      BY <2>0, <2>1, <3>1, <3>2, FinalIsFrozen DEF has_final
    <3>3. CASE <<g, "event">> \in lost /\ Left(g)
      <4>1. <<g, "event">> \in lost'
        BY <2>0, <2>1, <3>3, LostSteps
      <4>2. CASE mapping[g].state \in Terminal
        BY <2>0, <2>1, <3>1, <4>1, <4>2, SnapshotSteps
      <4>3. CASE <<g, "snapshot">> \in lost
        BY <2>0, <2>1, <3>1, <4>1, <4>3, LostSteps
      <4>. QED
        BY <3>3, <4>2, <4>3
    <3>. QED
      BY <2>1, <3>2, <3>3 DEF CancelLeavesAnEnd
  <2>a. ASSUME NEW q \in Requests, cancel[q].h = g,
               check_final(q) \/ append_canceled(q) \/ append_fails(q)
        PROVE  Exists(g)' /\ mapping' = mapping
    BY <2>a DEF check_final, append_canceled, append_fails, A2AInv, CancelHolds, CancelOK, Exists
  <2>2. ASSUME NEW q \in Requests, cancel[q].h = g, check_final(q), has_final(g)
        PROVE  has_final(g)'
    BY <2>2 DEF check_final, has_final
  <2>3. ASSUME NEW q \in Requests, cancel[q].h = g, append_canceled(q)
        PROVE  has_final(g)'
    <3>1. ~has_final(g) /\ log \in [Handles -> Seq(Event)]
      BY <2>3 DEF append_canceled, A2AInv, TypeOK, CancelHolds, CancelOK
    <3>2. log'[g] = Append(log[g], StatusEvent("CANCELED"))
      BY <2>0, <2>3, <3>1 DEF append_canceled
    <3>3. EndsWith(log'[g], "CANCELED") /\ "CANCELED" \in Terminal
      BY <2>0, <3>1, <3>2, AppendEnds DEF has_final, States, Terminal
    <3>. QED
      BY <3>3 DEF EndsWith, has_final
  <2>4. ASSUME NEW q \in Requests, cancel[q].h = g, append_fails(q)
        PROVE  <<g, "event">> \in lost' /\ Left(g)'
    <3>1. Left(g)
      BY <2>4 DEF append_fails, A2AInv, CancelHolds, CancelOK
    <3>2. mapping' = mapping /\ lost' = lost \cup {<<g, "event">>}
      BY <2>4 DEF append_fails
    <3>. QED
      BY <3>1, <3>2
  <2>. QED
    BY <2>0, <2>1, <2>a, <2>2, <2>3, <2>4, SettledSteps
<1>. QED
  BY <1>1, <1>2, A2AInvariant, PTL DEF Spec

\* Retention takes no handle of a run that is still going.
THEOREM SweepsSpareLiveRuns == Spec => SweepSparesLiveRuns
<1>1. ASSUME A2AInv, [Next]_vars, NEW g \in Handles, Exists(g), ~Exists(g)', mapping[g].run # NoRun
      PROVE  status[mapping[g].run] \in Ended \/ mapping[g].run \in silent \cup reopened
  <2>1. sweep_terminal_a2a_tasks(g)
    BY <1>1, RunStays
  <2>2. has_final(g) \/ mapping[g].state \in Terminal
    BY <2>1 DEF sweep_terminal_a2a_tasks, Sweepable
  <2>. QED
    BY <1>1, <2>2 DEF A2AInv, EndsAreExcused, Excused
<1>2. A2AInv /\ [Next]_vars =>
        [\A h \in Handles :
           (Exists(h) /\ ~Exists(h)' /\ mapping[h].run # NoRun)
              => \/ status[mapping[h].run] \in Ended
                 \/ mapping[h].run \in silent \cup reopened]_vars
  BY <1>1
<1>. QED
  BY <1>2, A2AInvariant, PTL DEF Spec, SweepSparesLiveRuns

\* What an MCP reservation holds while it counts and inserts.
McpInv ==
    /\ mcp \in [Requests -> McpRequest]
    /\ advisory \in [Callers -> {0} \cup Requests]
    /\ deliveries \in [Callers -> Nat]
    /\ McpReserves /\ McpQuotaHolds

\* The advisory lock makes the MCP count and insert one: the quota is never
\* exceeded, whatever runs concurrently (mcp/tools.rs, reserve_mcp_run_slot).
THEOREM McpQuota == Spec => []McpQuotaHolds
<1>1. Init => McpInv
  BY A2ABounds DEF Init, McpInv, McpReserves, McpQuotaHolds, McpRequest
<1>2. McpInv /\ [Next]_vars => McpInv'
  <2>. SUFFICES ASSUME McpInv, [Next]_vars PROVE McpInv'
    OBVIOUS
  <2>. USE DEF vars, runVars, taskVars, cancelVars, streamVars, quotaVars, runOthers, submitOthers,
               cancelOthers, streamOthers, hookOthers, mcpOthers
  <2>0. /\ mcp \in [Requests -> McpRequest] /\ advisory \in [Callers -> {0} \cup Requests]
        /\ deliveries \in [Callers -> Nat] /\ QuotaMax \in Nat /\ 0 \notin Requests
    BY A2ABounds DEF McpInv, Requests
  <2>a. \A t \in Requests : mcp[t].pc # "idle" => mcp[t].caller \in Callers
    BY DEF McpInv, McpReserves
  <2>b. \A t \in Requests : mcp[t].pc \in {"count", "insert"} => advisory[mcp[t].caller] = t
    BY DEF McpInv, McpReserves
  <2>c. \A t \in Requests : mcp[t].pc = "insert" => deliveries[mcp[t].caller] < QuotaMax
    BY DEF McpInv, McpReserves
  <2>d. \A c \in Callers : deliveries[c] <= QuotaMax
    BY DEF McpInv, McpQuotaHolds
  <2>1. ASSUME NEW q \in Requests, NEW c \in Callers, NEW r \in Runs, start_review(q, c, r)
        PROVE  McpInv'
    <3>1. [pc |-> "lock", caller |-> c, run |-> r] \in McpRequest
      BY DEF McpRequest
    <3>2. /\ mcp' = [mcp EXCEPT ![q] = [pc |-> "lock", caller |-> c, run |-> r]]
          /\ UNCHANGED <<advisory, deliveries>>
      BY <2>1 DEF start_review
    <3>. QED
      BY <2>0, <2>a, <2>b, <2>c, <2>d, <3>1, <3>2 DEF McpInv, McpReserves, McpQuotaHolds
  <2>2. ASSUME NEW q \in Requests, advisory_lock(q)
        PROVE  McpInv'
    <3>1. mcp' \in [Requests -> McpRequest] /\ advisory' \in [Callers -> {0} \cup Requests]
      BY <2>0, <2>2 DEF advisory_lock, McpRequest
    <3>2. /\ \A t \in Requests : mcp'[t].caller = mcp[t].caller /\ (t # q => mcp'[t] = mcp[t])
          /\ mcp'[q].pc = "count" /\ mcp[q].pc = "lock" /\ deliveries' = deliveries
          /\ advisory' = [advisory EXCEPT ![mcp[q].caller] = q]
          /\ advisory[mcp[q].caller] = 0
      BY <2>0, <2>2 DEF advisory_lock, McpRequest
    <3>3. \A t \in Requests : mcp'[t].pc \in {"count", "insert"} => advisory'[mcp'[t].caller] = t
      BY <2>0, <2>a, <2>b, <3>2
    <3>. QED
      BY <2>0, <2>a, <2>c, <2>d, <3>1, <3>2, <3>3 DEF McpInv, McpReserves, McpQuotaHolds
  <2>3. ASSUME NEW q \in Requests, McpDone(q), UNCHANGED deliveries,
               AdvisoryUnlock(q) \/ (mcp[q].pc = "create" /\ UNCHANGED advisory)
        PROVE  McpInv'
    <3>1. [pc |-> "idle", caller |-> "nobody", run |-> NoRun] \in McpRequest
      BY DEF McpRequest
    <3>2. mcp' \in [Requests -> McpRequest] /\ advisory' \in [Callers -> {0} \cup Requests]
      BY <2>0, <2>3, <3>1 DEF McpDone, AdvisoryUnlock
    <3>3. mcp'[q].pc = "idle" /\ \A t \in Requests : t # q => mcp'[t] = mcp[t]
      BY <2>0, <2>3 DEF McpDone
    <3>4. \A c \in Callers : advisory[c] # q => advisory'[c] = advisory[c]
      BY <2>3 DEF AdvisoryUnlock
    <3>. QED
      BY <2>0, <2>3, <2>a, <2>b, <2>c, <2>d, <3>2, <3>3, <3>4 DEF McpInv, McpReserves, McpQuotaHolds
  <2>4. ASSUME NEW q \in Requests, mcp[q].pc = "count", deliveries[mcp[q].caller] < QuotaMax,
               mcp' = [mcp EXCEPT ![q].pc = "insert"], UNCHANGED <<advisory, deliveries>>
        PROVE  McpInv'
    <3>1. mcp' \in [Requests -> McpRequest]
      BY <2>0, <2>4 DEF McpRequest
    <3>2. \A t \in Requests : mcp'[t].caller = mcp[t].caller /\ (t # q => mcp'[t] = mcp[t])
      BY <2>0, <2>4 DEF McpRequest
    <3>. QED
      BY <2>0, <2>4, <2>a, <2>b, <2>c, <2>d, <3>1, <3>2 DEF McpInv, McpReserves, McpQuotaHolds
  <2>5. ASSUME NEW q \in Requests, mcp_insert(q)
        PROVE  McpInv'
    <3>1. /\ mcp' \in [Requests -> McpRequest] /\ advisory' \in [Callers -> {0} \cup Requests]
          /\ deliveries' \in [Callers -> Nat]
      <4>1. deliveries' \in [Callers -> Nat]
        BY <2>0, <2>5, CountUp DEF mcp_insert
      <4>. QED
        BY <2>0, <2>5, <4>1 DEF mcp_insert, McpRequest, AdvisoryUnlock
    <3>2. /\ mcp[q].pc = "insert" /\ mcp'[q].pc = "create" /\ mcp'[q].caller = mcp[q].caller
          /\ \A t \in Requests : t # q => mcp'[t] = mcp[t]
          /\ \A c \in Callers : advisory[c] # q => advisory'[c] = advisory[c]
      BY <2>0, <2>5 DEF mcp_insert, AdvisoryUnlock, McpRequest
    <3>3. \A c \in Callers : deliveries'[c] = IF c = mcp[q].caller THEN deliveries[c] + 1 ELSE deliveries[c]
      BY <2>0, <2>5 DEF mcp_insert
    <3>4. \A t \in Requests : t # q /\ mcp[t].pc = "insert" => mcp[t].caller # mcp[q].caller
      BY <2>b, <3>2
    <3>. QED
      BY <2>0, <2>a, <2>b, <2>c, <2>d, <3>1, <3>2, <3>3, <3>4 DEF McpInv, McpReserves, McpQuotaHolds
  <2>6. ASSUME NEW q \in Requests, Mcp(q)
        PROVE  McpInv'
    <3>1. CASE mcp_count(q)
      <4>1. CASE deliveries[mcp[q].caller] >= QuotaMax
        BY <2>3, <3>1, <4>1 DEF mcp_count
      <4>2. CASE ~(deliveries[mcp[q].caller] >= QuotaMax)
        <5>1. deliveries[mcp[q].caller] < QuotaMax
          BY <2>0, <2>a, <3>1, <4>2 DEF mcp_count
        <5>. QED
          BY <2>4, <3>1, <4>2, <5>1 DEF mcp_count
      <4>. QED
        BY <4>1, <4>2
    <3>2. CASE mcp_create(q)
      BY <2>3, <3>2 DEF mcp_create
    <3>3. CASE mcp_fails(q)
      BY <2>3, <3>3 DEF mcp_fails
    <3>. QED
      BY <2>1, <2>2, <2>5, <2>6, <3>1, <3>2, <3>3 DEF Mcp
  <2>7. ASSUME UNCHANGED <<mcp, advisory, deliveries>>
        PROVE  McpInv'
    BY <2>7 DEF McpInv, McpReserves, McpQuotaHolds
  <2>8. ASSUME NEW r \in Runs, RunStep(r)
        PROVE  UNCHANGED <<mcp, advisory, deliveries>>
    BY <2>8 DEF RunStep, claim, report_running, finalize_review, report_ended, self_cancel,
                job_retries, release_task, cancel_elsewhere
  <2>9. ASSUME NEW h \in Handles, Submit(h)
        PROVE  UNCHANGED <<mcp, advisory, deliveries>>
    BY <2>9 DEF Submit, send_message, check_quota, check_repository, create_or_find,
                persist_mapping, reject, reject_event, submission_fails
  <2>10. ASSUME NEW q \in Requests, Cancelling(q)
         PROVE  UNCHANGED <<mcp, advisory, deliveries>>
    BY <2>10 DEF Cancelling, cancel_task, cancel_task_by_id, store_get, store_update, lock_row,
                 check_final, append_canceled, cancel_fails, snapshot_fails, append_fails
  <2>11. ASSUME NEW s \in Streams, Streaming(s)
         PROVE  UNCHANGED <<mcp, advisory, deliveries>>
    BY <2>11 DEF Streaming, StreamStep, subscribe, try_acquire, replay, tail_drain, backstop,
                 final_drain, stream_cut
  <2>12. ASSUME Hooking \/ Retention
         PROVE  UNCHANGED <<mcp, advisory, deliveries>>
    BY <2>12 DEF Hooking, create_push_config, insert_push_config, delete_push_config, Retention,
                 age, sweep_terminal_a2a_tasks
  <2>13. CASE UNCHANGED vars
    BY <2>7, <2>13
  <2>. QED
    BY <2>6, <2>7, <2>8, <2>9, <2>10, <2>11, <2>12, <2>13 DEF Next
<1>3. McpInv => McpQuotaHolds
  BY DEF McpInv
<1>. QED
  BY <1>1, <1>2, <1>3, PTL DEF Spec

=============================================================================
