---------------------------- MODULE EgressProofs ----------------------------
(***************************************************************************)
(* Theorems about Egress, for any set of tasks and findings, any bounds    *)
(* and any configuration.                                                  *)
(***************************************************************************)
EXTENDS Egress, TLAPS

\* Nothing of the task moves any more.
Still(t) == /\ status[t] \in {"succeeded", "failed", "cancelled"}
            /\ run[t] = "none" /\ pods[t] = 0 /\ sig[t] = "none"
            /\ fz[t] = "idle" /\ fh[t] = "idle"

\* What a step of the task's own processes (serve, dispatcher, runner) may do
\* to what the reconciler and the other tasks rely on: insert one row under a
\* free key, write the silent review, and nothing once the task is still.
Produces(t) ==
    /\ ~Still(t)
    /\ \A u \in Tasks \ {t} : /\ status'[u] = status[u] /\ run'[u] = run[u]
                              /\ pods'[u] = pods[u] /\ sig'[u] = sig[u]
                              /\ fz'[u] = fz[u] /\ fh'[u] = fh[u]
    /\ \/ st' = st
       \/ \E k \in Kinds : /\ Free(<<t, k>>)
                           /\ st' = [st EXCEPT ![<<t, k>>] = "pending"]
    /\ \/ reviews' = reviews
       \/ reviews[t] = "none" /\ reviews' = [reviews EXCEPT ![t] = "silent"]
    /\ UNCHANGED <<rcVars, posts, unsure>>

\* The updates of a pending-review buffer keep its type.
LEMMA BufferTypes ==
    ASSUME NEW f \in [Tasks -> Buffer], NEW t \in Tasks
    PROVE  /\ EmptyBuffer \in Buffer
           /\ \A b \in Buffer : [f EXCEPT ![t] = b] \in [Tasks -> Buffer]
           /\ [f EXCEPT ![t].comments = FALSE] \in [Tasks -> Buffer]
           /\ [f EXCEPT ![t].inline = {}, ![t].summary = FALSE] \in [Tasks -> Buffer]
BY DEF Buffer, EmptyBuffer

\* An INSERT ... ON CONFLICT DO NOTHING keeps the types of the outbox columns.
LEMMA InsertTypes ==
    ASSUME OutboxTypes, NEW r \in Rows, enqueue_outbox_post(r)
    PROVE  /\ st' \in [Rows -> RowState]
           /\ att' \in [Rows -> Nat] /\ id' \in [Rows -> Nat]
<1>1. CASE ~Inserts(r)
  BY <1>1 DEF OutboxTypes, enqueue_outbox_post, rowVars
<1>2. CASE Inserts(r)
  <2>1. PICK n \in 1..IdBound : /\ st' = [st EXCEPT ![r] = "pending"]
                                /\ att' = [att EXCEPT ![r] = 0]
                                /\ id' = [id EXCEPT ![r] = n]
    BY <1>2 DEF enqueue_outbox_post
  <2>2. n \in Nat
    BY <2>1, BoundsAssumption
  <2>. QED
    BY <2>1, <2>2 DEF OutboxTypes, RowState, Unsettled
<1>. QED
  BY <1>1, <1>2

\* So do the intents without a payload of their own, ...
LEMMA EnqueueTypes ==
    ASSUME OutboxTypes, NEW t \in Tasks, NEW k \in Kinds, enqueue(t, k)
    PROVE  OutboxTypes'
BY InsertTypes, <<t, k>> \in Rows DEF enqueue, OutboxTypes, loadVars, Rows

\* ... the reviews, ...
LEMMA ReviewTypes ==
    ASSUME OutboxTypes, NEW t \in Tasks, NEW fs \in SUBSET Findings,
           enqueue_review(t, fs)
    PROVE  OutboxTypes'
BY InsertTypes, <<t, "review">> \in Rows
   DEF enqueue_review, OutboxTypes, Rows, Kinds

\* ... the thumbs, ...
LEMMA VerdictTypes ==
    ASSUME OutboxTypes, NEW t \in Tasks, NEW c \in {"none", "+1", "-1"},
           enqueue_verdict_reaction(t, c)
    PROVE  OutboxTypes'
BY InsertTypes, <<t, "verdict">> \in Rows
   DEF enqueue_verdict_reaction, OutboxTypes, Rows, Kinds

\* ... and the conclusions of the check run.
LEMMA ResolveTypes ==
    ASSUME OutboxTypes, NEW t \in Tasks, NEW c \in Conclusion,
           enqueue_check_run_resolve(t, c)
    PROVE  OutboxTypes'
BY InsertTypes, <<t, "resolve">> \in Rows
   DEF enqueue_check_run_resolve, OutboxTypes, Rows, Kinds

\* A step that enqueues nothing, or whose signal is lost, changes no row.
LEMMA LostTypes == ASSUME OutboxTypes, Nothing \/ Lost PROVE OutboxTypes'
BY DEF OutboxTypes, Nothing, Lost, rowVars, loadVars


\* A step of a task's own processes keeps the types.
LEMMA ProducerTypes ==
    ASSUME TypeOK, NEW t \in Tasks, Serve(t) \/ Dispatcher(t) \/ Runner(t)
    PROVE  TypeOK'
<1>. USE DEF TypeOK, TaskTypes, HandlerTypes, OutboxTypes, RecordTypes,
     ReconcilerTypes, Status, RunState, Outcome, Conclusion, FzPC, FhPC,
     vars, serveVars, taskVars, fzVars, fhVars, rowVars, loadVars,
     recordVars, rcVars, hubVars
<1>1. CASE create(t)
  BY <1>1 DEF create
<1>2. CASE Cancel(t)
  BY <1>2 DEF Cancel
<1>3. CASE resolve_cancelled_check_run(t)
  BY <1>3 DEF resolve_cancelled_check_run
<1>4. CASE FailureHandlerDropped(t)
  BY <1>4 DEF FailureHandlerDropped
<1>5. CASE dispatch(t)
  BY <1>5, BoundsAssumption DEF dispatch
<1>6. CASE SignalsDropped(t)
  BY <1>6 DEF SignalsDropped
<1>7. CASE ReaperFails(t)
  BY <1>7 DEF ReaperFails
<1>8. CASE ReportRunning(t)
  <2>1. buf' \in [Tasks -> Buffer]
    <3>1. [buf EXCEPT ![t] = EmptyBuffer] \in [Tasks -> Buffer]
      BY BufferTypes, Zenon
    <3>. QED
      BY <1>8, <3>1 DEF ReportRunning
  <2>2. pods' \in [Tasks -> Nat]
    BY <1>8 DEF ReportRunning
  <2>. QED
    BY <1>8, <2>1, <2>2 DEF ReportRunning
<1>9. CASE perform_review(t)
  BY <1>9, BufferTypes DEF perform_review
<1>10. CASE ReviewRunFails(t)
  BY <1>10 DEF ReviewRunFails
<1>11. CASE RunFails(t)
  BY <1>11 DEF RunFails
<1>12. CASE PodDies(t)
  BY <1>12 DEF PodDies
<1>13. CASE ReportSucceeded(t)
  BY <1>13 DEF ReportSucceeded
<1>14. CASE ReportFailed(t)
  BY <1>14 DEF ReportFailed
<1>15. CASE finalize_respond(t)
  BY <1>15, BufferTypes DEF finalize_respond, FzEnd
<1>16. CASE FinalizeFails(t)
  BY <1>16, BufferTypes DEF FinalizeFails, FzEnd
<1>17. CASE react_work_started(t)
  BY <1>17, EnqueueTypes, LostTypes DEF react_work_started, Kinds
<1>18. CASE start_check_run_signal(t)
  BY <1>18, EnqueueTypes, LostTypes DEF start_check_run_signal, Kinds
<1>19. CASE handle_review_failure(t)
  <2>1. OutboxTypes'
    <3>. HIDE DEF OutboxTypes
    <3>. QED
      BY <1>19, EnqueueTypes, ResolveTypes, LostTypes
         DEF handle_review_failure, Kinds
  <2>2. fh' \in [Tasks -> FhPC]
    BY <1>19 DEF handle_review_failure
  <2>. QED
    BY <1>19, <2>1, <2>2 DEF handle_review_failure
<1>20. CASE load_pending_review(t)
  BY <1>20, BufferTypes DEF load_pending_review, FzGoto, FzFrame, Nothing
<1>21. CASE finalize_replies(t)
  <2>1. OutboxTypes'
    <3>. HIDE DEF OutboxTypes
    <3>. QED
      BY <1>21, EnqueueTypes, LostTypes DEF finalize_replies, Kinds
  <2>2. buf' \in [Tasks -> Buffer]
    <3>1. [buf EXCEPT ![t].comments = FALSE] \in [Tasks -> Buffer]
      BY BufferTypes, Zenon
    <3>. QED
      BY <1>21, <3>1 DEF finalize_replies
  <2>3. fz' \in [Tasks -> FzPC]
    BY <1>21 DEF finalize_replies, FzGoto
  <2>. QED
    BY <1>21, <2>1, <2>2, <2>3 DEF finalize_replies, FzFrame
<1>22. CASE dedup_against_posted(t)
  <2>1. snap[t].inline \subseteq Findings
    BY DEF Buffer
  <2>2. kept' \in [Tasks -> SUBSET Findings]
    BY <1>22, <2>1 DEF dedup_against_posted
  <2>3. fz' \in [Tasks -> FzPC]
    BY <1>22 DEF dedup_against_posted, FzGoto
  <2>. QED
    BY <1>22, <2>2, <2>3 DEF dedup_against_posted, FzFrame, Nothing
<1>23. CASE suppress_clean(t)
  <2>1. fz' \in [Tasks -> FzPC]
    BY <1>23 DEF suppress_clean, FzGoto
  <2>. QED
    BY <1>23, <2>1 DEF suppress_clean, FzFrame, Nothing
<1>24. CASE clean_guard(t)
  BY <1>24 DEF clean_guard, FzGoto, FzFrame, Nothing
<1>25. CASE insert_review_if_absent(t)
  BY <1>25 DEF insert_review_if_absent, FzGoto, FzFrame, Nothing
<1>26. CASE clean_verdict(t)
  BY <1>26, VerdictTypes DEF clean_verdict, FzGoto, FzFrame
<1>27. CASE finalize_queue_review(t)
  BY <1>27, ReviewTypes DEF finalize_queue_review, FzGoto, FzFrame
<1>28. CASE clear_pending_action(t)
  <2>1. buf' \in [Tasks -> Buffer]
    <3>1. [buf EXCEPT ![t].inline = {}, ![t].summary = FALSE] \in [Tasks -> Buffer]
      BY BufferTypes, Zenon
    <3>. QED
      BY <1>28, <3>1 DEF clear_pending_action
  <2>2. fz' \in [Tasks -> FzPC]
    BY <1>28 DEF clear_pending_action, FzGoto
  <2>. QED
    BY <1>28, <2>1, <2>2 DEF clear_pending_action, FzFrame, Nothing
<1>29. CASE finalize_react(t)
  BY <1>29, EnqueueTypes, VerdictTypes, LostTypes DEF finalize_react, FzGoto,
    FzFrame, policy_verdict, Kinds
<1>30. CASE finalize_resolve(t)
  BY <1>30, ResolveTypes, LostTypes DEF finalize_resolve, FzGoto, FzFrame, resolve_check_conclusion
<1>. QED
  BY <1>1, <1>2, <1>3, <1>4, <1>5, <1>6, <1>7, <1>8, <1>9, <1>10, <1>11,
     <1>12, <1>13, <1>14, <1>15, <1>16, <1>17, <1>18, <1>19, <1>20, <1>21,
     <1>22, <1>23, <1>24, <1>25, <1>26, <1>27, <1>28, <1>29, <1>30 DEF
     Serve, Dispatcher, Runner, finalize_review

\* A step of a task's own processes does to the shared state what Produces
\* allows.
LEMMA ProducerSteps ==
    ASSUME TypeOK, NEW t \in Tasks, Serve(t) \/ Dispatcher(t) \/ Runner(t)
    PROVE  Produces(t)
<1>. USE DEF Produces, Still, Free, Kinds, TypeOK, TaskTypes, HandlerTypes,
     OutboxTypes, RecordTypes, ReconcilerTypes, vars, serveVars, taskVars,
     fzVars, fhVars, rowVars, loadVars, recordVars, rcVars, hubVars
<1>1. CASE create(t)
  BY <1>1 DEF create
<1>2. CASE Cancel(t)
  BY <1>2 DEF Cancel
<1>3. CASE resolve_cancelled_check_run(t)
  BY <1>3 DEF resolve_cancelled_check_run
<1>4. CASE FailureHandlerDropped(t)
  BY <1>4 DEF FailureHandlerDropped
<1>5. CASE dispatch(t)
  BY <1>5 DEF dispatch
<1>6. CASE SignalsDropped(t)
  BY <1>6 DEF SignalsDropped
<1>7. CASE ReaperFails(t)
  BY <1>7 DEF ReaperFails
<1>8. CASE ReportRunning(t)
  BY <1>8 DEF ReportRunning
<1>9. CASE perform_review(t)
  BY <1>9 DEF perform_review
<1>10. CASE ReviewRunFails(t)
  BY <1>10 DEF ReviewRunFails
<1>11. CASE RunFails(t)
  BY <1>11 DEF RunFails
<1>12. CASE PodDies(t)
  BY <1>12 DEF PodDies
<1>13. CASE ReportSucceeded(t)
  BY <1>13 DEF ReportSucceeded
<1>14. CASE ReportFailed(t)
  BY <1>14 DEF ReportFailed
<1>15. CASE finalize_respond(t)
  BY <1>15 DEF finalize_respond, FzEnd
<1>16. CASE FinalizeFails(t)
  BY <1>16 DEF FinalizeFails, FzEnd
<1>17. CASE react_work_started(t)
  BY <1>17 DEF react_work_started, enqueue, Nothing, Lost,
     enqueue_outbox_post, Inserts
<1>18. CASE start_check_run_signal(t)
  BY <1>18 DEF start_check_run_signal, enqueue, Nothing, Lost,
     enqueue_outbox_post, Inserts
<1>19. CASE handle_review_failure(t)
  BY <1>19 DEF handle_review_failure, enqueue, enqueue_check_run_resolve,
     Nothing, Lost, enqueue_outbox_post, Inserts
<1>20. CASE load_pending_review(t)
  BY <1>20 DEF load_pending_review, FzGoto, FzFrame, Nothing
<1>21. CASE finalize_replies(t)
  BY <1>21 DEF finalize_replies, FzGoto, FzFrame, enqueue, Nothing,
     enqueue_outbox_post, Inserts
<1>22. CASE dedup_against_posted(t)
  BY <1>22 DEF dedup_against_posted, FzGoto, FzFrame, Nothing
<1>23. CASE suppress_clean(t)
  BY <1>23 DEF suppress_clean, FzGoto, FzFrame, Nothing
<1>24. CASE clean_guard(t)
  BY <1>24 DEF clean_guard, FzGoto, FzFrame, Nothing
<1>25. CASE insert_review_if_absent(t)
  BY <1>25 DEF insert_review_if_absent, FzGoto, FzFrame, Nothing
<1>26. CASE clean_verdict(t)
  BY <1>26 DEF clean_verdict, FzGoto, FzFrame, enqueue_verdict_reaction,
     enqueue_outbox_post, Inserts
<1>27. CASE finalize_queue_review(t)
  BY <1>27 DEF finalize_queue_review, FzGoto, FzFrame, enqueue_review,
     enqueue_outbox_post, Inserts
<1>28. CASE clear_pending_action(t)
  BY <1>28 DEF clear_pending_action, FzGoto, FzFrame, Nothing
<1>29. CASE finalize_react(t)
  BY <1>29 DEF finalize_react, FzGoto, FzFrame, enqueue_verdict_reaction,
     enqueue, Nothing, Lost, enqueue_outbox_post, Inserts
<1>30. CASE finalize_resolve(t)
  BY <1>30 DEF finalize_resolve, FzGoto, FzFrame, enqueue_check_run_resolve,
     Nothing, Lost, enqueue_outbox_post, Inserts
<1>. QED
  BY <1>1, <1>2, <1>3, <1>4, <1>5, <1>6, <1>7, <1>8, <1>9, <1>10, <1>11,
     <1>12, <1>13, <1>14, <1>15, <1>16, <1>17, <1>18, <1>19, <1>20, <1>21,
     <1>22, <1>23, <1>24, <1>25, <1>26, <1>27, <1>28, <1>29, <1>30 DEF
     Serve, Dispatcher, Runner, finalize_review

\* A step of the reconciler, of the pruner or of the clock keeps the types.
LEMMA ReconcilerStepTypes ==
    ASSUME TypeOK,
           \/ \E t \in Tasks : prune_outbox(t)
           \/ claim_outbox_batch
           \/ \E t \in Tasks, k \in Kinds : ReconcilerStep(t, k)
           \/ ReconcilerFault
           \/ \E r \in Rows : BackoffElapses(r)
    PROVE  TypeOK'
<1>. USE DEF TypeOK, RcPC, RowState, Unsettled, vars, serveVars, taskVars,
     fzVars, fhVars, rowVars, loadVars, recordVars, rcVars, hubVars
<1>a. ASSUME NEW t \in Tasks, NEW k \in Kinds, Effect(t, k)
      PROVE  posts' \in [Rows -> Nat] /\ objs' \in Nat
             /\ check' \in [obj : Nat, state : Conclusion \cup {"in_progress"}]
  <2>. USE DEF ReconcilerTypes, OutboxTypes
  <2>1. posts' \in [Rows -> Nat]
    <3>1. <<t, k>> \in Rows /\ posts[<<t, k>>] + 1 \in Nat
      BY DEF Rows
    <3>2. posts' = [posts EXCEPT ![<<t, k>>] = posts[<<t, k>>] + 1]
      BY <1>a DEF Effect
    <3>. QED
      BY <3>1, <3>2
  <2>2. CASE k = "start"
    BY <1>a, <2>1, <2>2 DEF Effect
  <2>3. CASE k = "resolve"
    BY <1>a, <2>1, <2>3 DEF Effect
  <2>4. CASE k \notin {"start", "resolve"}
    BY <1>a, <2>1, <2>4 DEF Effect
  <2>. QED
    BY <2>2, <2>3, <2>4
<1>1. ASSUME NEW t \in Tasks, prune_outbox(t) PROVE TypeOK'
  BY <1>1 DEF prune_outbox, TaskTypes, HandlerTypes, OutboxTypes, RecordTypes,
     ReconcilerTypes
<1>2. CASE claim_outbox_batch
  BY <1>2 DEF claim_outbox_batch, Due, TaskTypes, HandlerTypes, OutboxTypes,
     RecordTypes, ReconcilerTypes
<1>3. ASSUME NEW t \in Tasks, NEW k \in Kinds, deliver(t, k) PROVE TypeOK'
  BY <1>3 DEF deliver, Rows, TaskTypes, HandlerTypes, OutboxTypes, RecordTypes,
     ReconcilerTypes
<1>4. ASSUME NEW t \in Tasks, NEW k \in Kinds, post(t, k) PROVE TypeOK'
  BY <1>4, <1>a DEF post, TaskTypes, HandlerTypes, OutboxTypes, RecordTypes,
     ReconcilerTypes
<1>5. ASSUME NEW t \in Tasks, NEW k \in Kinds, PostFails(t, k) PROVE TypeOK'
  <2>1. CASE UNCHANGED hubVars
    BY <1>5, <2>1 DEF PostFails, TaskTypes, HandlerTypes, OutboxTypes,
       RecordTypes, ReconcilerTypes
  <2>2. CASE Effect(t, k) /\ unsure' = unsure \cup {<<t, k>>}
    <3>1. unsure' \subseteq Rows
      BY <2>2 DEF Rows, ReconcilerTypes
    <3>. QED
      BY <1>5, <1>a, <2>2, <3>1 DEF PostFails, TaskTypes, HandlerTypes, OutboxTypes,
         RecordTypes, ReconcilerTypes
  <2>. QED
    BY <1>5, <2>1, <2>2 DEF PostFails
<1>6. ASSUME NEW t \in Tasks, NEW k \in Kinds, record(t, k) PROVE TypeOK'
  <2>1. RecordTypes'
    <3>1. CASE Recorded(t, k)
      <4>1. reviews' \in [Tasks -> {"none", "silent", "posted"}]
        BY <3>1 DEF Recorded, RecordTypes
      <4>2. comments' \in [Tasks -> BOOLEAN]
        BY <3>1 DEF Recorded, RecordTypes
      <4>3. ext' \in [Tasks -> Nat]
        BY <3>1 DEF Recorded, RecordTypes, ReconcilerTypes
      <4>. QED
        BY <4>1, <4>2, <4>3 DEF RecordTypes
    <3>2. CASE UNCHANGED recordVars
      BY <3>2 DEF RecordTypes
    <3>. QED
      BY <1>6, <3>1, <3>2 DEF record
  <2>. QED
    BY <1>6, <2>1 DEF record, TaskTypes, HandlerTypes, OutboxTypes,
       ReconcilerTypes
<1>7. ASSUME NEW t \in Tasks, NEW k \in Kinds, mark_outbox_posted(t, k)
      PROVE  TypeOK'
  BY <1>7 DEF mark_outbox_posted, Forget, RcNext, TaskTypes, HandlerTypes,
     OutboxTypes, RecordTypes, ReconcilerTypes
<1>8. ASSUME NEW t \in Tasks, NEW k \in Kinds, mark_outbox_failed(t, k)
      PROVE  TypeOK'
  <2>1. OutboxTypes'
    <3>1. <<t, k>> \in Rows /\ att[<<t, k>>] + 1 \in Nat
      BY DEF Rows, OutboxTypes
    <3>2. st' \in [Rows -> RowState]
      BY <1>8, <3>1 DEF mark_outbox_failed, OutboxTypes
    <3>3. att' \in [Rows -> Nat] /\ id' \in [Rows -> Nat]
      <4>1. \/ att' = [att EXCEPT ![<<t, k>>] = 0]
            \/ att' = [att EXCEPT ![<<t, k>>] = att[<<t, k>>] + 1]
        BY <1>8 DEF mark_outbox_failed, Forget
      <4>2. id' = id \/ id' = [id EXCEPT ![<<t, k>>] = 0]
        BY <1>8 DEF mark_outbox_failed, Forget
      <4>. QED
        BY <3>1, <4>1, <4>2 DEF OutboxTypes
    <3>. QED
      BY <1>8, <3>2, <3>3 DEF mark_outbox_failed, RcNext, OutboxTypes
  <2>. QED
    BY <1>8, <2>1 DEF mark_outbox_failed, RcNext, TaskTypes, HandlerTypes,
       RecordTypes, ReconcilerTypes
<1>9. CASE ReconcilerFault
  <2>1. unsure' \subseteq Rows
    BY <1>9 DEF ReconcilerFault, MarkError, ReconcilerCrash, InDoubt, ReconcilerTypes
  <2>. QED
    BY <1>9, <2>1 DEF ReconcilerFault, MarkError, ReconcilerCrash, RcNext, TaskTypes,
       HandlerTypes, OutboxTypes, RecordTypes, ReconcilerTypes
<1>10. ASSUME NEW r \in Rows, BackoffElapses(r) PROVE TypeOK'
  BY <1>10 DEF BackoffElapses, TaskTypes, HandlerTypes, OutboxTypes,
     RecordTypes, ReconcilerTypes
<1>. QED
  BY <1>1, <1>2, <1>3, <1>4, <1>5, <1>6, <1>7, <1>8, <1>9, <1>10
     DEF ReconcilerStep

\* Every variable of the egress path keeps its type: the handlers and the
\* reconciler never leave their program counters, and no row leaves the
\* states of the outbox table.
THEOREM EgressTypeCorrect == Spec => []TypeOK
<1>1. Init => TypeOK
  BY DEF Init, TypeOK, TaskTypes, HandlerTypes, OutboxTypes, RecordTypes,
     ReconcilerTypes, Status, RunState, Outcome, Buffer, EmptyBuffer, FzPC,
     FhPC, RcPC, Conclusion, RowState, NoRow
<1>2. TypeOK /\ [Next]_vars => TypeOK'
  <2>1. ASSUME TypeOK, Next PROVE TypeOK'
    BY <2>1, ProducerTypes, ReconcilerStepTypes DEF Next
  <2>2. ASSUME TypeOK, UNCHANGED vars PROVE TypeOK'
    BY <2>2 DEF TypeOK, TaskTypes, HandlerTypes, OutboxTypes, RecordTypes,
       ReconcilerTypes, vars, serveVars, taskVars, fzVars, fhVars, rowVars,
       loadVars, recordVars, rcVars, hubVars
  <2>. QED
    BY <2>1, <2>2
<1>. QED
  BY <1>1, <1>2, PTL DEF Spec

-----------------------------------------------------------------------------
(* The outbox as the reconciler sees it.                                   *)

\* The rows of the batch and the row in hand are still to be delivered, and
\* the row in hand has left the batch.
Working == {"post", "record", "mark_posted", "mark_failed"}
ClaimedUnsettled ==
    /\ \A r \in batch : st[r] \in Unsettled
    /\ rc \in Working => cur \in Rows /\ st[cur] \in Unsettled /\ cur \notin batch

\* What reached the platform, or the reviews table, had a row.
PostedHasRow ==
    /\ \A r \in Rows : posts[r] > 0 => st[r] # "none"
    /\ \A t \in Tasks : reviews[t] = "posted" => st[<<t, "review">>] # "none"

\* The rows of a task are pruned when it is over, and it stays over.
PrunedIsOver ==
    \A t \in Tasks, k \in Kinds : st[<<t, k>>] = "pruned" => Over(t)

OutboxInv == TypeOK /\ ClaimedUnsettled /\ PostedHasRow /\ PrunedIsOver

\* The three facts hold initially.
LEMMA OutboxInit == Init => ClaimedUnsettled /\ PostedHasRow /\ PrunedIsOver
BY DEF Init, ClaimedUnsettled, Working, PostedHasRow, PrunedIsOver, Rows, Kinds

\* A task's own processes keep them: they insert free keys only, and an over
\* task has none left.
LEMMA OutboxProducer ==
    ASSUME OutboxInv, NEW t \in Tasks, Produces(t)
    PROVE  ClaimedUnsettled' /\ PostedHasRow' /\ PrunedIsOver'
<1>. USE DEF OutboxInv
<1>1. ClaimedUnsettled'
  BY DEF ClaimedUnsettled, Produces, rcVars, Free, Unsettled, TypeOK,
     OutboxTypes, ReconcilerTypes
<1>a. \A r \in Rows : st'[r] = st[r] \/ (Free(r) /\ st'[r] = "pending")
  BY DEF Produces, TypeOK, OutboxTypes
<1>b. \A u \in Tasks \ {t}, k \in Kinds : st'[<<u, k>>] = st[<<u, k>>]
  BY DEF Produces, TypeOK, OutboxTypes, Rows
<1>2. PostedHasRow'
  <2>1. \A r \in Rows : st[r] # "none" => st'[r] # "none"
    BY <1>a
  <2>2. \A u \in Tasks : reviews'[u] = "posted" => reviews[u] = "posted"
    BY DEF Produces, TypeOK, RecordTypes
  <2>3. posts' = posts
    BY DEF Produces
  <2>. QED
    BY <2>1, <2>2, <2>3 DEF PostedHasRow, Rows, Kinds
<1>3. PrunedIsOver'
  <2>. SUFFICES ASSUME NEW u \in Tasks, NEW k \in Kinds, st'[<<u, k>>] = "pruned"
                PROVE  Over(u)'
    BY DEF PrunedIsOver
  <2>1. Over(u)
    BY <1>a DEF PrunedIsOver, Rows
  <2>2. u # t
    BY <2>1 DEF Over, Still, Produces
  <2>. QED
    BY <2>1, <2>2, <1>b DEF Over, Produces
<1>. QED
  BY <1>1, <1>2, <1>3

\* The reconciler, the pruner and the clock keep them.
LEMMA OutboxReconciler ==
    ASSUME OutboxInv, TypeOK',
           \/ \E t \in Tasks : prune_outbox(t)
           \/ claim_outbox_batch
           \/ \E t \in Tasks, k \in Kinds : ReconcilerStep(t, k)
           \/ ReconcilerFault
           \/ \E r \in Rows : BackoffElapses(r)
    PROVE  ClaimedUnsettled' /\ PostedHasRow' /\ PrunedIsOver'
<1>. USE DEF OutboxInv, TypeOK, OutboxTypes, RecordTypes, ReconcilerTypes,
     Unsettled, Working, vars, serveVars, taskVars, fzVars, fhVars, rowVars,
     loadVars, recordVars, rcVars, hubVars
<1>0. \A t \in Tasks, k \in Kinds : <<t, k>> \in Rows
  BY DEF Rows
<1>1. ASSUME NEW t \in Tasks, prune_outbox(t)
      PROVE  ClaimedUnsettled' /\ PostedHasRow' /\ PrunedIsOver'
  <2>1. \A r \in Rows : \/ st'[r] = st[r]
                        \/ r[1] = t /\ st[r] \in {"posted", "failed"} /\ st'[r] = "pruned"
    BY <1>1 DEF prune_outbox
  <2>2. ClaimedUnsettled'
    BY <1>1, <2>1 DEF prune_outbox, ClaimedUnsettled
  <2>3. PostedHasRow'
    BY <1>0, <1>1, <2>1 DEF prune_outbox, PostedHasRow, Kinds
  <2>4. ASSUME NEW u \in Tasks, NEW k \in Kinds, st'[<<u, k>>] = "pruned"
        PROVE  Over(u)'
    <3>1. Over(u)
      BY <1>0, <1>1, <2>1, <2>4 DEF prune_outbox, PrunedIsOver
    <3>2. \A j \in Kinds : st'[<<u, j>>] \notin Unsettled
      BY <1>0, <2>1, <3>1 DEF Over
    <3>. QED
      BY <1>1, <3>1, <3>2 DEF prune_outbox, Over
  <2>. QED
    BY <2>2, <2>3, <2>4 DEF PrunedIsOver
<1>2. CASE claim_outbox_batch
  BY <1>2 DEF claim_outbox_batch, Due, ClaimedUnsettled, PostedHasRow,
     PrunedIsOver, Over
<1>3. ASSUME NEW t \in Tasks, NEW k \in Kinds, deliver(t, k)
      PROVE  ClaimedUnsettled' /\ PostedHasRow' /\ PrunedIsOver'
  BY <1>0, <1>3 DEF deliver, ClaimedUnsettled, PostedHasRow, PrunedIsOver, Over
<1>4. ASSUME NEW t \in Tasks, NEW k \in Kinds, post(t, k) \/ PostFails(t, k)
      PROVE  ClaimedUnsettled' /\ PostedHasRow' /\ PrunedIsOver'
  <2>1. posts' = posts \/ posts' = [posts EXCEPT ![<<t, k>>] = @ + 1]
    BY <1>4 DEF post, PostFails, Effect
  <2>2. ClaimedUnsettled' /\ PrunedIsOver'
    BY <1>4 DEF post, PostFails, ClaimedUnsettled, PrunedIsOver, Over
  <2>3. PostedHasRow'
    BY <1>0, <1>4, <2>1 DEF post, PostFails, ClaimedUnsettled, PostedHasRow
  <2>. QED
    BY <2>2, <2>3
<1>5. ASSUME NEW t \in Tasks, NEW k \in Kinds, record(t, k)
      PROVE  ClaimedUnsettled' /\ PostedHasRow' /\ PrunedIsOver'
  <2>1. \A u \in Tasks : reviews'[u] = "posted" =>
            reviews[u] = "posted" \/ <<u, "review">> = cur
    BY <1>5 DEF record, Recorded
  <2>2. ClaimedUnsettled' /\ PrunedIsOver'
    BY <1>5 DEF record, ClaimedUnsettled, PrunedIsOver, Over
  <2>3. PostedHasRow'
    BY <1>5, <2>1 DEF record, ClaimedUnsettled, PostedHasRow
  <2>. QED
    BY <2>2, <2>3
<1>6. ASSUME NEW t \in Tasks, NEW k \in Kinds,
             mark_outbox_posted(t, k) \/ mark_outbox_failed(t, k)
      PROVE  ClaimedUnsettled' /\ PostedHasRow' /\ PrunedIsOver'
  <2>1. PICK x \in {"posted", "failed", "backoff"} :
            st' = [st EXCEPT ![<<t, k>>] = x]
    BY <1>6 DEF mark_outbox_posted, mark_outbox_failed
  <2>2. ClaimedUnsettled'
    <3>1. batch' = batch /\ rc' \notin Working
      BY <1>6 DEF mark_outbox_posted, mark_outbox_failed, RcNext
    <3>2. <<t, k>> \notin batch
      BY <1>6 DEF mark_outbox_posted, mark_outbox_failed, ClaimedUnsettled
    <3>3. \A r \in batch : st'[r] = st[r]
      BY <2>1, <3>2
    <3>. QED
      BY <3>1, <3>3 DEF ClaimedUnsettled
  <2>3. PostedHasRow'
    BY <1>0, <1>6, <2>1 DEF mark_outbox_posted, mark_outbox_failed, RcNext,
       PostedHasRow, Kinds
  <2>4. ASSUME NEW u \in Tasks, NEW j \in Kinds, st'[<<u, j>>] = "pruned"
        PROVE  Over(u)'
    <3>1. Over(u)
      BY <1>0, <2>1, <2>4 DEF PrunedIsOver
    <3>2. st[<<t, k>>] \in Unsettled
      BY <1>6 DEF mark_outbox_posted, mark_outbox_failed, ClaimedUnsettled
    <3>3. u # t
      BY <3>1, <3>2 DEF Over
    <3>4. \A i \in Kinds : st'[<<u, i>>] = st[<<u, i>>]
      BY <1>0, <2>1, <3>3
    <3>. QED
      BY <1>6, <3>1, <3>4 DEF mark_outbox_posted, mark_outbox_failed, RcNext, Over
  <2>. QED
    BY <2>2, <2>3, <2>4 DEF PrunedIsOver
<1>7. CASE ReconcilerFault
  BY <1>7 DEF ReconcilerFault, MarkError, ReconcilerCrash, RcNext,
     ClaimedUnsettled, PostedHasRow, PrunedIsOver, Over
<1>8. ASSUME NEW r \in Rows, BackoffElapses(r)
      PROVE  ClaimedUnsettled' /\ PostedHasRow' /\ PrunedIsOver'
  <2>1. \A q \in Rows : \/ st'[q] = st[q]
                        \/ st[q] = "backoff" /\ st'[q] = "pending"
    BY <1>8 DEF BackoffElapses
  <2>2. ClaimedUnsettled'
    BY <1>8, <2>1 DEF BackoffElapses, ClaimedUnsettled
  <2>3. PostedHasRow'
    <3>1. \A q \in Rows : st[q] # "none" => st'[q] # "none"
      BY <2>1
    <3>2. posts' = posts /\ reviews' = reviews
      BY <1>8 DEF BackoffElapses
    <3>. QED
      BY <1>0, <3>1, <3>2 DEF PostedHasRow, Kinds
  <2>4. ASSUME NEW u \in Tasks, NEW k \in Kinds, st'[<<u, k>>] = "pruned"
        PROVE  Over(u)'
    <3>1. Over(u)
      BY <1>0, <2>1, <2>4 DEF PrunedIsOver
    <3>2. \A j \in Kinds : st'[<<u, j>>] = st[<<u, j>>]
      BY <1>0, <2>1, <3>1 DEF Over
    <3>. QED
      BY <1>8, <3>1, <3>2 DEF BackoffElapses, Over
  <2>. QED
    BY <2>2, <2>3, <2>4 DEF PrunedIsOver
<1>. QED
  BY <1>1, <1>2, <1>3, <1>4, <1>5, <1>6, <1>7, <1>8 DEF ReconcilerStep

\* The outbox invariant holds throughout, faults of every kind included.
LEMMA OutboxInvariant == Spec => []OutboxInv
<1>1. Init => ClaimedUnsettled /\ PostedHasRow /\ PrunedIsOver
  BY OutboxInit
<1>2. OutboxInv /\ TypeOK' /\ [Next]_vars => OutboxInv'
  <2>1. ASSUME OutboxInv, TypeOK', NEW t \in Tasks, Serve(t) \/ Dispatcher(t) \/ Runner(t)
        PROVE  OutboxInv'
    <3>1. Produces(t)
      BY <2>1, ProducerSteps DEF OutboxInv
    <3>. QED
      BY <2>1, <3>1, OutboxProducer DEF OutboxInv
  <2>2. ASSUME OutboxInv, TypeOK', UNCHANGED vars
        PROVE  OutboxInv'
    BY <2>2 DEF OutboxInv, ClaimedUnsettled, PostedHasRow, PrunedIsOver, Over,
       vars, serveVars, taskVars, fzVars, fhVars, rowVars, recordVars, rcVars,
       hubVars
  <2>. QED
    BY <2>1, <2>2, OutboxReconciler DEF Next, OutboxInv
<1>. QED
  BY <1>1, <1>2, EgressTypeCorrect, PTL DEF Spec, OutboxInv

-----------------------------------------------------------------------------
(* The apology.                                                            *)

\* A notice about to be posted was judged against the task's content, and no
\* content of the task has reached the pull request since.
NoticeFresh ==
    \A t \in Tasks : rc = "post" /\ cur = <<t, "notice">> =>
        \A k \in {"review", "reply"} : posts[<<t, k>>] = 0 \/ st[<<t, k>>] = "failed"

\* NoticeFresh is inductive when the recheck of deliver cannot fail: what the
\* finalize handler may insert behind its back has not been posted, and
\* nothing of the task is pruned while its notice is in hand.
LEMMA NoticeStep ==
    ASSUME "db_error" \notin Faults, OutboxInv, NoticeFresh, [Next]_vars
    PROVE  NoticeFresh'
<1>. USE DEF OutboxInv, TypeOK, OutboxTypes, ReconcilerTypes, Unsettled, Working,
     vars, serveVars, rowVars, recordVars, rcVars, hubVars
<1>. SUFFICES ASSUME NEW t \in Tasks, NEW k \in {"review", "reply"},
                     rc' = "post", cur' = <<t, "notice">>
              PROVE  posts'[<<t, k>>] = 0 \/ st'[<<t, k>>] = "failed"
  BY DEF NoticeFresh
<1>0. <<t, k>> \in Rows /\ <<t, "notice">> \in Rows /\ k \in Kinds /\ "notice" \in Kinds
  BY DEF Rows, Kinds
<1>1. CASE rc = "post" /\ cur = <<t, "notice">>
  <2>1. posts[<<t, k>>] = 0 \/ st[<<t, k>>] = "failed"
    BY <1>1 DEF NoticeFresh
  <2>2. st[<<t, "notice">>] \in Unsettled
    BY <1>1 DEF ClaimedUnsettled
  <2>3. ~Over(t)
    BY <1>0, <2>2 DEF Over
  <2>4. ASSUME NEW u \in Tasks, Serve(u) \/ Dispatcher(u) \/ Runner(u)
        PROVE  posts'[<<t, k>>] = 0 \/ st'[<<t, k>>] = "failed"
    <3>1. Produces(u)
      BY <2>4, ProducerSteps
    <3>. QED
      BY <1>0, <2>1, <3>1 DEF Produces, Free
  <2>5. ASSUME NEW u \in Tasks, prune_outbox(u)
        PROVE  posts'[<<t, k>>] = 0 \/ st'[<<t, k>>] = "failed"
    BY <1>0, <2>1, <2>3, <2>5 DEF prune_outbox
  <2>6. ASSUME NEW u \in Tasks, NEW j \in Kinds, ReconcilerStep(u, j)
        PROVE  FALSE
    BY <1>1, <2>6 DEF ReconcilerStep, deliver, post, PostFails, record,
       mark_outbox_posted, mark_outbox_failed
  <2>7. ~ReconcilerFault /\ ~claim_outbox_batch
    BY <1>1 DEF ReconcilerFault, MarkError, ReconcilerCrash, claim_outbox_batch
  <2>8. ASSUME NEW r \in Rows, BackoffElapses(r)
        PROVE  posts'[<<t, k>>] = 0 \/ st'[<<t, k>>] = "failed"
    BY <1>0, <2>1, <2>8 DEF BackoffElapses
  <2>9. CASE UNCHANGED vars
    BY <2>1, <2>9
  <2>. QED
    BY <2>4, <2>5, <2>6, <2>7, <2>8, <2>9 DEF Next
<1>2. CASE ~(rc = "post" /\ cur = <<t, "notice">>)
  <2>1. deliver(t, "notice")
    <3>1. ASSUME NEW u \in Tasks, Serve(u) \/ Dispatcher(u) \/ Runner(u)
          PROVE  FALSE
      <4>1. Produces(u)
        BY <3>1, ProducerSteps
      <4>. QED
        BY <1>2, <4>1 DEF Produces
    <3>2. ASSUME NEW u \in Tasks, NEW j \in Kinds, ReconcilerStep(u, j)
          PROVE  deliver(t, "notice")
      BY <1>2, <3>2 DEF ReconcilerStep, deliver, post, PostFails, record,
         mark_outbox_posted, mark_outbox_failed, RcNext
    <3>. QED
      BY <1>2, <3>1, <3>2 DEF Next, prune_outbox, claim_outbox_batch,
         ReconcilerFault, MarkError, ReconcilerCrash, RcNext, BackoffElapses
  <2>2. ~has_responded_or_pending_content(t)
    BY <2>1 DEF deliver, Skips
  <2>3. st[<<t, k>>] \in {"none", "failed", "pruned"}
    BY <1>0, <2>2 DEF has_responded_or_pending_content, RowState
  <2>4. st[<<t, "notice">>] \in Unsettled
    BY <2>1 DEF deliver, ClaimedUnsettled
  <2>5. st[<<t, k>>] # "pruned"
    BY <1>0, <2>4 DEF PrunedIsOver, Over
  <2>6. st[<<t, k>>] = "none" => posts[<<t, k>>] = 0
    BY <1>0 DEF PostedHasRow
  <2>. QED
    BY <2>1, <2>3, <2>5, <2>6 DEF deliver
<1>. QED
  BY <1>1, <1>2

\* Only a post of the row in hand raises a counter, and it raises its own.
LEMMA RowPosted ==
    ASSUME OutboxInv, [Next]_vars, NEW r \in Rows, posts'[r] > posts[r]
    PROVE  rc = "post" /\ cur = r
<1>. USE DEF OutboxInv, TypeOK, OutboxTypes, ReconcilerTypes,
     vars, serveVars, rowVars, recordVars, rcVars, hubVars
<1>0. posts[r] \in Nat
  OBVIOUS
<1>1. posts' # posts
  BY <1>0
<1>2. ASSUME NEW u \in Tasks, Serve(u) \/ Dispatcher(u) \/ Runner(u)
      PROVE  FALSE
  BY <1>1, <1>2, ProducerSteps DEF Produces
<1>3. PICK u \in Tasks, k \in Kinds : post(u, k) \/ PostFails(u, k)
  BY <1>1, <1>2 DEF Next, prune_outbox, claim_outbox_batch, ReconcilerStep,
     deliver, record, mark_outbox_posted, mark_outbox_failed, RcNext,
     ReconcilerFault, MarkError, ReconcilerCrash, BackoffElapses
<1>4. posts' = [posts EXCEPT ![<<u, k>>] = @ + 1]
  BY <1>1, <1>3 DEF post, PostFails, Effect
<1>5. <<u, k>> = r
  BY <1>0, <1>4
<1>. QED
  BY <1>3, <1>5 DEF post, PostFails

\* The failure notice is never posted over content of the task, for any number
\* of tasks, retries, crashes and lost answers, as long as the recheck at
\* delivery can read the database.
THEOREM ApologySafety ==
    ASSUME "db_error" \notin Faults
    PROVE  Spec => NoApologyOverContent
<1>1. Init => NoticeFresh
  BY DEF Init, NoticeFresh
<1>2. OutboxInv /\ NoticeFresh /\ [Next]_vars => NoticeFresh'
  BY NoticeStep
<1>3. OutboxInv /\ NoticeFresh /\ [Next]_vars =>
      [\A t \in Tasks : posts'[<<t, "notice">>] > posts[<<t, "notice">>] =>
          \A k \in {"review", "reply"} :
              posts[<<t, k>>] = 0 \/ st[<<t, k>>] = "failed"]_vars
  BY RowPosted, \A t \in Tasks : <<t, "notice">> \in Rows
     DEF NoticeFresh, Rows, Kinds
<1>. QED
  BY <1>1, <1>2, <1>3, OutboxInvariant, PTL DEF Spec, NoApologyOverContent

-----------------------------------------------------------------------------
(* Why an intent is posted again.                                          *)

\* A posted intent is settled, is the row in hand on its way to be, or is one
\* whose last post the reconciler did not learn of.
PostedIsHeld ==
    \A r \in Rows : posts[r] # 0 /\ r \notin unsure =>
        \/ st[r] \in {"posted", "pruned"}
        \/ cur = r /\ rc \in {"record", "mark_posted"}

\* PostedIsHeld is inductive, whatever fails.
LEMMA HeldStep ==
    ASSUME OutboxInv, PostedIsHeld, [Next]_vars
    PROVE  PostedIsHeld'
<1>. USE DEF OutboxInv, TypeOK, OutboxTypes, ReconcilerTypes, Unsettled, Working,
     vars, serveVars, rowVars, recordVars, rcVars, hubVars
<1>. SUFFICES ASSUME NEW r \in Rows, posts'[r] # 0, r \notin unsure'
              PROVE  \/ st'[r] \in {"posted", "pruned"}
                     \/ cur' = r /\ rc' \in {"record", "mark_posted"}
  BY DEF PostedIsHeld
<1>a. posts[r] # 0 /\ r \notin unsure =>
        \/ st[r] \in {"posted", "pruned"}
        \/ cur = r /\ rc \in {"record", "mark_posted"}
  BY DEF PostedIsHeld
<1>1. ASSUME NEW t \in Tasks, Serve(t) \/ Dispatcher(t) \/ Runner(t)
      PROVE  \/ st'[r] \in {"posted", "pruned"}
             \/ cur' = r /\ rc' \in {"record", "mark_posted"}
  <2>1. Produces(t)
    BY <1>1, ProducerSteps
  <2>2. ASSUME st'[r] # st[r] PROVE st[r] = "none"
    <3>1. PICK k \in Kinds : /\ Free(<<t, k>>)
                             /\ st' = [st EXCEPT ![<<t, k>>] = "pending"]
      BY <2>1, <2>2 DEF Produces
    <3>2. r = <<t, k>> /\ Free(r)
      BY <2>2, <3>1
    <3>. QED
      BY <2>1, <3>2 DEF Free, PrunedIsOver, Over, Still, Produces
  <2>. QED
    BY <1>a, <2>1, <2>2 DEF Produces, PostedHasRow, ClaimedUnsettled
<1>2. ASSUME NEW t \in Tasks, prune_outbox(t)
      PROVE  \/ st'[r] \in {"posted", "pruned"}
             \/ cur' = r /\ rc' \in {"record", "mark_posted"}
  BY <1>a, <1>2 DEF prune_outbox
<1>3. CASE claim_outbox_batch
  BY <1>a, <1>3 DEF claim_outbox_batch
<1>4. ASSUME NEW t \in Tasks, NEW k \in Kinds, ReconcilerStep(t, k)
      PROVE  \/ st'[r] \in {"posted", "pruned"}
             \/ cur' = r /\ rc' \in {"record", "mark_posted"}
  <2>1. CASE deliver(t, k)
    BY <1>a, <2>1 DEF deliver
  <2>2. CASE post(t, k)
    <3>1. posts' = [posts EXCEPT ![<<t, k>>] = @ + 1]
      BY <2>2 DEF post, Effect
    <3>2. CASE r = <<t, k>>
      BY <2>2, <3>2 DEF post
    <3>3. CASE r # <<t, k>>
      BY <1>a, <2>2, <3>1, <3>3 DEF post
    <3>. QED
      BY <3>2, <3>3
  <2>3. CASE PostFails(t, k)
    <3>1. CASE UNCHANGED hubVars
      BY <1>a, <2>3, <3>1 DEF PostFails
    <3>2. CASE Effect(t, k) /\ unsure' = unsure \cup {<<t, k>>}
      <4>1. posts' = [posts EXCEPT ![<<t, k>>] = @ + 1] /\ r # <<t, k>>
        BY <3>2 DEF Effect
      <4>. QED
        BY <1>a, <2>3, <3>2, <4>1 DEF PostFails
    <3>. QED
      BY <2>3, <3>1, <3>2 DEF PostFails
  <2>4. CASE record(t, k)
    BY <1>a, <2>4 DEF record
  <2>5. CASE mark_outbox_posted(t, k)
    BY <1>a, <2>5 DEF mark_outbox_posted, RcNext
  <2>6. CASE mark_outbox_failed(t, k)
    <3>1. st[<<t, k>>] \in Unsettled
      BY <2>6 DEF mark_outbox_failed, ClaimedUnsettled
    <3>. QED
      BY <1>a, <2>6, <3>1 DEF mark_outbox_failed, RcNext
  <2>. QED
    BY <1>4, <2>1, <2>2, <2>3, <2>4, <2>5, <2>6 DEF ReconcilerStep
<1>5. CASE ReconcilerFault
  BY <1>a, <1>5 DEF ReconcilerFault, MarkError, ReconcilerCrash, RcNext, InDoubt
<1>6. ASSUME NEW q \in Rows, BackoffElapses(q)
      PROVE  \/ st'[r] \in {"posted", "pruned"}
             \/ cur' = r /\ rc' \in {"record", "mark_posted"}
  BY <1>a, <1>6 DEF BackoffElapses
<1>7. CASE UNCHANGED vars
  BY <1>a, <1>7
<1>. QED
  BY <1>1, <1>2, <1>3, <1>4, <1>5, <1>6, <1>7 DEF Next

\* An intent is posted again only when its last post was not learnt of: every
\* other step of the reconciler, the producers and the pruning leaves a posted
\* row settled or in hand.  No fault is excluded.
THEOREM DeliverySafety == Spec => RepostedWhenUnsure
<1>1. Init => PostedIsHeld
  BY DEF Init, PostedIsHeld
<1>2. OutboxInv /\ PostedIsHeld /\ [Next]_vars => PostedIsHeld'
  BY HeldStep
<1>3. OutboxInv /\ PostedIsHeld /\ [Next]_vars =>
      [\A r \in Rows : posts'[r] > posts[r] => posts[r] = 0 \/ r \in unsure]_vars
  <2>. SUFFICES ASSUME OutboxInv, PostedIsHeld, Next,
                       NEW r \in Rows, posts'[r] > posts[r]
                PROVE  posts[r] = 0 \/ r \in unsure
    BY DEF vars
  <2>1. cur = r /\ rc = "post"
    BY RowPosted
  <2>2. posts[r] \in Nat
    BY DEF OutboxInv, TypeOK, ReconcilerTypes
  <2>. QED
    BY <2>1, <2>2 DEF PostedIsHeld, OutboxInv, ClaimedUnsettled, Unsettled, Working
<1>. QED
  BY <1>1, <1>2, <1>3, OutboxInvariant, PTL DEF Spec, RepostedWhenUnsure

\* A review marked posted, or about to be, is in the reviews table.
MarkedIsRecorded ==
    \A t \in Tasks :
        \/ st[<<t, "review">>] = "posted"
        \/ rc = "mark_posted" /\ cur = <<t, "review">>
        => reviews[t] = "posted"

\* MarkedIsRecorded is inductive when the best-effort records do not fail.
LEMMA RecordedStep ==
    ASSUME "db_error" \notin Faults, OutboxInv, MarkedIsRecorded, [Next]_vars
    PROVE  MarkedIsRecorded'
<1>. USE DEF OutboxInv, TypeOK, OutboxTypes, RecordTypes, ReconcilerTypes,
     vars, serveVars, rowVars, recordVars, rcVars, hubVars
<1>. SUFFICES ASSUME NEW t \in Tasks,
                     \/ st'[<<t, "review">>] = "posted"
                     \/ rc' = "mark_posted" /\ cur' = <<t, "review">>
              PROVE  reviews'[t] = "posted"
  BY DEF MarkedIsRecorded
<1>0. <<t, "review">> \in Rows
  BY DEF Rows, Kinds
<1>a. st[<<t, "review">>] = "posted" \/ (rc = "mark_posted" /\ cur = <<t, "review">>)
      => reviews[t] = "posted"
  BY DEF MarkedIsRecorded
<1>1. ASSUME NEW u \in Tasks, Serve(u) \/ Dispatcher(u) \/ Runner(u)
      PROVE  reviews'[t] = "posted"
  <2>1. Produces(u)
    BY <1>1, ProducerSteps
  <2>2. st'[<<t, "review">>] = "posted" => st[<<t, "review">>] = "posted"
    BY <1>0, <2>1 DEF Produces
  <2>. QED
    BY <1>a, <2>1, <2>2 DEF Produces
<1>2. ASSUME NEW u \in Tasks, prune_outbox(u) PROVE reviews'[t] = "posted"
  BY <1>0, <1>a, <1>2 DEF prune_outbox
<1>3. CASE claim_outbox_batch
  BY <1>a, <1>3 DEF claim_outbox_batch
<1>4. ASSUME NEW u \in Tasks, NEW k \in Kinds, ReconcilerStep(u, k)
      PROVE  reviews'[t] = "posted"
  <2>1. CASE deliver(u, k)
    BY <1>a, <2>1 DEF deliver, Skips
  <2>2. CASE post(u, k) \/ PostFails(u, k)
    BY <1>a, <2>2 DEF post, PostFails
  <2>3. CASE record(u, k)
    BY <1>a, <2>3 DEF record, Recorded
  <2>4. CASE mark_outbox_posted(u, k)
    BY <1>0, <1>a, <2>4 DEF mark_outbox_posted, RcNext
  <2>5. CASE mark_outbox_failed(u, k)
    BY <1>0, <1>a, <2>5 DEF mark_outbox_failed, RcNext
  <2>. QED
    BY <1>4, <2>1, <2>2, <2>3, <2>4, <2>5 DEF ReconcilerStep
<1>5. CASE ReconcilerFault
  BY <1>a, <1>5 DEF ReconcilerFault, MarkError, ReconcilerCrash, RcNext
<1>6. ASSUME NEW r \in Rows, BackoffElapses(r) PROVE reviews'[t] = "posted"
  BY <1>0, <1>a, <1>6 DEF BackoffElapses
<1>7. CASE UNCHANGED vars
  BY <1>a, <1>7
<1>. QED
  BY <1>1, <1>2, <1>3, <1>4, <1>5, <1>6, <1>7 DEF Next

\* While the database answers, the lookup of the cross-run dedup misses no
\* delivered review: it is in the reviews table or its row is not settled.
THEOREM DedupSafety ==
    ASSUME "db_error" \notin Faults
    PROVE  Spec => []DeliveredIsKnown
<1>1. Init => MarkedIsRecorded
  BY DEF Init, MarkedIsRecorded, Rows, Kinds
<1>2. OutboxInv /\ MarkedIsRecorded /\ [Next]_vars => MarkedIsRecorded'
  BY RecordedStep
<1>3. OutboxInv /\ MarkedIsRecorded => DeliveredIsKnown
  BY DEF MarkedIsRecorded, DeliveredIsKnown, OutboxInv, PostedHasRow, TypeOK,
     OutboxTypes, RowState, Unsettled, Rows, Kinds
<1>. QED
  BY <1>1, <1>2, <1>3, OutboxInvariant, PTL DEF Spec

-----------------------------------------------------------------------------
(* A finished finalize.                                                    *)

\* Past the decision the handler has left an intent, and answered handlers did.
LeavesIntent(t) == \E k \in ContentKinds : st[<<t, k>>] # "none"
DecidedLeavesIntent ==
    \A t \in Tasks :
        answered[t] \/ fz[t] \in {"clear", "react", "resolve", "respond"} => LeavesIntent(t)

\* No step takes a row back.
LEMMA RowsStay ==
    ASSUME OutboxInv, [Next]_vars, NEW t \in Tasks, LeavesIntent(t)
    PROVE  LeavesIntent(t)'
<1>. USE DEF OutboxInv, TypeOK, OutboxTypes, vars, serveVars, rowVars, recordVars,
     rcVars, hubVars
<1>1. PICK k \in ContentKinds : st[<<t, k>>] # "none"
  BY DEF LeavesIntent
<1>2. <<t, k>> \in Rows
  BY DEF ContentKinds, Rows, Kinds
<1>3. st'[<<t, k>>] # "none"
  <2>1. ASSUME NEW u \in Tasks, Serve(u) \/ Dispatcher(u) \/ Runner(u)
        PROVE  st'[<<t, k>>] # "none"
    <3>1. Produces(u)
      BY <2>1, ProducerSteps
    <3>. QED
      BY <1>1, <1>2, <3>1 DEF Produces
  <2>2. ASSUME NEW u \in Tasks, prune_outbox(u) PROVE st'[<<t, k>>] # "none"
    BY <1>1, <1>2, <2>2 DEF prune_outbox
  <2>3. ASSUME NEW u \in Tasks, NEW j \in Kinds, ReconcilerStep(u, j)
        PROVE  st'[<<t, k>>] # "none"
    BY <1>1, <1>2, <2>3 DEF ReconcilerStep, deliver, post, PostFails, record,
       mark_outbox_posted, mark_outbox_failed
  <2>4. ASSUME NEW r \in Rows, BackoffElapses(r) PROVE st'[<<t, k>>] # "none"
    BY <1>1, <1>2, <2>4 DEF BackoffElapses
  <2>5. CASE claim_outbox_batch \/ ReconcilerFault \/ UNCHANGED vars
    BY <1>1, <2>5 DEF claim_outbox_batch, ReconcilerFault, MarkError, ReconcilerCrash
  <2>. QED
    BY <2>1, <2>2, <2>3, <2>4, <2>5 DEF Next
<1>. QED
  BY <1>3 DEF LeavesIntent

\* An enqueue under a followed key leaves a row: its own, or the one it found.
LEMMA EnqueueLeavesRow ==
    ASSUME OutboxTypes, NEW r \in Rows, r[2] \in Tracked, enqueue_outbox_post(r)
    PROVE  st'[r] # "none"
BY DEF OutboxTypes, enqueue_outbox_post, Inserts, Free, rowVars

\* The steps at which a finalize decides what it leaves.
LEMMA DecisionSteps ==
    ASSUME TypeOK, [Next]_vars, NEW t \in Tasks,
           ~answered[t], fz[t] \notin {"clear", "react", "resolve", "respond"},
           answered'[t] \/ fz'[t] \in {"clear", "react", "resolve", "respond"}
    PROVE  \/ finalize_replies(t) /\ fz'[t] = "resolve"
           \/ clean_guard(t) /\ fz'[t] = "clear"
           \/ clean_verdict(t) \/ finalize_queue_review(t)
<1>. USE DEF TypeOK, HandlerTypes, vars, serveVars, fzVars
<1>1. ASSUME NEW u \in Tasks,
             \/ create(u) \/ Cancel(u) \/ resolve_cancelled_check_run(u)
             \/ handle_review_failure(u) \/ FailureHandlerDropped(u)
             \/ Dispatcher(u) \/ Runner(u) \/ prune_outbox(u)
      PROVE  FALSE
  BY <1>1 DEF create, Cancel, resolve_cancelled_check_run,
     handle_review_failure, FailureHandlerDropped, Dispatcher, dispatch,
     react_work_started, start_check_run_signal, SignalsDropped, ReaperFails,
     Runner, ReportRunning, perform_review, ReviewRunFails, RunFails, PodDies,
     ReportSucceeded, ReportFailed, prune_outbox
<1>2. ASSUME NEW u \in Tasks, finalize_review(u) \/ FinalizeFails(u)
      PROVE  \/ finalize_replies(t) /\ fz'[t] = "resolve"
             \/ clean_guard(t) /\ fz'[t] = "clear"
             \/ clean_verdict(t) \/ finalize_queue_review(t)
  <2>1. CASE finalize_respond(u) \/ FinalizeFails(u)
    BY <2>1 DEF finalize_respond, FinalizeFails, FzEnd
  <2>2. CASE load_pending_review(u) \/ finalize_replies(u) \/ dedup_against_posted(u)
    BY <2>2 DEF load_pending_review, finalize_replies, dedup_against_posted,
       FzGoto, FzFrame
  <2>3. CASE \/ suppress_clean(u) \/ clean_guard(u) \/ insert_review_if_absent(u)
             \/ clean_verdict(u)
    BY <2>3 DEF suppress_clean, clean_guard, insert_review_if_absent,
       clean_verdict, FzGoto, FzFrame
  <2>4. CASE \/ finalize_queue_review(u) \/ clear_pending_action(u)
             \/ finalize_react(u) \/ finalize_resolve(u)
    BY <2>4 DEF finalize_queue_review, clear_pending_action, finalize_react,
       finalize_resolve, FzGoto, FzFrame
  <2>. QED
    BY <1>2, <2>1, <2>2, <2>3, <2>4 DEF finalize_review
<1>3. ASSUME NEW u \in Tasks, NEW k \in Kinds, ReconcilerStep(u, k)
      PROVE  FALSE
  BY <1>3 DEF ReconcilerStep, deliver, post, PostFails, record,
     mark_outbox_posted, mark_outbox_failed, RcNext
<1>4. ASSUME NEW r \in Rows, BackoffElapses(r) PROVE FALSE
  BY <1>4 DEF BackoffElapses
<1>5. ~claim_outbox_batch /\ ~ReconcilerFault
  BY DEF claim_outbox_batch, ReconcilerFault, MarkError, ReconcilerCrash, RcNext
<1>. QED
  BY <1>1, <1>2, <1>3, <1>4, <1>5 DEF Next, Serve

\* DecidedLeavesIntent is inductive: replies without a review are not empty,
\* the silent-clean guard found an intent or a review that had one.
LEMMA DecidedStep ==
    ASSUME ContentKinds \subseteq Tracked, OutboxInv, DecidedLeavesIntent, [Next]_vars
    PROVE  DecidedLeavesIntent'
<1>. USE DEF OutboxInv
<1>. SUFFICES ASSUME NEW t \in Tasks,
                     answered'[t] \/ fz'[t] \in {"clear", "react", "resolve", "respond"}
              PROVE  LeavesIntent(t)'
  BY DEF DecidedLeavesIntent
<1>0. /\ <<t, "review">> \in Rows /\ <<t, "reply">> \in Rows /\ <<t, "verdict">> \in Rows
      /\ "review" \in Tracked /\ "reply" \in Tracked /\ "verdict" \in Tracked
  BY DEF Rows, Kinds, ContentKinds
<1>1. CASE answered[t] \/ fz[t] \in {"clear", "react", "resolve", "respond"}
  BY <1>1, RowsStay DEF DecidedLeavesIntent
<1>2. CASE finalize_replies(t) /\ fz'[t] = "resolve"
  <2>1. ~posts_pr_review(snap[t])
    BY <1>2 DEF finalize_replies, FzGoto, TypeOK, HandlerTypes
  <2>2. enqueue(t, "reply")
    BY <1>2, <2>1 DEF finalize_replies, posts_pr_review, is_empty
  <2>3. st'[<<t, "reply">>] # "none"
    BY <1>0, <2>2, EnqueueLeavesRow DEF enqueue, TypeOK
  <2>. QED
    BY <2>3 DEF LeavesIntent, ContentKinds
<1>3. CASE clean_guard(t) /\ fz'[t] = "clear"
  <2>1. has_review_intent_or_posted_review(t)
    BY <1>3 DEF clean_guard, FzGoto, TypeOK, HandlerTypes
  <2>2. st[<<t, "review">>] # "none"
    BY <2>1 DEF has_review_intent_or_posted_review, Free, PostedHasRow
  <2>3. LeavesIntent(t)
    BY <2>2 DEF LeavesIntent, ContentKinds
  <2>. QED
    BY <2>3, RowsStay
<1>4. CASE clean_verdict(t)
  <2>1. st'[<<t, "verdict">>] # "none"
    BY <1>0, <1>4, EnqueueLeavesRow DEF clean_verdict, enqueue_verdict_reaction, TypeOK
  <2>. QED
    BY <2>1 DEF LeavesIntent, ContentKinds
<1>5. CASE finalize_queue_review(t)
  <2>1. st'[<<t, "review">>] # "none"
    BY <1>0, <1>5, EnqueueLeavesRow DEF finalize_queue_review, enqueue_review, TypeOK
  <2>. QED
    BY <2>1 DEF LeavesIntent, ContentKinds
<1>. QED
  BY <1>1, <1>2, <1>3, <1>4, <1>5, DecisionSteps DEF TypeOK, HandlerTypes

\* A finalize that answered 200 has left a review, a reply or a verdict to
\* deliver, for every path, retry and concurrent run and under every fault.
THEOREM FinalizeSafety ==
    ASSUME ContentKinds \subseteq Tracked
    PROVE  Spec => []FinalizedLeavesIntent
<1>1. Init => DecidedLeavesIntent
  BY DEF Init, DecidedLeavesIntent
<1>2. OutboxInv /\ DecidedLeavesIntent /\ [Next]_vars => DecidedLeavesIntent'
  BY DecidedStep
<1>3. DecidedLeavesIntent => FinalizedLeavesIntent
  BY DEF DecidedLeavesIntent, LeavesIntent, FinalizedLeavesIntent
<1>. QED
  BY <1>1, <1>2, <1>3, OutboxInvariant, PTL DEF Spec

-----------------------------------------------------------------------------
(* What a finalize decides on the way.                                     *)

\* A finalize of t moves by its own statements only.
LEMMA HandlerMoves ==
    ASSUME TypeOK, [Next]_vars, NEW t \in Tasks
    PROVE  \/ /\ fz'[t] = fz[t] /\ snap'[t] = snap[t] /\ kept'[t] = kept[t]
              /\ queued'[t] = queued[t]
              /\ outcome'[t] = outcome[t] \/ fz[t] = "idle"
           \/ finalize_review(t) \/ FinalizeFails(t)
<1>. USE DEF TypeOK, TaskTypes, HandlerTypes, vars, serveVars, fzVars, taskVars
<1>. DEFINE Same == /\ fz'[t] = fz[t] /\ snap'[t] = snap[t] /\ kept'[t] = kept[t]
                    /\ queued'[t] = queued[t]
                    /\ outcome'[t] = outcome[t] \/ fz[t] = "idle"
<1>1. ASSUME NEW u \in Tasks,
             \/ create(u) \/ Cancel(u) \/ resolve_cancelled_check_run(u)
             \/ handle_review_failure(u) \/ FailureHandlerDropped(u)
             \/ Dispatcher(u) \/ Runner(u) \/ prune_outbox(u)
      PROVE  Same
  BY <1>1 DEF create, Cancel, resolve_cancelled_check_run,
     handle_review_failure, FailureHandlerDropped, Dispatcher, dispatch,
     react_work_started, start_check_run_signal, SignalsDropped, ReaperFails,
     Runner, ReportRunning, perform_review, ReviewRunFails, RunFails, PodDies,
     ReportSucceeded, ReportFailed, prune_outbox
<1>2. ASSUME NEW u \in Tasks, u # t, finalize_review(u) \/ FinalizeFails(u)
      PROVE  Same
  <2>1. CASE finalize_respond(u) \/ FinalizeFails(u)
    BY <1>2, <2>1 DEF finalize_respond, FinalizeFails, FzEnd
  <2>2. CASE load_pending_review(u) \/ finalize_replies(u) \/ dedup_against_posted(u)
    BY <1>2, <2>2 DEF load_pending_review, finalize_replies, dedup_against_posted,
       FzGoto, FzFrame
  <2>3. CASE \/ suppress_clean(u) \/ clean_guard(u) \/ insert_review_if_absent(u)
             \/ clean_verdict(u)
    BY <1>2, <2>3 DEF suppress_clean, clean_guard, insert_review_if_absent,
       clean_verdict, FzGoto, FzFrame
  <2>4. CASE \/ finalize_queue_review(u) \/ clear_pending_action(u)
             \/ finalize_react(u) \/ finalize_resolve(u)
    BY <1>2, <2>4 DEF finalize_queue_review, clear_pending_action, finalize_react,
       finalize_resolve, FzGoto, FzFrame
  <2>. QED
    BY <1>2, <2>1, <2>2, <2>3, <2>4 DEF finalize_review
<1>3. ASSUME NEW u \in Tasks, NEW k \in Kinds, ReconcilerStep(u, k)
      PROVE  Same
  BY <1>3 DEF ReconcilerStep, deliver, post, PostFails, record,
     mark_outbox_posted, mark_outbox_failed, RcNext
<1>4. ASSUME NEW r \in Rows, BackoffElapses(r) PROVE Same
  BY <1>4 DEF BackoffElapses
<1>5. CASE claim_outbox_batch \/ ReconcilerFault
  BY <1>5 DEF claim_outbox_batch, ReconcilerFault, MarkError, ReconcilerCrash, RcNext
<1>6. CASE UNCHANGED vars
  BY <1>6
<1>. QED
  BY <1>1, <1>2, <1>3, <1>4, <1>5, <1>6 DEF Next, Serve

\* Only finalize_queue_review of t takes the key of its review, and with it
\* writes the payload.
LEMMA ReviewRow ==
    ASSUME OutboxInv, [Next]_vars, NEW t \in Tasks
    PROVE  \/ /\ finding'[t] = finding[t]
              /\ Free(<<t, "review">>) => Free(<<t, "review">>)'
           \/ /\ finalize_queue_review(t) /\ Free(<<t, "review">>)
              /\ finding'[t] = kept[t]
<1>. USE DEF OutboxInv, TypeOK, HandlerTypes, OutboxTypes, vars, serveVars, loadVars, rowVars
<1>. DEFINE Same == /\ finding'[t] = finding[t]
                    /\ Free(<<t, "review">>) => Free(<<t, "review">>)'
<1>0. <<t, "review">> \in Rows
  BY DEF Rows, Kinds
<1>a. ASSUME NEW u \in Tasks, NEW k \in Kinds, <<u, k>> # <<t, "review">>,
             enqueue_outbox_post(<<u, k>>)
      PROVE  Free(<<t, "review">>) => Free(<<t, "review">>)'
  BY <1>0, <1>a DEF enqueue_outbox_post, Free
<1>b. ASSUME st' = st PROVE Free(<<t, "review">>) => Free(<<t, "review">>)'
  BY <1>b DEF Free
<1>c. {"reply", "notice", "verdict", "confused", "eyes", "start", "resolve"}
      \subseteq Kinds \ {"review"}
  BY DEF Kinds
<1>d. ASSUME NEW u \in Tasks,
             NEW k \in {"reply", "notice", "verdict", "confused", "eyes", "start", "resolve"},
             enqueue(u, k)
      PROVE  Same
  BY <1>a, <1>c, <1>d DEF enqueue
<1>e. ASSUME NEW u \in Tasks,
             Nothing \/ (\E c : enqueue_verdict_reaction(u, c) \/ enqueue_check_run_resolve(u, c))
      PROVE  Same
  BY <1>a, <1>b, <1>c, <1>e DEF Nothing, enqueue_verdict_reaction, enqueue_check_run_resolve
<1>1. ASSUME NEW u \in Tasks,
             \/ create(u) \/ Cancel(u) \/ resolve_cancelled_check_run(u)
             \/ FailureHandlerDropped(u) \/ dispatch(u) \/ SignalsDropped(u) \/ ReaperFails(u)
             \/ Runner(u) \/ finalize_respond(u) \/ FinalizeFails(u)
      PROVE  Same
  BY <1>1, <1>b DEF create, Cancel, resolve_cancelled_check_run, FailureHandlerDropped,
     dispatch, SignalsDropped, ReaperFails,
     Runner, ReportRunning, perform_review, ReviewRunFails, RunFails, PodDies,
     ReportSucceeded, ReportFailed, finalize_respond, FinalizeFails, FzEnd
<1>2. ASSUME NEW u \in Tasks,
             \/ handle_review_failure(u) \/ react_work_started(u) \/ start_check_run_signal(u)
      PROVE  Same
  BY <1>2, <1>d, <1>e DEF handle_review_failure, react_work_started, start_check_run_signal, Lost
<1>3. ASSUME NEW u \in Tasks,
             \/ load_pending_review(u) \/ finalize_replies(u) \/ dedup_against_posted(u)
             \/ suppress_clean(u) \/ clean_guard(u) \/ insert_review_if_absent(u)
             \/ clean_verdict(u) \/ clear_pending_action(u) \/ finalize_react(u)
             \/ finalize_resolve(u)
      PROVE  Same
  BY <1>3, <1>d, <1>e DEF load_pending_review, finalize_replies, dedup_against_posted,
     suppress_clean, clean_guard, insert_review_if_absent, clean_verdict,
     clear_pending_action, finalize_react, finalize_resolve, Lost
<1>4. ASSUME NEW u \in Tasks, finalize_queue_review(u)
      PROVE  Same \/ /\ finalize_queue_review(t) /\ Free(<<t, "review">>)
                     /\ finding'[t] = kept[t]
  <2>1. CASE u # t
    <3>1. <<u, "review">> # <<t, "review">> /\ "review" \in Kinds
      BY <2>1 DEF Kinds
    <3>. QED
      BY <1>4, <1>a, <2>1, <3>1 DEF finalize_queue_review, enqueue_review
  <2>2. CASE u = t /\ Inserts(<<t, "review">>)
    BY <1>4, <2>2 DEF finalize_queue_review, enqueue_review, Inserts
  <2>3. CASE u = t /\ ~Inserts(<<t, "review">>)
    BY <1>4, <1>b, <2>3 DEF finalize_queue_review, enqueue_review, enqueue_outbox_post
  <2>. QED
    BY <2>1, <2>2, <2>3
<1>5. ASSUME NEW u \in Tasks, prune_outbox(u) PROVE Same
  BY <1>0, <1>5 DEF prune_outbox, Free
<1>6. ASSUME NEW u \in Tasks, NEW k \in Kinds, ReconcilerStep(u, k)
      PROVE  Same
  <2>1. CASE deliver(u, k) \/ post(u, k) \/ PostFails(u, k) \/ record(u, k)
    BY <1>b, <2>1 DEF deliver, post, PostFails, record
  <2>2. CASE mark_outbox_posted(u, k) \/ mark_outbox_failed(u, k)
    <3>1. cur = <<u, k>> /\ st[cur] \in Unsettled
      BY <2>2 DEF mark_outbox_posted, mark_outbox_failed, ClaimedUnsettled, Working
    <3>2. ~Free(cur)
      BY <3>1 DEF Free, Unsettled
    <3>3. finding'[t] = finding[t]
      BY <2>2 DEF mark_outbox_posted, mark_outbox_failed, RcNext
    <3>4. CASE <<t, "review">> = cur
      BY <3>2, <3>3, <3>4
    <3>5. CASE <<t, "review">> # cur
      <4>1. st'[<<t, "review">>] = st[<<t, "review">>]
        BY <1>0, <2>2, <3>1, <3>5 DEF mark_outbox_posted, mark_outbox_failed
      <4>. QED
        BY <3>3, <4>1 DEF Free
    <3>. QED
      BY <3>4, <3>5
  <2>. QED
    BY <1>6, <2>1, <2>2 DEF ReconcilerStep
<1>7. ASSUME NEW r \in Rows, BackoffElapses(r) PROVE Same
  BY <1>0, <1>7 DEF BackoffElapses, Free
<1>8. CASE claim_outbox_batch \/ ReconcilerFault \/ UNCHANGED vars
  BY <1>8, <1>b DEF claim_outbox_batch, ReconcilerFault, MarkError, ReconcilerCrash, RcNext
<1>. QED
  BY <1>1, <1>2, <1>3, <1>4, <1>5, <1>6, <1>7, <1>8
     DEF Next, Serve, Dispatcher, finalize_review

-----------------------------------------------------------------------------
(* Thumbs and findings.                                                    *)

\* No other review of the commit has posted findings.
NothingToRetract == \A t \in Tasks : ~target_has_prior_findings(t)

\* The silent path still finds the key of the review free, and the other path is
\* taken by runs that are not clean.
SilentIsFree ==
    \A t \in Tasks :
        /\ queued[t] => fz[t] \in {"clear", "react", "resolve", "respond"}
        /\ fz[t] = "react" => queued[t]
        /\ fz[t] \in {"persist", "thumb"} => Free(<<t, "review">>)
        /\ fz[t] = "queue" \/ queued[t] => ~suppress_clean_post(t)

\* SilentIsFree is inductive while there is nothing to retract and the lookups
\* do not fail.
LEMMA SilentStep ==
    ASSUME "db_error" \notin Faults, OutboxInv, NothingToRetract, SilentIsFree, [Next]_vars
    PROVE  SilentIsFree'
<1>. USE DEF OutboxInv, TypeOK, TaskTypes, HandlerTypes
<1>. SUFFICES ASSUME NEW t \in Tasks
              PROVE  /\ queued'[t] => fz'[t] \in {"clear", "react", "resolve", "respond"}
                     /\ fz'[t] = "react" => queued'[t]
                     /\ fz'[t] \in {"persist", "thumb"} => Free(<<t, "review">>)'
                     /\ fz'[t] = "queue" \/ queued'[t] => ~suppress_clean_post(t)'
  BY DEF SilentIsFree
<1>1. /\ queued[t] => fz[t] \in {"clear", "react", "resolve", "respond"}
      /\ fz[t] = "react" => queued[t]
      /\ fz[t] \in {"persist", "thumb"} => Free(<<t, "review">>)
      /\ fz[t] = "queue" \/ queued[t] => ~suppress_clean_post(t)
  BY DEF SilentIsFree
<1>2. fz[t] # "queue" => (Free(<<t, "review">>) => Free(<<t, "review">>)')
  BY ReviewRow DEF finalize_queue_review
<1>3. CASE /\ fz'[t] = fz[t] /\ snap'[t] = snap[t] /\ queued'[t] = queued[t]
           /\ outcome'[t] = outcome[t] \/ fz[t] = "idle"
  BY <1>1, <1>2, <1>3 DEF suppress_clean_post
<1>4. CASE finalize_respond(t) \/ FinalizeFails(t)
  BY <1>4 DEF finalize_respond, FinalizeFails, FzEnd
<1>5. CASE load_pending_review(t) \/ finalize_replies(t)
  BY <1>1, <1>5 DEF load_pending_review, finalize_replies, FzGoto, FzFrame
<1>6. CASE dedup_against_posted(t)
  BY <1>1, <1>6 DEF dedup_against_posted, FzGoto, FzFrame, suppress_clean_post
<1>7. CASE suppress_clean(t)
  BY <1>1, <1>7 DEF suppress_clean, FzGoto, FzFrame, NothingToRetract
<1>8. CASE clean_guard(t)
  BY <1>1, <1>2, <1>8 DEF clean_guard, FzGoto, FzFrame, has_review_intent_or_posted_review
<1>9. CASE insert_review_if_absent(t) \/ clean_verdict(t)
  BY <1>1, <1>2, <1>9 DEF insert_review_if_absent, clean_verdict, FzGoto, FzFrame
<1>10. CASE \/ finalize_queue_review(t) \/ clear_pending_action(t)
            \/ finalize_react(t) \/ finalize_resolve(t)
  BY <1>1, <1>10 DEF finalize_queue_review, clear_pending_action, finalize_react,
     finalize_resolve, FzGoto, FzFrame, suppress_clean_post
<1>. QED
  BY <1>3, <1>4, <1>5, <1>6, <1>7, <1>8, <1>9, <1>10, HandlerMoves DEF finalize_review

\* Only the finalize of t queues its thumbs.
LEMMA VerdictRow ==
    ASSUME OutboxInv, [Next]_vars, NEW t \in Tasks, verdict'[t] # verdict[t]
    PROVE  \/ clean_verdict(t)
           \/ /\ finalize_react(t) /\ policy_verdict(t) # "none"
              /\ verdict'[t] = policy_verdict(t)
<1>. USE DEF OutboxInv, TypeOK, OutboxTypes, vars, serveVars, loadVars
<1>1. ASSUME NEW u \in Tasks,
             \/ create(u) \/ Cancel(u) \/ resolve_cancelled_check_run(u)
             \/ handle_review_failure(u) \/ FailureHandlerDropped(u)
             \/ Dispatcher(u) \/ Runner(u) \/ prune_outbox(u)
      PROVE  verdict' = verdict
  BY <1>1 DEF create, Cancel, resolve_cancelled_check_run,
     handle_review_failure, FailureHandlerDropped, Dispatcher, dispatch,
     react_work_started, start_check_run_signal, SignalsDropped, ReaperFails,
     Runner, ReportRunning, perform_review, ReviewRunFails, RunFails, PodDies,
     ReportSucceeded, ReportFailed, prune_outbox, Lost, Nothing, enqueue,
     enqueue_check_run_resolve
<1>2. ASSUME NEW u \in Tasks,
             \/ finalize_respond(u) \/ FinalizeFails(u) \/ load_pending_review(u)
             \/ finalize_replies(u) \/ dedup_against_posted(u) \/ suppress_clean(u)
             \/ clean_guard(u) \/ insert_review_if_absent(u) \/ finalize_queue_review(u)
             \/ clear_pending_action(u) \/ finalize_resolve(u)
      PROVE  verdict' = verdict
  BY <1>2 DEF finalize_respond, FinalizeFails, FzEnd, load_pending_review, finalize_replies,
     dedup_against_posted, suppress_clean, clean_guard, insert_review_if_absent,
     finalize_queue_review, clear_pending_action, finalize_resolve, Lost, Nothing, enqueue,
     enqueue_review, enqueue_check_run_resolve
<1>3. ASSUME NEW u \in Tasks, clean_verdict(u) PROVE clean_verdict(t)
  BY <1>3 DEF clean_verdict, enqueue_verdict_reaction
<1>4. ASSUME NEW u \in Tasks, finalize_react(u)
      PROVE  /\ finalize_react(t) /\ policy_verdict(t) # "none"
             /\ verdict'[t] = policy_verdict(t)
  BY <1>4 DEF finalize_react, enqueue_verdict_reaction, enqueue, Lost, Nothing
<1>5. ASSUME NEW u \in Tasks, NEW k \in Kinds, ReconcilerStep(u, k)
      PROVE  verdict' = verdict
  BY <1>5 DEF ReconcilerStep, deliver, post, PostFails, record,
     mark_outbox_posted, mark_outbox_failed, RcNext
<1>6. ASSUME NEW r \in Rows, BackoffElapses(r) PROVE verdict' = verdict
  BY <1>6 DEF BackoffElapses
<1>7. CASE claim_outbox_batch \/ ReconcilerFault \/ UNCHANGED vars
  BY <1>7 DEF claim_outbox_batch, ReconcilerFault, MarkError, ReconcilerCrash, RcNext
<1>. QED
  BY <1>1, <1>2, <1>3, <1>4, <1>5, <1>6, <1>7 DEF Next, Serve, finalize_review

\* Unless an earlier review of the commit posted findings, a thumbs-up is never
\* queued over a review with findings, on any retry and under every fault but a
\* failing lookup: the silent path found no review under its key, and a clean run
\* takes no other.
THEOREM ThumbSafety ==
    ASSUME "db_error" \notin Faults
    PROVE  Spec /\ []NothingToRetract => NoThumbOverFindings
<1>1. Init => SilentIsFree
  BY DEF Init, SilentIsFree
<1>2. OutboxInv /\ NothingToRetract /\ SilentIsFree /\ [Next]_vars => SilentIsFree'
  BY SilentStep
<1>3. OutboxInv /\ SilentIsFree /\ [Next]_vars =>
          [\A t \in Tasks : verdict[t] # "+1" /\ verdict'[t] = "+1" =>
              Free(<<t, "review">>) \/ finding[t] = {}]_vars
  <2>. SUFFICES ASSUME OutboxInv, SilentIsFree, [Next]_vars, NEW t \in Tasks,
                       verdict[t] # "+1", verdict'[t] = "+1"
                PROVE  Free(<<t, "review">>)
    OBVIOUS
  <2>1. CASE clean_verdict(t)
    BY <2>1 DEF clean_verdict, SilentIsFree
  <2>2. CASE finalize_react(t) /\ policy_verdict(t) = "+1"
    <3>1. suppress_clean_post(t)
      BY <2>2 DEF policy_verdict, suppress_clean_post
    <3>2. fz[t] = "react"
      BY <2>2 DEF finalize_react
    <3>. QED
      BY <3>1, <3>2 DEF SilentIsFree
  <2>. QED
    BY <2>1, <2>2, VerdictRow
<1>. QED
  BY <1>1, <1>2, <1>3, OutboxInvariant, PTL DEF Spec, NoThumbOverFindings

-----------------------------------------------------------------------------
(* Findings across the reviews of a commit.                                *)

\* When a later task exists, an earlier review that was queued with findings is in
\* the reviews table or on its way, and no other one is about to be queued.
EarlierKnown ==
    \A t, u \in Tasks :
        t < u /\ status[u] # "absent" =>
            \/ reviews[t] = "posted" \/ st[<<t, "review">>] \in Unsettled
            \/ finding[t] = {} /\ fz[t] # "queue"

\* A task that was not created has not begun; what a later finalize keeps, and
\* what it queued, leaves out the findings of the earlier reviews.
FindingsApart ==
    /\ \A t \in Tasks :
          status[t] = "absent" =>
              run[t] = "none" /\ pods[t] = 0 /\ fz[t] = "idle" /\ finding[t] = {}
    /\ \A t, u \in Tasks :
          t < u => /\ finding[t] \cap finding[u] = {}
                   /\ fz[u] \in {"prior", "queue"} => finding[t] \cap kept[u] = {}

\* A task that is not created does not begin.
LEMMA AbsentStep ==
    ASSUME OutboxInv, FindingsApart, [Next]_vars, NEW t \in Tasks, status'[t] = "absent"
    PROVE  status[t] = "absent" /\ run'[t] = "none" /\ pods'[t] = 0
<1>. USE DEF OutboxInv, TypeOK, TaskTypes, vars, serveVars, taskVars
<1>0. status[t] = "absent" => run[t] = "none" /\ pods[t] = 0 /\ fz[t] = "idle"
  BY DEF FindingsApart
<1>1. ASSUME NEW u \in Tasks,
             \/ create(u) \/ Cancel(u) \/ resolve_cancelled_check_run(u)
             \/ handle_review_failure(u) \/ FailureHandlerDropped(u)
             \/ Dispatcher(u) \/ Runner(u) \/ prune_outbox(u)
      PROVE  status[t] = "absent" /\ run'[t] = "none" /\ pods'[t] = 0
  BY <1>0, <1>1 DEF create, Cancel, resolve_cancelled_check_run,
     handle_review_failure, FailureHandlerDropped, Dispatcher, dispatch,
     react_work_started, start_check_run_signal, SignalsDropped, ReaperFails,
     Runner, ReportRunning, perform_review, ReviewRunFails, RunFails, PodDies,
     ReportSucceeded, ReportFailed, prune_outbox
<1>2. ASSUME NEW u \in Tasks, finalize_review(u) \/ FinalizeFails(u)
      PROVE  status[t] = "absent" /\ run'[t] = "none" /\ pods'[t] = 0
  <2>1. CASE finalize_respond(u) \/ FinalizeFails(u)
    BY <1>0, <2>1 DEF finalize_respond, FinalizeFails, FzEnd
  <2>2. CASE ~(finalize_respond(u) \/ FinalizeFails(u))
    BY <1>0, <1>2, <2>2 DEF finalize_review, load_pending_review, finalize_replies,
       dedup_against_posted, suppress_clean, clean_guard, insert_review_if_absent,
       clean_verdict, finalize_queue_review, clear_pending_action,
       finalize_react, finalize_resolve, FzFrame
  <2>. QED
    BY <2>1, <2>2
<1>3. ASSUME NEW u \in Tasks, NEW k \in Kinds, ReconcilerStep(u, k)
      PROVE  status[t] = "absent" /\ run'[t] = "none" /\ pods'[t] = 0
  BY <1>0, <1>3 DEF ReconcilerStep, deliver, post, PostFails, record,
     mark_outbox_posted, mark_outbox_failed, RcNext
<1>4. ASSUME NEW r \in Rows, BackoffElapses(r)
      PROVE  status[t] = "absent" /\ run'[t] = "none" /\ pods'[t] = 0
  BY <1>0, <1>4 DEF BackoffElapses
<1>5. CASE claim_outbox_batch \/ ReconcilerFault \/ UNCHANGED vars
  BY <1>0, <1>5 DEF claim_outbox_batch, ReconcilerFault, MarkError, ReconcilerCrash, RcNext
<1>. QED
  BY <1>1, <1>2, <1>3, <1>4, <1>5 DEF Next, Serve

\* A review that is known is queued no second time.
LEMMA KnownStays ==
    ASSUME OutboxInv, [Next]_vars, NEW t \in Tasks,
           reviews[t] = "posted" \/ st[<<t, "review">>] \in Unsettled
    PROVE  finding'[t] = finding[t]
<1>1. st[<<t, "review">>] # "none"
  BY DEF OutboxInv, PostedHasRow, Unsettled
<1>2. ASSUME finalize_queue_review(t), Free(<<t, "review">>) PROVE FALSE
  <2>1. "review" \in Kinds /\ st[<<t, "review">>] = "pruned"
    BY <1>1, <1>2 DEF Free, Kinds
  <2>2. fz[t] = "idle"
    BY <2>1 DEF OutboxInv, PrunedIsOver, Over
  <2>. QED
    BY <1>2, <2>2 DEF finalize_queue_review
<1>. QED
  BY <1>2, ReviewRow

\* FindingsApart is inductive while later reviews see the earlier ones and the
\* lookups do not fail.
LEMMA ApartStep ==
    ASSUME "db_error" \notin Faults, OutboxInv, EarlierKnown, FindingsApart, [Next]_vars
    PROVE  FindingsApart'
<1>. USE DEF OutboxInv, TypeOK, TaskTypes, HandlerTypes
<1>1. ASSUME NEW t \in Tasks, status'[t] = "absent"
      PROVE  run'[t] = "none" /\ pods'[t] = 0 /\ fz'[t] = "idle" /\ finding'[t] = {}
  <2>1. /\ status[t] = "absent" /\ run[t] = "none" /\ fz[t] = "idle" /\ finding[t] = {}
        /\ run'[t] = "none" /\ pods'[t] = 0
    BY <1>1, AbsentStep DEF FindingsApart
  <2>2. ~finalize_review(t) /\ ~FinalizeFails(t) /\ ~finalize_queue_review(t)
    BY <2>1 DEF finalize_review, load_pending_review, finalize_replies,
       dedup_against_posted, suppress_clean, clean_guard, insert_review_if_absent,
       clean_verdict, finalize_queue_review, clear_pending_action,
       finalize_react, finalize_resolve, finalize_respond, FinalizeFails
  <2>. QED
    BY <2>1, <2>2, HandlerMoves, ReviewRow
<1>2. ASSUME NEW t \in Tasks, NEW u \in Tasks, t < u
      PROVE  /\ finding'[t] \cap finding'[u] = {}
             /\ fz'[u] \in {"prior", "queue"} => finding'[t] \cap kept'[u] = {}
  <2>0. /\ finding[t] \cap finding[u] = {}
        /\ fz[u] \in {"prior", "queue"} => finding[t] \cap kept[u] = {}
    BY <1>2 DEF FindingsApart
  <2>1. CASE status[u] = "absent"
    <3>1. finding[u] = {} /\ fz[u] = "idle"
      BY <2>1 DEF FindingsApart
    <3>2. finding'[u] = {}
      BY <3>1, ReviewRow DEF finalize_queue_review
    <3>3. fz'[u] \notin {"prior", "queue"}
      BY <3>1, HandlerMoves DEF finalize_review, load_pending_review, finalize_replies,
         dedup_against_posted, suppress_clean, clean_guard, insert_review_if_absent,
         clean_verdict, finalize_queue_review, clear_pending_action,
         finalize_react, finalize_resolve, finalize_respond, FinalizeFails, FzGoto
    <3>. QED
      BY <3>2, <3>3
  <2>2. CASE status[u] # "absent"
    <3>1. \/ reviews[t] = "posted" \/ st[<<t, "review">>] \in Unsettled
          \/ finding[t] = {} /\ fz[t] # "queue"
      BY <1>2, <2>2 DEF EarlierKnown
    <3>2. finding'[t] = finding[t]
      BY <3>1, KnownStays, ReviewRow DEF finalize_queue_review
    <3>3. finding[t] \cap finding'[u] = {}
      BY <2>0, ReviewRow DEF finalize_queue_review
    <3>4. ASSUME fz'[u] \in {"prior", "queue"} PROVE finding[t] \cap kept'[u] = {}
      <4>1. CASE fz'[u] = fz[u] /\ kept'[u] = kept[u]
        BY <2>0, <3>4, <4>1
      <4>2. CASE dedup_against_posted(u)
        <5>1. kept'[u] = snap[u].inline \ posted_findings_for_target(u)
          BY <4>2 DEF dedup_against_posted
        <5>2. finding[t] \subseteq posted_findings_for_target(u)
          <6>1. finding[t] # {} =>
                  t \in {v \in Tasks \ {u} : reviews[v] = "posted"
                                             \/ st[<<v, "review">>] \in Unsettled}
            BY <1>2, <3>1, TasksAssumption
          <6>. QED
            BY <6>1 DEF posted_findings_for_target
        <5>. QED
          BY <5>1, <5>2
      <4>3. CASE suppress_clean(u)
        BY <2>0, <4>3 DEF suppress_clean
      <4>4. CASE ~suppress_clean(u) /\ ~dedup_against_posted(u)
                 /\ (finalize_review(u) \/ FinalizeFails(u))
        BY <3>4, <4>4 DEF finalize_review, load_pending_review, finalize_replies,
           clean_guard, insert_review_if_absent,
           clean_verdict, finalize_queue_review, clear_pending_action,
           finalize_react, finalize_resolve, finalize_respond, FinalizeFails, FzGoto, FzEnd
      <4>. QED
        BY <4>1, <4>2, <4>3, <4>4, HandlerMoves
    <3>. QED
      BY <3>2, <3>3, <3>4
  <2>. QED
    BY <2>1, <2>2
<1>. QED
  BY <1>1, <1>2 DEF FindingsApart

\* While every earlier review with findings is in the reviews table or on its way
\* when a later task exists, no other one is about to be queued, and lookups do not
\* fail, no two reviews of a commit post the same finding: the dedup sees the
\* earlier payloads, and they are never replaced.
THEOREM RereviewSafety ==
    ASSUME "db_error" \notin Faults
    PROVE  Spec /\ []EarlierKnown => []FindingPostedOnce
<1>1. Init => FindingsApart
  BY DEF Init, FindingsApart
<1>2. OutboxInv /\ EarlierKnown /\ FindingsApart /\ [Next]_vars => FindingsApart'
  BY ApartStep
<1>3. FindingsApart => FindingPostedOnce
  <2>. SUFFICES ASSUME FindingsApart, NEW t \in Tasks, NEW u \in Tasks, t # u
                PROVE  finding[t] \cap finding[u] = {}
    BY DEF FindingPostedOnce
  <2>1. t < u \/ u < t
    BY TasksAssumption
  <2>. QED
    BY <2>1 DEF FindingsApart
<1>. QED
  BY <1>1, <1>2, <1>3, OutboxInvariant, PTL DEF Spec
=============================================================================
