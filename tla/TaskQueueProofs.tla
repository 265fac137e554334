--------------------------- MODULE TaskQueueProofs ---------------------------
(***************************************************************************)
(* Proofs about TaskQueue for every set of tasks, repositories, faults and *)
(* every bound.  TypeOK and LeaseDiscipline hold for any number of         *)
(* dispatchers; QueuedIsClean, LeasedRunNeverKilled and AttemptsBounded    *)
(* for a single one, which is how the dispatcher is deployed.              *)
(***************************************************************************)
EXTENDS TaskQueue, TLAPS

RowTypeOK ==
    /\ status \in [Tasks -> Status]
    /\ lease \in [Tasks -> Lease]
    /\ attempts \in [Tasks -> Nat]
    /\ jobName \in [Tasks -> BOOLEAN]
    /\ unreleased \in SUBSET IndexTasks

\* release_task keeps the types of the row, whether or not its guard holds.
LEMMA ReleaseType ==
    ASSUME TypeOK, NEW t, release_task(t)
    PROVE  RowTypeOK'
<1>1. CASE status[t] \in Active
      BY <1>1 DEF TypeOK, RowTypeOK, release_task, Status, Lease
<1>2. CASE status[t] \notin Active
      BY <1>2 DEF TypeOK, RowTypeOK, release_task, rowVars
<1>3. QED
      BY <1>1, <1>2

\* One step of the queue keeps every variable in its type.
LEMMA TypeStep == TypeOK /\ [Next]_vars => TypeOK'
<1> SUFFICES ASSUME TypeOK, [Next]_vars PROVE TypeOK'
    OBVIOUS
<1> USE DEF TypeOK, rowVars, k8sVars, dispVars, Status, Active, Terminal, Lease,
            JobState, PodState, Report, PC, ReapableTask
<1>1. ASSUME NEW t \in Tasks, create_task(t) PROVE TypeOK'
      BY <1>1 DEF create_task
<1>2. ASSUME NEW t \in Tasks, create_index_task(t) PROVE TypeOK'
      BY <1>2 DEF create_index_task
<1>3. ASSUME NEW t \in Tasks, cancel_task_by_id(t) PROVE TypeOK'
      BY <1>3 DEF cancel_task_by_id, cancel
<1>4. ASSUME NEW r \in Repos, cancel_active_tasks_for_repo(r) PROVE TypeOK'
      BY <1>4 DEF cancel_active_tasks_for_repo, cancel
<1>5. ASSUME NEW i \in IndexTasks, release_reviews_waiting_on_index(i) PROVE TypeOK'
      BY <1>5 DEF release_reviews_waiting_on_index
<1>6. ASSUME NEW i \in IndexTasks, ReleaseFails(i) PROVE TypeOK'
      BY <1>6 DEF ReleaseFails
<1>7. ASSUME NEW t \in Tasks, StartPod(t) PROVE TypeOK'
      BY <1>7 DEF StartPod
<1>8. ASSUME NEW t \in Tasks, ReportRunning(t) PROVE TypeOK'
      BY <1>8 DEF ReportRunning, report, set_task_status
<1>9. ASSUME NEW t \in Tasks, run(t) PROVE TypeOK'
      BY <1>9 DEF run
<1>10. ASSUME NEW t \in Tasks, ReportSucceeded(t) PROVE TypeOK'
      BY <1>10 DEF ReportSucceeded, report, set_task_status
<1>11. ASSUME NEW t \in Tasks, ReportFailed(t) PROVE TypeOK'
      BY <1>11 DEF ReportFailed, report, set_task_status, PodFails
<1>12. ASSUME NEW t \in Tasks, cancelled_upstream(t) PROVE TypeOK'
      BY <1>12 DEF cancelled_upstream, PodFails
<1>13. ASSUME NEW t \in Tasks, PodDies(t) PROVE TypeOK'
      BY <1>13 DEF PodDies, PodFails, InFlight
<1>14. ASSUME NEW t \in Tasks, DeadlineExceeded(t) PROVE TypeOK'
      BY <1>14 DEF DeadlineExceeded, InFlight
<1>15. ASSUME NEW t \in Tasks, JobExpires(t) PROVE TypeOK'
      BY <1>15 DEF JobExpires
<1>16. ASSUME NEW t \in Tasks, LeaseExpires(t) PROVE TypeOK'
      BY <1>16 DEF LeaseExpires
<1>17. ASSUME NEW t \in Tasks, NEW s \in Report, LateReportLands(t, s) PROVE TypeOK'
      BY <1>17 DEF LateReportLands, set_task_status
<1>18. ASSUME NEW t \in Tasks, NEW s \in Report, LateReportDropped(t, s) PROVE TypeOK'
      BY <1>18 DEF LateReportDropped
<1>19. ASSUME NEW d \in Dispatchers, NEW t \in Tasks, claim_next_task(d, t) PROVE TypeOK'
      BY <1>19 DEF claim_next_task, Claimable, Goto, Keep, Listed
<1>20. ASSUME NEW d \in Dispatchers, DrainReturns(d) PROVE TypeOK'
      BY <1>20 DEF DrainReturns, Goto
<1>21. ASSUME NEW d \in Dispatchers, ClaimError(d) PROVE TypeOK'
      BY <1>21 DEF ClaimError, Goto
<1>22. ASSUME NEW d \in Dispatchers, LaunchSucceeds(d) PROVE TypeOK'
      BY <1>22 DEF LaunchSucceeds, launch, Goto
<1>23. ASSUME NEW d \in Dispatchers, LaunchFails(d) PROVE TypeOK'
      BY <1>23 DEF LaunchFails, launch, Goto
<1>24. ASSUME NEW d \in Dispatchers, set_task_job(d) PROVE TypeOK'
      BY <1>24 DEF set_task_job, Goto, Keep
<1>25. ASSUME NEW d \in Dispatchers, RequeueUnlaunched(d) PROVE TypeOK'
      BY <1>25, ReleaseType DEF RequeueUnlaunched, RowTypeOK, Goto, Keep
<1>26. ASSUME NEW d \in Dispatchers, Wake(d) PROVE TypeOK'
      BY <1>26 DEF Wake, Goto
<1>27. ASSUME NEW d \in Dispatchers, list_reapable_tasks(d) PROVE TypeOK'
      <2>1. {Listed(t) : t \in {u \in Tasks : status[u] \in Active /\ lease[u] = "expired"}}
              \in SUBSET ReapableTask
          BY DEF Listed
      <2>2. QED
          BY <1>27, <2>1 DEF list_reapable_tasks, Goto
<1>28. ASSUME NEW d \in Dispatchers, NEW r \in todo[d], CheckLiveness(d, r) PROVE TypeOK'
      BY <1>28 DEF CheckLiveness, decide, Goto, Keep
<1>29. ASSUME NEW d \in Dispatchers, NEW r \in todo[d], LivenessUnknown(d, r) PROVE TypeOK'
      BY <1>29 DEF LivenessUnknown
<1>30. ASSUME NEW d \in Dispatchers, RenewLease(d) PROVE TypeOK'
      BY <1>30 DEF RenewLease, renew_lease, Goto, Keep
<1>31. ASSUME NEW d \in Dispatchers, MarkSucceeded(d) PROVE TypeOK'
      BY <1>31 DEF MarkSucceeded, set_task_status, Goto, Keep
<1>32. ASSUME NEW d \in Dispatchers, delete_dead_job(d) PROVE TypeOK'
      BY <1>32 DEF delete_dead_job, delete_job, InFlight, Goto
<1>33. ASSUME NEW d \in Dispatchers, Requeue(d) PROVE TypeOK'
      BY <1>33, ReleaseType DEF Requeue, RowTypeOK, Goto, Keep
<1>34. ASSUME NEW d \in Dispatchers, Fail(d) PROVE TypeOK'
      BY <1>34 DEF Fail, set_task_status, Goto, Keep
<1>35. ASSUME NEW d \in Dispatchers, list_cancelled_with_job(d) PROVE TypeOK'
      <2>1. {Listed(t) : t \in {u \in Tasks : status[u] = "cancelled" /\ jobName[u]}}
              \in SUBSET ReapableTask
          BY DEF Listed
      <2>2. QED
          BY <1>35, <2>1 DEF list_cancelled_with_job, Goto
<1>36. ASSUME NEW d \in Dispatchers, NEW r \in todo[d], StopCancelled(d, r) PROVE TypeOK'
      BY <1>36 DEF StopCancelled, delete_job, InFlight, Goto, Keep
<1>37. ASSUME NEW d \in Dispatchers, SweepError(d) PROVE TypeOK'
      BY <1>37 DEF SweepError
<1>38. ASSUME NEW d \in Dispatchers, clear_job_name(d) PROVE TypeOK'
      BY <1>38 DEF clear_job_name, Goto, Keep
<1>39. ASSUME NEW d \in Dispatchers, SweepReturns(d) PROVE TypeOK'
      BY <1>39 DEF SweepReturns, Goto
<1>40. ASSUME NEW d \in Dispatchers, DbError(d) PROVE TypeOK'
      BY <1>40 DEF DbError, Goto, Keep
<1>41. ASSUME NEW d \in Dispatchers, Crash(d) PROVE TypeOK'
      BY <1>41 DEF Crash
<1>42. CASE UNCHANGED vars
      BY <1>42 DEF vars
<1>43. QED
      BY <1>1, <1>2, <1>3, <1>4, <1>5, <1>6, <1>7, <1>8, <1>9, <1>10, <1>11, <1>12,
         <1>13, <1>14, <1>15, <1>16, <1>17, <1>18, <1>19, <1>20, <1>21, <1>22, <1>23,
         <1>24, <1>25, <1>26, <1>27, <1>28, <1>29, <1>30, <1>31, <1>32, <1>33, <1>34,
         <1>35, <1>36, <1>37, <1>38, <1>39, <1>40, <1>41, <1>42
      DEF Next, Serve, Runner, RunnerStep, Dispatcher, DispatcherStep

\* No step puts a lease on, or leaves one on, a row that is not active.
LEMMA LeaseStep == TypeOK /\ LeaseDiscipline /\ [Next]_vars => LeaseDiscipline'
<1> SUFFICES ASSUME TypeOK, LeaseDiscipline, [Next]_vars PROVE LeaseDiscipline'
    OBVIOUS
<1> USE DEF TypeOK, LeaseDiscipline, Active, Terminal, Report, rowVars
<1>1. ASSUME NEW t \in Tasks, create_task(t) PROVE LeaseDiscipline'
      BY <1>1 DEF create_task
<1>2. ASSUME NEW t \in Tasks, create_index_task(t) PROVE LeaseDiscipline'
      BY <1>2 DEF create_index_task
<1>3. ASSUME NEW t \in Tasks, cancel_task_by_id(t) PROVE LeaseDiscipline'
      BY <1>3 DEF cancel_task_by_id, cancel
<1>4. ASSUME NEW r \in Repos, cancel_active_tasks_for_repo(r) PROVE LeaseDiscipline'
      BY <1>4 DEF cancel_active_tasks_for_repo, cancel
<1>5. ASSUME NEW i \in IndexTasks, release_reviews_waiting_on_index(i) PROVE LeaseDiscipline'
      BY <1>5 DEF release_reviews_waiting_on_index
<1>6. ASSUME NEW i \in IndexTasks, ReleaseFails(i) PROVE LeaseDiscipline'
      BY <1>6 DEF ReleaseFails
<1>7. ASSUME NEW t \in Tasks, ReportRunning(t) PROVE LeaseDiscipline'
      BY <1>7 DEF ReportRunning, report, set_task_status
<1>8. ASSUME NEW t \in Tasks, ReportSucceeded(t) PROVE LeaseDiscipline'
      BY <1>8 DEF ReportSucceeded, report, set_task_status
<1>9. ASSUME NEW t \in Tasks, ReportFailed(t) PROVE LeaseDiscipline'
      BY <1>9 DEF ReportFailed, report, set_task_status
<1>10. ASSUME NEW t \in Tasks, LeaseExpires(t) PROVE LeaseDiscipline'
      BY <1>10 DEF LeaseExpires
<1>11. ASSUME NEW t \in Tasks, NEW s \in Report, LateReportLands(t, s) PROVE LeaseDiscipline'
      BY <1>11 DEF LateReportLands, set_task_status
<1>12. ASSUME NEW d \in Dispatchers, NEW t \in Tasks, claim_next_task(d, t) PROVE LeaseDiscipline'
      BY <1>12 DEF claim_next_task, Claimable
<1>13. ASSUME NEW d \in Dispatchers, set_task_job(d) PROVE LeaseDiscipline'
      BY <1>13 DEF set_task_job
<1>14. ASSUME NEW d \in Dispatchers, RequeueUnlaunched(d) PROVE LeaseDiscipline'
      BY <1>14 DEF RequeueUnlaunched, release_task
<1>15. ASSUME NEW d \in Dispatchers, RenewLease(d) PROVE LeaseDiscipline'
      BY <1>15 DEF RenewLease, renew_lease
<1>16. ASSUME NEW d \in Dispatchers, MarkSucceeded(d) PROVE LeaseDiscipline'
      BY <1>16 DEF MarkSucceeded, set_task_status
<1>17. ASSUME NEW d \in Dispatchers, Requeue(d) PROVE LeaseDiscipline'
      BY <1>17 DEF Requeue, release_task
<1>18. ASSUME NEW d \in Dispatchers, Fail(d) PROVE LeaseDiscipline'
      BY <1>18 DEF Fail, set_task_status
<1>19. ASSUME NEW d \in Dispatchers, clear_job_name(d) PROVE LeaseDiscipline'
      BY <1>19 DEF clear_job_name
<1>20. CASE UNCHANGED rowVars
      BY <1>20
<1>21. QED
      BY <1>1, <1>2, <1>3, <1>4, <1>5, <1>6, <1>7, <1>8, <1>9, <1>10, <1>11, <1>12,
         <1>13, <1>14, <1>15, <1>16, <1>17, <1>18, <1>19, <1>20
      DEF Next, vars, Serve, Runner, RunnerStep, Dispatcher, DispatcherStep,
          StartPod, run, cancelled_upstream, PodDies, DeadlineExceeded, JobExpires,
          LateReportDropped, DrainReturns, ClaimError, LaunchSucceeds, LaunchFails,
          Wake, list_reapable_tasks, CheckLiveness, LivenessUnknown, delete_dead_job,
          list_cancelled_with_job, StopCancelled, SweepError, SweepReturns, DbError,
          Crash

(***************************************************************************)
(* With a single dispatcher.  Only the dispatcher itself requeues a row,   *)
(* claims one, renews a lease or creates a Job, so what it has read about  *)
(* a task in hand cannot be undone behind its back.                        *)
(***************************************************************************)
SingleDispatcher == \A d, e \in Dispatchers : d = e
Bookkeeping == HandsStarted /\ NamedStarted /\ DeadStayDead /\ SweptUnleased

(* With one dispatcher, every step of the queue preserves that bookkeeping. *)
LEMMA BookkeepingStep == SingleDispatcher /\ IInv /\ [Next]_vars => Bookkeeping'
<1> SUFFICES ASSUME SingleDispatcher, IInv, [Next]_vars PROVE Bookkeeping'
    OBVIOUS
<1> USE DEF SingleDispatcher, IInv, TypeOK, LeaseDiscipline, Bookkeeping, HandsStarted,
            NamedStarted, DeadStayDead, SweptUnleased, InHand, JudgedDead, Fresh,
            Active, Terminal, Report, ReapableTask, rowVars, k8sVars, dispVars
<1>1. ASSUME NEW t \in Tasks, create_task(t) PROVE Bookkeeping'
      BY <1>1 DEF create_task
<1>2. ASSUME NEW t \in Tasks, create_index_task(t) PROVE Bookkeeping'
      BY <1>2 DEF create_index_task
<1>3. ASSUME NEW t \in Tasks, cancel_task_by_id(t) PROVE Bookkeeping'
      BY <1>3 DEF cancel_task_by_id, cancel
<1>4. ASSUME NEW r \in Repos, cancel_active_tasks_for_repo(r) PROVE Bookkeeping'
      BY <1>4 DEF cancel_active_tasks_for_repo, cancel
<1>5. ASSUME NEW i \in IndexTasks, release_reviews_waiting_on_index(i) PROVE Bookkeeping'
      BY <1>5 DEF release_reviews_waiting_on_index
<1>6. ASSUME NEW i \in IndexTasks, ReleaseFails(i) PROVE Bookkeeping'
      BY <1>6 DEF ReleaseFails
<1>7. ASSUME NEW t \in Tasks, StartPod(t) PROVE Bookkeeping'
      BY <1>7 DEF StartPod
<1>8. ASSUME NEW t \in Tasks, ReportRunning(t) PROVE Bookkeeping'
      BY <1>8 DEF ReportRunning, report, set_task_status
<1>9. ASSUME NEW t \in Tasks, run(t) PROVE Bookkeeping'
      BY <1>9 DEF run
<1>10. ASSUME NEW t \in Tasks, ReportSucceeded(t) PROVE Bookkeeping'
      BY <1>10 DEF ReportSucceeded, report, set_task_status
<1>11. ASSUME NEW t \in Tasks, ReportFailed(t) PROVE Bookkeeping'
      BY <1>11 DEF ReportFailed, report, set_task_status, PodFails
<1>12. ASSUME NEW t \in Tasks, cancelled_upstream(t) PROVE Bookkeeping'
      BY <1>12 DEF cancelled_upstream, PodFails
<1>13. ASSUME NEW t \in Tasks, PodDies(t) PROVE Bookkeeping'
      BY <1>13 DEF PodDies, PodFails, InFlight
<1>14. ASSUME NEW t \in Tasks, DeadlineExceeded(t) PROVE Bookkeeping'
      BY <1>14 DEF DeadlineExceeded, InFlight
<1>15. ASSUME NEW t \in Tasks, JobExpires(t) PROVE Bookkeeping'
      BY <1>15 DEF JobExpires
<1>16. ASSUME NEW t \in Tasks, LeaseExpires(t) PROVE Bookkeeping'
      BY <1>16 DEF LeaseExpires
<1>17. ASSUME NEW t \in Tasks, NEW s \in Report, LateReportLands(t, s) PROVE Bookkeeping'
      BY <1>17 DEF LateReportLands, set_task_status
<1>18. ASSUME NEW t \in Tasks, NEW s \in Report, LateReportDropped(t, s) PROVE Bookkeeping'
      BY <1>18 DEF LateReportDropped
<1>19. ASSUME NEW d \in Dispatchers, NEW t \in Tasks, claim_next_task(d, t) PROVE Bookkeeping'
      BY <1>19 DEF claim_next_task, Claimable, Goto, Keep, Listed
<1>20. ASSUME NEW d \in Dispatchers, DrainReturns(d) PROVE Bookkeeping'
      BY <1>20 DEF DrainReturns, Goto
<1>21. ASSUME NEW d \in Dispatchers, ClaimError(d) PROVE Bookkeeping'
      BY <1>21 DEF ClaimError, Goto
<1>22. ASSUME NEW d \in Dispatchers, LaunchSucceeds(d) PROVE Bookkeeping'
      BY <1>22 DEF LaunchSucceeds, launch, Goto
<1>23. ASSUME NEW d \in Dispatchers, LaunchFails(d) PROVE Bookkeeping'
      BY <1>23 DEF LaunchFails, launch, Goto
<1>24. ASSUME NEW d \in Dispatchers, set_task_job(d) PROVE Bookkeeping'
      BY <1>24 DEF set_task_job, Goto, Keep
<1>25. ASSUME NEW d \in Dispatchers, RequeueUnlaunched(d) PROVE Bookkeeping'
      BY <1>25 DEF RequeueUnlaunched, release_task, Goto, Keep
<1>26. ASSUME NEW d \in Dispatchers, Wake(d) PROVE Bookkeeping'
      BY <1>26 DEF Wake, Goto
<1>27. ASSUME NEW d \in Dispatchers, list_reapable_tasks(d) PROVE Bookkeeping'
      BY <1>27 DEF list_reapable_tasks, Listed, Goto
<1>28. ASSUME NEW d \in Dispatchers, NEW r \in todo[d], CheckLiveness(d, r) PROVE Bookkeeping'
      BY <1>28 DEF CheckLiveness, decide, Goto, Keep, job_liveness
<1>29. ASSUME NEW d \in Dispatchers, NEW r \in todo[d], LivenessUnknown(d, r) PROVE Bookkeeping'
      BY <1>29 DEF LivenessUnknown
<1>30. ASSUME NEW d \in Dispatchers, RenewLease(d) PROVE Bookkeeping'
      BY <1>30 DEF RenewLease, renew_lease, Goto, Keep
<1>31. ASSUME NEW d \in Dispatchers, MarkSucceeded(d) PROVE Bookkeeping'
      BY <1>31 DEF MarkSucceeded, set_task_status, Goto, Keep
<1>32. ASSUME NEW d \in Dispatchers, delete_dead_job(d) PROVE Bookkeeping'
      BY <1>32 DEF delete_dead_job, delete_job, InFlight, Goto
<1>33. ASSUME NEW d \in Dispatchers, Requeue(d) PROVE Bookkeeping'
      BY <1>33 DEF Requeue, release_task, Goto, Keep
<1>34. ASSUME NEW d \in Dispatchers, Fail(d) PROVE Bookkeeping'
      BY <1>34 DEF Fail, set_task_status, Goto, Keep
<1>35. ASSUME NEW d \in Dispatchers, list_cancelled_with_job(d) PROVE Bookkeeping'
      BY <1>35 DEF list_cancelled_with_job, Listed, Goto
<1>36. ASSUME NEW d \in Dispatchers, NEW r \in todo[d], StopCancelled(d, r) PROVE Bookkeeping'
      BY <1>36 DEF StopCancelled, delete_job, InFlight, Goto, Keep
<1>37. ASSUME NEW d \in Dispatchers, SweepError(d) PROVE Bookkeeping'
      BY <1>37 DEF SweepError
<1>38. ASSUME NEW d \in Dispatchers, clear_job_name(d) PROVE Bookkeeping'
      BY <1>38 DEF clear_job_name, Goto, Keep
<1>39. ASSUME NEW d \in Dispatchers, SweepReturns(d) PROVE Bookkeeping'
      BY <1>39 DEF SweepReturns, Goto
<1>40. ASSUME NEW d \in Dispatchers, DbError(d) PROVE Bookkeeping'
      BY <1>40 DEF DbError, Goto, Keep
<1>41. ASSUME NEW d \in Dispatchers, Crash(d) PROVE Bookkeeping'
      BY <1>41 DEF Crash
<1>42. CASE UNCHANGED vars
      BY <1>42 DEF vars
<1>43. QED
      BY <1>1, <1>2, <1>3, <1>4, <1>5, <1>6, <1>7, <1>8, <1>9, <1>10, <1>11, <1>12,
         <1>13, <1>14, <1>15, <1>16, <1>17, <1>18, <1>19, <1>20, <1>21, <1>22, <1>23,
         <1>24, <1>25, <1>26, <1>27, <1>28, <1>29, <1>30, <1>31, <1>32, <1>33, <1>34,
         <1>35, <1>36, <1>37, <1>38, <1>39, <1>40, <1>41, <1>42
      DEF Next, Serve, Runner, RunnerStep, Dispatcher, DispatcherStep

\* Every reachable state is well typed, for every instance of the constants.
THEOREM TypeCorrect == Spec => []TypeOK
<1>1. Init => TypeOK
      BY DEF Init, TypeOK, Status, Lease, JobState, PodState, PC
<1>2. QED
      BY <1>1, TypeStep, PTL DEF Spec

\* A lease belongs to an active run, with any number of dispatchers and under
\* every fault: the writes of db/tasks.rs keep lease and status in step.
THEOREM LeaseSafety == Spec => []LeaseDiscipline
<1>1. Init => LeaseDiscipline
      BY DEF Init, LeaseDiscipline
<1>2. QED
      BY <1>1, LeaseStep, TypeCorrect, PTL DEF Spec

\* The inductive invariant of the single dispatcher.
LEMMA Inductive == SingleDispatcher /\ Spec => []IInv
<1> SUFFICES ASSUME SingleDispatcher PROVE Spec => []IInv
    OBVIOUS
<1>1. Init => IInv
  <2>1. Init => TypeOK
        BY DEF Init, TypeOK, Status, Lease, JobState, PodState, PC
  <2>2. Init => LeaseDiscipline /\ HandsStarted /\ NamedStarted /\ DeadStayDead /\ SweptUnleased
        BY DEF Init, LeaseDiscipline, HandsStarted, NamedStarted, DeadStayDead, SweptUnleased,
               InHand, JudgedDead
  <2>3. QED
        BY <2>1, <2>2 DEF IInv
<1>2. IInv /\ [Next]_vars => IInv'
      BY TypeStep, LeaseStep, BookkeepingStep DEF IInv, Bookkeeping
<1>3. QED
      BY <1>1, <1>2, PTL DEF Spec

\* One Job per task: the single dispatcher never finds in the queue a row
\* that still has a lease, a recorded Job, or a dispatch under way.
THEOREM CleanQueue == SingleDispatcher /\ Spec => []QueuedIsClean
<1>1. IInv => QueuedIsClean
      BY DEF IInv, QueuedIsClean, LeaseDiscipline, HandsStarted, NamedStarted, InHand,
             Fresh, Active, TypeOK, Lease
<1>2. QED
      BY <1>1, Inductive, PTL

\* The single dispatcher never deletes the running Job of a leased run.
THEOREM NoLeasedRunKilled == SingleDispatcher /\ Spec => LeasedRunNeverKilled
<1> DEFINE Kept == \A t \in Tasks : job[t] = "active" /\ job'[t] = "none" => lease[t] = "none"
<1>1. IInv /\ [Next]_vars => Kept
  <2> SUFFICES ASSUME IInv, [Next]_vars PROVE Kept
      OBVIOUS
  <2> USE DEF IInv, TypeOK, k8sVars
  <2>1. ASSUME NEW d \in Dispatchers, delete_dead_job(d) PROVE Kept
        BY <2>1 DEF delete_dead_job, delete_job, DeadStayDead, JudgedDead
  <2>2. ASSUME NEW d \in Dispatchers, NEW r \in todo[d], StopCancelled(d, r) PROVE Kept
        BY <2>2 DEF StopCancelled, delete_job, SweptUnleased, ReapableTask
  <2>3. ASSUME NEW t \in Tasks, JobExpires(t) PROVE Kept
        BY <2>3 DEF JobExpires
  <2>4. ASSUME NEW t \in Tasks, ReportSucceeded(t) PROVE Kept
        BY <2>4 DEF ReportSucceeded
  <2>5. ASSUME NEW t \in Tasks, ReportFailed(t) \/ cancelled_upstream(t) \/ PodDies(t) PROVE Kept
        BY <2>5 DEF ReportFailed, cancelled_upstream, PodDies, PodFails
  <2>6. ASSUME NEW t \in Tasks, DeadlineExceeded(t) PROVE Kept
        BY <2>6 DEF DeadlineExceeded
  <2>7. ASSUME NEW d \in Dispatchers, LaunchSucceeds(d) \/ LaunchFails(d) PROVE Kept
        BY <2>7 DEF LaunchSucceeds, LaunchFails, launch
  <2>8. CASE UNCHANGED job
        BY <2>8
  <2>9. QED
        BY <2>1, <2>2, <2>3, <2>4, <2>5, <2>6, <2>7, <2>8
        DEF Next, vars, Serve, Runner, RunnerStep, Dispatcher, DispatcherStep,
            create_task, create_index_task, cancel_task_by_id, cancel_active_tasks_for_repo,
            release_reviews_waiting_on_index, ReleaseFails, StartPod, ReportRunning, run,
            LeaseExpires, LateReportLands, LateReportDropped, claim_next_task, DrainReturns,
            ClaimError, set_task_job, RequeueUnlaunched, Wake, list_reapable_tasks,
            CheckLiveness, LivenessUnknown, RenewLease, MarkSucceeded, Requeue, Fail,
            list_cancelled_with_job, SweepError, clear_job_name, SweepReturns, DbError, Crash
<1>2. QED
      BY <1>1, Inductive, PTL DEF Spec, LeasedRunNeverKilled

(***************************************************************************)
(* The dispatch budget.  What the reaper has listed carries the current    *)
(* attempts of the row, because only a claim changes them and the single   *)
(* dispatcher claims with an empty list; a row in the queue, or about to   *)
(* be requeued, has an attempt left.                                       *)
(***************************************************************************)
QueuedHasBudget ==
    \A t \in Tasks : status[t] \in Fresh => attempts[t] < MaxAttempts
RequeuedHasBudget ==
    \A d \in Dispatchers, t \in Tasks :
        pc[d] \in {"delete_requeue", "requeue"} /\ cur[d].id = t => attempts[t] < MaxAttempts
ListIsCurrent ==
    \A d \in Dispatchers :
        /\ \A r \in todo[d] : r.attempts = attempts[r.id]
        /\ pc[d] \in {"drain", "launch", "record", "release", "wait"} => todo[d] = {}
LaunchesSucceed == \A d \in Dispatchers : pc[d] # "release"
Budget == /\ AttemptsBounded /\ QueuedHasBudget /\ RequeuedHasBudget
          /\ ListIsCurrent /\ LaunchesSucceed

\* Every step of a single dispatcher whose launches succeed keeps the budget.
LEMMA BudgetStep ==
    ASSUME SingleDispatcher, "launch_error" \notin Faults, TypeOK, Budget, [Next]_vars
    PROVE  Budget'
<1> USE BoundsAssumption
    DEF SingleDispatcher, TypeOK, Budget, AttemptsBounded, QueuedHasBudget,
        RequeuedHasBudget, ListIsCurrent, LaunchesSucceed, Fresh,
        Active, Terminal, Report, ReapableTask, rowVars, k8sVars, dispVars
<1>1. ASSUME NEW t \in Tasks, create_task(t) PROVE Budget'
      BY <1>1 DEF create_task
<1>2. ASSUME NEW t \in Tasks, create_index_task(t) PROVE Budget'
      BY <1>2 DEF create_index_task
<1>3. ASSUME NEW t \in Tasks, cancel_task_by_id(t) PROVE Budget'
      BY <1>3 DEF cancel_task_by_id, cancel
<1>4. ASSUME NEW r \in Repos, cancel_active_tasks_for_repo(r) PROVE Budget'
      BY <1>4 DEF cancel_active_tasks_for_repo, cancel
<1>5. ASSUME NEW i \in IndexTasks, release_reviews_waiting_on_index(i) PROVE Budget'
      BY <1>5 DEF release_reviews_waiting_on_index
<1>6. ASSUME NEW i \in IndexTasks, ReleaseFails(i) PROVE Budget'
      BY <1>6 DEF ReleaseFails
<1>7. ASSUME NEW t \in Tasks, StartPod(t) PROVE Budget'
      BY <1>7 DEF StartPod
<1>8. ASSUME NEW t \in Tasks, ReportRunning(t) PROVE Budget'
      BY <1>8 DEF ReportRunning, report, set_task_status
<1>9. ASSUME NEW t \in Tasks, run(t) PROVE Budget'
      BY <1>9 DEF run
<1>10. ASSUME NEW t \in Tasks, ReportSucceeded(t) PROVE Budget'
      BY <1>10 DEF ReportSucceeded, report, set_task_status
<1>11. ASSUME NEW t \in Tasks, ReportFailed(t) PROVE Budget'
      BY <1>11 DEF ReportFailed, report, set_task_status, PodFails
<1>12. ASSUME NEW t \in Tasks, cancelled_upstream(t) PROVE Budget'
      BY <1>12 DEF cancelled_upstream, PodFails
<1>13. ASSUME NEW t \in Tasks, PodDies(t) PROVE Budget'
      BY <1>13 DEF PodDies, PodFails, InFlight
<1>14. ASSUME NEW t \in Tasks, DeadlineExceeded(t) PROVE Budget'
      BY <1>14 DEF DeadlineExceeded, InFlight
<1>15. ASSUME NEW t \in Tasks, JobExpires(t) PROVE Budget'
      BY <1>15 DEF JobExpires
<1>16. ASSUME NEW t \in Tasks, LeaseExpires(t) PROVE Budget'
      BY <1>16 DEF LeaseExpires
<1>17. ASSUME NEW t \in Tasks, NEW s \in Report, LateReportLands(t, s) PROVE Budget'
      BY <1>17 DEF LateReportLands, set_task_status
<1>18. ASSUME NEW t \in Tasks, NEW s \in Report, LateReportDropped(t, s) PROVE Budget'
      BY <1>18 DEF LateReportDropped
<1>19. ASSUME NEW d \in Dispatchers, NEW t \in Tasks, claim_next_task(d, t) PROVE Budget'
      BY <1>19 DEF claim_next_task, Claimable, Goto, Keep, Listed
<1>20. ASSUME NEW d \in Dispatchers, DrainReturns(d) PROVE Budget'
      BY <1>20 DEF DrainReturns, Goto
<1>21. ASSUME NEW d \in Dispatchers, ClaimError(d) PROVE Budget'
      BY <1>21 DEF ClaimError, Goto
<1>22. ASSUME NEW d \in Dispatchers, LaunchSucceeds(d) PROVE Budget'
      BY <1>22 DEF LaunchSucceeds, launch, Goto
<1>23. ASSUME NEW d \in Dispatchers, LaunchFails(d) PROVE Budget'
      BY <1>23 DEF LaunchFails, launch, Goto
<1>24. ASSUME NEW d \in Dispatchers, set_task_job(d) PROVE Budget'
      BY <1>24 DEF set_task_job, Goto, Keep
<1>25. ASSUME NEW d \in Dispatchers, RequeueUnlaunched(d) PROVE Budget'
      BY <1>25 DEF RequeueUnlaunched, release_task, Goto, Keep
<1>26. ASSUME NEW d \in Dispatchers, Wake(d) PROVE Budget'
      BY <1>26 DEF Wake, Goto
<1>27. ASSUME NEW d \in Dispatchers, list_reapable_tasks(d) PROVE Budget'
      BY <1>27 DEF list_reapable_tasks, Listed, Goto
<1>28. ASSUME NEW d \in Dispatchers, NEW r \in todo[d], CheckLiveness(d, r) PROVE Budget'
      BY <1>28 DEF CheckLiveness, decide, Goto, Keep, job_liveness
<1>29. ASSUME NEW d \in Dispatchers, NEW r \in todo[d], LivenessUnknown(d, r) PROVE Budget'
      BY <1>29 DEF LivenessUnknown
<1>30. ASSUME NEW d \in Dispatchers, RenewLease(d) PROVE Budget'
      BY <1>30 DEF RenewLease, renew_lease, Goto, Keep
<1>31. ASSUME NEW d \in Dispatchers, MarkSucceeded(d) PROVE Budget'
      BY <1>31 DEF MarkSucceeded, set_task_status, Goto, Keep
<1>32. ASSUME NEW d \in Dispatchers, delete_dead_job(d) PROVE Budget'
      BY <1>32 DEF delete_dead_job, delete_job, InFlight, Goto
<1>33. ASSUME NEW d \in Dispatchers, Requeue(d) PROVE Budget'
      BY <1>33 DEF Requeue, release_task, Goto, Keep
<1>34. ASSUME NEW d \in Dispatchers, Fail(d) PROVE Budget'
      BY <1>34 DEF Fail, set_task_status, Goto, Keep
<1>35. ASSUME NEW d \in Dispatchers, list_cancelled_with_job(d) PROVE Budget'
      BY <1>35 DEF list_cancelled_with_job, Listed, Goto
<1>36. ASSUME NEW d \in Dispatchers, NEW r \in todo[d], StopCancelled(d, r) PROVE Budget'
      BY <1>36 DEF StopCancelled, delete_job, InFlight, Goto, Keep
<1>37. ASSUME NEW d \in Dispatchers, SweepError(d) PROVE Budget'
      BY <1>37 DEF SweepError
<1>38. ASSUME NEW d \in Dispatchers, clear_job_name(d) PROVE Budget'
      BY <1>38 DEF clear_job_name, Goto, Keep
<1>39. ASSUME NEW d \in Dispatchers, SweepReturns(d) PROVE Budget'
      BY <1>39 DEF SweepReturns, Goto
<1>40. ASSUME NEW d \in Dispatchers, DbError(d) PROVE Budget'
      BY <1>40 DEF DbError, Goto, Keep
<1>41. ASSUME NEW d \in Dispatchers, Crash(d) PROVE Budget'
      BY <1>41 DEF Crash
<1>42. CASE UNCHANGED vars
      BY <1>42 DEF vars
<1>43. QED
      BY <1>1, <1>2, <1>3, <1>4, <1>5, <1>6, <1>7, <1>8, <1>9, <1>10, <1>11, <1>12,
         <1>13, <1>14, <1>15, <1>16, <1>17, <1>18, <1>19, <1>20, <1>21, <1>22, <1>23,
         <1>24, <1>25, <1>26, <1>27, <1>28, <1>29, <1>30, <1>31, <1>32, <1>33, <1>34,
         <1>35, <1>36, <1>37, <1>38, <1>39, <1>40, <1>41, <1>42
      DEF Next, Serve, Runner, RunnerStep, Dispatcher, DispatcherStep

\* MAX_ATTEMPTS bounds the dispatches of every task, as queue/reaper.rs says,
\* with one dispatcher whose launches succeed, under every other fault.
THEOREM DispatchesBounded ==
    SingleDispatcher /\ "launch_error" \notin Faults /\ Spec => []AttemptsBounded
<1> SUFFICES ASSUME SingleDispatcher, "launch_error" \notin Faults
             PROVE  Spec => []AttemptsBounded
    OBVIOUS
<1>1. Init => Budget
      BY BoundsAssumption
      DEF Init, Budget, AttemptsBounded, QueuedHasBudget, RequeuedHasBudget,
          ListIsCurrent, LaunchesSucceed, Fresh
<1>2. TypeOK /\ Budget /\ [Next]_vars => Budget'
      BY BudgetStep
<1>3. Budget => AttemptsBounded
      BY DEF Budget
<1>4. QED
      BY <1>1, <1>2, <1>3, TypeCorrect, PTL DEF Spec

----------------------------------------------------------------------------
(***************************************************************************)
(* TaskQueue implements TaskLifecycle, for every set of tasks,             *)
(* repositories and faults and for every bound, with one dispatcher: the   *)
(* two further invariants the mapping needs, how Stage and Work move with  *)
(* rows and Jobs, and then every action shown to be one step of the life   *)
(* cycle or none.                                                          *)
(***************************************************************************)

\* Nothing of a task appears in the cluster, on the wire or in a dispatcher's
\* hands before its row has been in the queue.
LEMMA StartedStep ==
    TypeOK /\ TouchedStarted /\ [Next]_vars => TouchedStarted'
<1> SUFFICES ASSUME TypeOK, TouchedStarted, [Next]_vars PROVE TouchedStarted'
    OBVIOUS
<1> USE TasksAssumption DEF TypeOK, TouchedStarted, Waiting, Holding, Active, Terminal, Report, InFlight,
            rowVars, k8sVars, dispVars, ReapableTask, PC
<1>1. ASSUME NEW t \in Tasks, create_task(t) PROVE TouchedStarted'
      BY <1>1 DEF create_task
<1>2. ASSUME NEW t \in Tasks, create_index_task(t) PROVE TouchedStarted'
      BY <1>2 DEF create_index_task
<1>3. ASSUME NEW t \in Tasks, cancel_task_by_id(t) PROVE TouchedStarted'
      BY <1>3 DEF cancel_task_by_id, cancel
<1>4. ASSUME NEW r \in Repos, cancel_active_tasks_for_repo(r) PROVE TouchedStarted'
      BY <1>4 DEF cancel_active_tasks_for_repo, cancel
<1>5. ASSUME NEW i \in IndexTasks, release_reviews_waiting_on_index(i) PROVE TouchedStarted'
      BY <1>5 DEF release_reviews_waiting_on_index
<1>6. ASSUME NEW i \in IndexTasks, ReleaseFails(i) PROVE TouchedStarted'
      BY <1>6 DEF ReleaseFails
<1>7. ASSUME NEW t \in Tasks, StartPod(t) PROVE TouchedStarted'
      BY <1>7 DEF StartPod
<1>8. ASSUME NEW t \in Tasks, ReportRunning(t) PROVE TouchedStarted'
      BY <1>8 DEF ReportRunning, report, set_task_status
<1>9. ASSUME NEW t \in Tasks, run(t) PROVE TouchedStarted'
      BY <1>9 DEF run
<1>10. ASSUME NEW t \in Tasks, ReportSucceeded(t) PROVE TouchedStarted'
      BY <1>10 DEF ReportSucceeded, report, set_task_status
<1>11. ASSUME NEW t \in Tasks, ReportFailed(t) PROVE TouchedStarted'
      BY <1>11 DEF ReportFailed, report, set_task_status, PodFails
<1>12. ASSUME NEW t \in Tasks, cancelled_upstream(t) PROVE TouchedStarted'
      BY <1>12 DEF cancelled_upstream, PodFails
<1>13. ASSUME NEW t \in Tasks, PodDies(t) PROVE TouchedStarted'
      BY <1>13 DEF PodDies, PodFails
<1>14. ASSUME NEW t \in Tasks, DeadlineExceeded(t) PROVE TouchedStarted'
      BY <1>14 DEF DeadlineExceeded
<1>15. ASSUME NEW t \in Tasks, JobExpires(t) PROVE TouchedStarted'
      BY <1>15 DEF JobExpires
<1>16. ASSUME NEW t \in Tasks, LeaseExpires(t) PROVE TouchedStarted'
      BY <1>16 DEF LeaseExpires
<1>17. ASSUME NEW t \in Tasks, NEW s \in Report, LateReportLands(t, s) PROVE TouchedStarted'
      BY <1>17 DEF LateReportLands, set_task_status
<1>18. ASSUME NEW t \in Tasks, NEW s \in Report, LateReportDropped(t, s) PROVE TouchedStarted'
      BY <1>18 DEF LateReportDropped
<1>19. ASSUME NEW d \in Dispatchers, NEW t \in Tasks, claim_next_task(d, t) PROVE TouchedStarted'
      BY <1>19 DEF claim_next_task, Claimable, Goto, Keep, Listed
<1>20. ASSUME NEW d \in Dispatchers, DrainReturns(d) PROVE TouchedStarted'
      BY <1>20 DEF DrainReturns, Goto
<1>21. ASSUME NEW d \in Dispatchers, ClaimError(d) PROVE TouchedStarted'
      BY <1>21 DEF ClaimError, Goto
<1>22. ASSUME NEW d \in Dispatchers, LaunchSucceeds(d) PROVE TouchedStarted'
      BY <1>22 DEF LaunchSucceeds, launch, Goto
<1>23. ASSUME NEW d \in Dispatchers, LaunchFails(d) PROVE TouchedStarted'
      BY <1>23 DEF LaunchFails, launch, Goto
<1>24. ASSUME NEW d \in Dispatchers, set_task_job(d) PROVE TouchedStarted'
      BY <1>24 DEF set_task_job, Goto, Keep
<1>25. ASSUME NEW d \in Dispatchers, RequeueUnlaunched(d) PROVE TouchedStarted'
      BY <1>25 DEF RequeueUnlaunched, release_task, Goto, Keep
<1>26. ASSUME NEW d \in Dispatchers, Wake(d) PROVE TouchedStarted'
      BY <1>26 DEF Wake, Goto
<1>27. ASSUME NEW d \in Dispatchers, list_reapable_tasks(d) PROVE TouchedStarted'
      BY <1>27 DEF list_reapable_tasks, Listed, Goto
<1>28. ASSUME NEW d \in Dispatchers, NEW r \in todo[d], CheckLiveness(d, r) PROVE TouchedStarted'
      BY <1>28 DEF CheckLiveness, decide, Goto, Keep
<1>29. ASSUME NEW d \in Dispatchers, NEW r \in todo[d], LivenessUnknown(d, r) PROVE TouchedStarted'
      BY <1>29 DEF LivenessUnknown
<1>30. ASSUME NEW d \in Dispatchers, RenewLease(d) PROVE TouchedStarted'
      BY <1>30 DEF RenewLease, renew_lease, Goto, Keep
<1>31. ASSUME NEW d \in Dispatchers, MarkSucceeded(d) PROVE TouchedStarted'
      BY <1>31 DEF MarkSucceeded, set_task_status, Goto, Keep
<1>32. ASSUME NEW d \in Dispatchers, delete_dead_job(d) PROVE TouchedStarted'
      BY <1>32 DEF delete_dead_job, delete_job, Goto
<1>33. ASSUME NEW d \in Dispatchers, Requeue(d) PROVE TouchedStarted'
      BY <1>33 DEF Requeue, release_task, Goto, Keep
<1>34. ASSUME NEW d \in Dispatchers, Fail(d) PROVE TouchedStarted'
      BY <1>34 DEF Fail, set_task_status, Goto, Keep
<1>35. ASSUME NEW d \in Dispatchers, list_cancelled_with_job(d) PROVE TouchedStarted'
      BY <1>35 DEF list_cancelled_with_job, Listed, Goto
<1>36. ASSUME NEW d \in Dispatchers, NEW r \in todo[d], StopCancelled(d, r) PROVE TouchedStarted'
      BY <1>36 DEF StopCancelled, delete_job, Goto, Keep
<1>37. ASSUME NEW d \in Dispatchers, SweepError(d) PROVE TouchedStarted'
      BY <1>37 DEF SweepError
<1>38. ASSUME NEW d \in Dispatchers, clear_job_name(d) PROVE TouchedStarted'
      BY <1>38 DEF clear_job_name, Goto, Keep
<1>39. ASSUME NEW d \in Dispatchers, SweepReturns(d) PROVE TouchedStarted'
      BY <1>39 DEF SweepReturns, Goto
<1>40. ASSUME NEW d \in Dispatchers, DbError(d) PROVE TouchedStarted'
      BY <1>40 DEF DbError, Goto, Keep
<1>41. ASSUME NEW d \in Dispatchers, Crash(d) PROVE TouchedStarted'
      BY <1>41 DEF Crash
<1>42. CASE UNCHANGED vars
      BY <1>42 DEF vars
<1>43. QED
      BY <1>1, <1>2, <1>3, <1>4, <1>5, <1>6, <1>7, <1>8, <1>9, <1>10, <1>11,
         <1>12, <1>13, <1>14, <1>15, <1>16, <1>17, <1>18, <1>19, <1>20, <1>21,
         <1>22, <1>23, <1>24, <1>25, <1>26, <1>27, <1>28, <1>29, <1>30, <1>31,
         <1>32, <1>33, <1>34, <1>35, <1>36, <1>37, <1>38, <1>39, <1>40, <1>41,
         <1>42
      DEF Next, Serve, Runner, RunnerStep, Dispatcher, DispatcherStep

\* A pod lives inside an active Job: every way a Job ends takes its pod along.
LEMMA PodStep == TypeOK /\ PodHasJob /\ [Next]_vars => PodHasJob'
<1> SUFFICES ASSUME TypeOK, PodHasJob, [Next]_vars PROVE PodHasJob'
    OBVIOUS
<1> USE DEF TypeOK, PodHasJob, JobState, PodState, rowVars, k8sVars, dispVars, ReapableTask
<1>1. ASSUME NEW t \in Tasks, create_task(t) PROVE PodHasJob'
      BY <1>1 DEF create_task
<1>2. ASSUME NEW t \in Tasks, create_index_task(t) PROVE PodHasJob'
      BY <1>2 DEF create_index_task
<1>3. ASSUME NEW t \in Tasks, cancel_task_by_id(t) PROVE PodHasJob'
      BY <1>3 DEF cancel_task_by_id, cancel
<1>4. ASSUME NEW r \in Repos, cancel_active_tasks_for_repo(r) PROVE PodHasJob'
      BY <1>4 DEF cancel_active_tasks_for_repo, cancel
<1>5. ASSUME NEW i \in IndexTasks, release_reviews_waiting_on_index(i) PROVE PodHasJob'
      BY <1>5 DEF release_reviews_waiting_on_index
<1>6. ASSUME NEW i \in IndexTasks, ReleaseFails(i) PROVE PodHasJob'
      BY <1>6 DEF ReleaseFails
<1>7. ASSUME NEW t \in Tasks, StartPod(t) PROVE PodHasJob'
      BY <1>7 DEF StartPod
<1>8. ASSUME NEW t \in Tasks, ReportRunning(t) PROVE PodHasJob'
      BY <1>8 DEF ReportRunning, report, set_task_status
<1>9. ASSUME NEW t \in Tasks, run(t) PROVE PodHasJob'
      BY <1>9 DEF run
<1>10. ASSUME NEW t \in Tasks, ReportSucceeded(t) PROVE PodHasJob'
      BY <1>10 DEF ReportSucceeded, report, set_task_status
<1>11. ASSUME NEW t \in Tasks, ReportFailed(t) PROVE PodHasJob'
      BY <1>11 DEF ReportFailed, report, set_task_status, PodFails
<1>12. ASSUME NEW t \in Tasks, cancelled_upstream(t) PROVE PodHasJob'
      BY <1>12 DEF cancelled_upstream, PodFails
<1>13. ASSUME NEW t \in Tasks, PodDies(t) PROVE PodHasJob'
      BY <1>13 DEF PodDies, PodFails
<1>14. ASSUME NEW t \in Tasks, DeadlineExceeded(t) PROVE PodHasJob'
      BY <1>14 DEF DeadlineExceeded
<1>15. ASSUME NEW t \in Tasks, JobExpires(t) PROVE PodHasJob'
      BY <1>15 DEF JobExpires
<1>16. ASSUME NEW t \in Tasks, LeaseExpires(t) PROVE PodHasJob'
      BY <1>16 DEF LeaseExpires
<1>17. ASSUME NEW t \in Tasks, NEW s \in Report, LateReportLands(t, s) PROVE PodHasJob'
      BY <1>17 DEF LateReportLands, set_task_status
<1>18. ASSUME NEW t \in Tasks, NEW s \in Report, LateReportDropped(t, s) PROVE PodHasJob'
      BY <1>18 DEF LateReportDropped
<1>19. ASSUME NEW d \in Dispatchers, NEW t \in Tasks, claim_next_task(d, t) PROVE PodHasJob'
      BY <1>19 DEF claim_next_task, Claimable, Goto, Keep, Listed
<1>20. ASSUME NEW d \in Dispatchers, DrainReturns(d) PROVE PodHasJob'
      BY <1>20 DEF DrainReturns, Goto
<1>21. ASSUME NEW d \in Dispatchers, ClaimError(d) PROVE PodHasJob'
      BY <1>21 DEF ClaimError, Goto
<1>22. ASSUME NEW d \in Dispatchers, LaunchSucceeds(d) PROVE PodHasJob'
      BY <1>22 DEF LaunchSucceeds, launch, Goto
<1>23. ASSUME NEW d \in Dispatchers, LaunchFails(d) PROVE PodHasJob'
      BY <1>23 DEF LaunchFails, launch, Goto
<1>24. ASSUME NEW d \in Dispatchers, set_task_job(d) PROVE PodHasJob'
      BY <1>24 DEF set_task_job, Goto, Keep
<1>25. ASSUME NEW d \in Dispatchers, RequeueUnlaunched(d) PROVE PodHasJob'
      BY <1>25 DEF RequeueUnlaunched, release_task, Goto, Keep
<1>26. ASSUME NEW d \in Dispatchers, Wake(d) PROVE PodHasJob'
      BY <1>26 DEF Wake, Goto
<1>27. ASSUME NEW d \in Dispatchers, list_reapable_tasks(d) PROVE PodHasJob'
      BY <1>27 DEF list_reapable_tasks, Listed, Goto
<1>28. ASSUME NEW d \in Dispatchers, NEW r \in todo[d], CheckLiveness(d, r) PROVE PodHasJob'
      BY <1>28 DEF CheckLiveness, decide, Goto, Keep
<1>29. ASSUME NEW d \in Dispatchers, NEW r \in todo[d], LivenessUnknown(d, r) PROVE PodHasJob'
      BY <1>29 DEF LivenessUnknown
<1>30. ASSUME NEW d \in Dispatchers, RenewLease(d) PROVE PodHasJob'
      BY <1>30 DEF RenewLease, renew_lease, Goto, Keep
<1>31. ASSUME NEW d \in Dispatchers, MarkSucceeded(d) PROVE PodHasJob'
      BY <1>31 DEF MarkSucceeded, set_task_status, Goto, Keep
<1>32. ASSUME NEW d \in Dispatchers, delete_dead_job(d) PROVE PodHasJob'
      BY <1>32 DEF delete_dead_job, delete_job, Goto
<1>33. ASSUME NEW d \in Dispatchers, Requeue(d) PROVE PodHasJob'
      BY <1>33 DEF Requeue, release_task, Goto, Keep
<1>34. ASSUME NEW d \in Dispatchers, Fail(d) PROVE PodHasJob'
      BY <1>34 DEF Fail, set_task_status, Goto, Keep
<1>35. ASSUME NEW d \in Dispatchers, list_cancelled_with_job(d) PROVE PodHasJob'
      BY <1>35 DEF list_cancelled_with_job, Listed, Goto
<1>36. ASSUME NEW d \in Dispatchers, NEW r \in todo[d], StopCancelled(d, r) PROVE PodHasJob'
      BY <1>36 DEF StopCancelled, delete_job, Goto, Keep
<1>37. ASSUME NEW d \in Dispatchers, SweepError(d) PROVE PodHasJob'
      BY <1>37 DEF SweepError
<1>38. ASSUME NEW d \in Dispatchers, clear_job_name(d) PROVE PodHasJob'
      BY <1>38 DEF clear_job_name, Goto, Keep
<1>39. ASSUME NEW d \in Dispatchers, SweepReturns(d) PROVE PodHasJob'
      BY <1>39 DEF SweepReturns, Goto
<1>40. ASSUME NEW d \in Dispatchers, DbError(d) PROVE PodHasJob'
      BY <1>40 DEF DbError, Goto, Keep
<1>41. ASSUME NEW d \in Dispatchers, Crash(d) PROVE PodHasJob'
      BY <1>41 DEF Crash
<1>42. CASE UNCHANGED vars
      BY <1>42 DEF vars
<1>43. QED
      BY <1>1, <1>2, <1>3, <1>4, <1>5, <1>6, <1>7, <1>8, <1>9, <1>10, <1>11,
         <1>12, <1>13, <1>14, <1>15, <1>16, <1>17, <1>18, <1>19, <1>20, <1>21,
         <1>22, <1>23, <1>24, <1>25, <1>26, <1>27, <1>28, <1>29, <1>30, <1>31,
         <1>32, <1>33, <1>34, <1>35, <1>36, <1>37, <1>38, <1>39, <1>40, <1>41,
         <1>42
      DEF Next, Serve, Runner, RunnerStep, Dispatcher, DispatcherStep

-----------------------------------------------------------------------------
(* How Stage and Work move with the variables they are read off.           *)

\* Rows nobody wrote keep their stage.
LEMMA StageSame == UNCHANGED <<status, lease>> => Stage' = Stage
BY DEF Stage

\* A Job nobody touched keeps its run.
LEMMA WorkSame == UNCHANGED job => Work' = Work
BY DEF Work

\* Writing the status and the lease of one row moves that task alone.
LEMMA StageAt ==
    ASSUME TypeOK, NEW t \in Tasks, NEW s, NEW l,
           status' = [status EXCEPT ![t] = s], lease' = [lease EXCEPT ![t] = l]
    PROVE  Stage' = [Stage EXCEPT ![t] = StageOf(s, l)]
BY DEF TypeOK, Stage

\* Changing one Job moves the run of that task alone.
LEMMA WorkAt ==
    ASSUME TypeOK, NEW t \in Tasks, NEW j, job' = [job EXCEPT ![t] = j]
    PROVE  Work' = [Work EXCEPT ![t] = RunOf(j)]
BY DEF TypeOK, Work

\* A status write to a row that has been in the queue is a report.
LEMMA ToldByStatus ==
    ASSUME TypeOK, LeaseDiscipline, NEW t \in Tasks, ~Waiting(t),
           NEW s \in Report, set_task_status(t, s)
    PROVE  Lifecycle!Told(t) /\ UNCHANGED attempts
<1>1. Stage[t] \in {"ready", "owned", "loose", "over"}
      BY DEF Stage, StageOf, Waiting, TypeOK
<1>2. PICK l : l = (IF s \in Terminal THEN "none" ELSE lease[t])
      OBVIOUS
<1>3. Stage' = [Stage EXCEPT ![t] = StageOf(s, l)]
      BY <1>2, StageAt DEF set_task_status, TypeOK
<1>4. StageOf(s, l) = "over" \/ StageOf(s, l) = (IF Stage[t] = "owned" THEN Stage[t] ELSE "loose")
      BY <1>2 DEF StageOf, Stage, Report, Terminal, Active, LeaseDiscipline, TypeOK
<1>5. QED
      BY <1>1, <1>3, <1>4 DEF Lifecycle!Told, Lifecycle!Started, set_task_status

\* The end of a Job that was active ends the run.
LEMMA EndsByJob ==
    ASSUME TypeOK, NEW t \in Tasks, job[t] = "active",
           NEW j \in {"complete", "failed"}, job' = [job EXCEPT ![t] = j]
    PROVE  Lifecycle!Ends(t)
<1>1. Work' = [Work EXCEPT ![t] = RunOf(j)]
      BY WorkAt
<1>2. QED
      BY <1>1 DEF Lifecycle!Ends, Work, RunOf

\* A failed pod ends the run, or the Job stays active.
LEMMA EndsByPod ==
    ASSUME TypeOK, PodHasJob, NEW t \in Tasks, pod[t] # "none", PodFails(t)
    PROVE  Lifecycle!Ends(t) \/ UNCHANGED Work
<1>1. job[t] = "active"
      BY DEF PodHasJob
<1>2. CASE fails[t] + 1 > BackoffLimit
      BY <1>1, <1>2, EndsByJob DEF PodFails
<1>3. CASE ~(fails[t] + 1 > BackoffLimit)
  <2>1. job' = job
        BY <1>3 DEF PodFails, TypeOK
  <2>2. QED
        BY <2>1, WorkSame
<1>4. QED
      BY <1>2, <1>3

\* A requeue gives the task up, or finds it over or queued and does nothing.
LEMMA GiveUpByRelease ==
    ASSUME TypeOK, NEW t \in Tasks, release_task(t), UNCHANGED job
    PROVE  Lifecycle!GiveUp(t) \/ UNCHANGED Lifecycle!vars
<1>1. CASE status[t] \in Active
  <2>1. Stage' = [Stage EXCEPT ![t] = StageOf("queued", "none")]
        BY <1>1, StageAt DEF release_task
  <2>2. StageOf("queued", "none") = "ready"
        BY DEF StageOf
  <2>3. Stage[t] \in {"owned", "loose"}
        BY <1>1 DEF Stage, StageOf, Active
  <2>4. QED
        BY <1>1, <2>1, <2>2, <2>3, WorkSame DEF Lifecycle!GiveUp, release_task
<1>2. CASE status[t] \notin Active
      BY <1>2, StageSame, WorkSame DEF release_task, rowVars, Lifecycle!vars
<1>3. QED
      BY <1>1, <1>2

\* Creating a Job launches the run of a task that has left the queue, or
\* adopts the Job that is there.
LEMMA LaunchByCreate ==
    ASSUME TypeOK, NEW t \in Tasks, status[t] \notin Fresh, launch(t), UNCHANGED rowVars
    PROVE  Lifecycle!Launch(t) \/ UNCHANGED Lifecycle!vars
<1>1. Stage' = Stage /\ attempts' = attempts
      BY StageSame DEF rowVars
<1>2. CASE job[t] = "none"
  <2>1. Work' = [Work EXCEPT ![t] = RunOf("active")]
        BY <1>2, WorkAt DEF launch
  <2>2. Work[t] = "none" /\ RunOf("active") = "live"
        BY <1>2 DEF Work, RunOf
  <2>3. Stage[t] \in {"owned", "loose", "over"}
        BY DEF Stage, StageOf, Fresh
  <2>4. QED
        BY <1>1, <2>1, <2>2, <2>3 DEF Lifecycle!Launch, Lifecycle!Started
<1>3. CASE job[t] # "none"
  <2>1. job' = job
        BY <1>3 DEF launch, TypeOK
  <2>2. QED
        BY <1>1, <2>1, WorkSame DEF Lifecycle!vars
<1>4. QED
      BY <1>2, <1>3

\* Deleting a Job removes a finished run, or one that nobody is accountable for.
LEMMA RemoveByDelete ==
    ASSUME TypeOK, NEW t \in Tasks, delete_job(t), UNCHANGED rowVars,
           job[t] = "active" => lease[t] = "none"
    PROVE  Lifecycle!Remove(t) \/ UNCHANGED Lifecycle!vars
<1>1. Stage' = Stage /\ attempts' = attempts
      BY StageSame DEF rowVars
<1>2. Work' = [Work EXCEPT ![t] = RunOf("none")]
      BY WorkAt DEF delete_job
<1>3. RunOf("none") = "none" /\ Work[t] = RunOf(job[t])
      BY DEF RunOf, Work
<1>4. CASE job[t] = "none"
  <2>1. Work' = Work
        BY <1>4, WorkSame DEF delete_job, TypeOK
  <2>2. QED
        BY <1>1, <2>1 DEF Lifecycle!vars
<1>5. CASE job[t] # "none"
  <2>1. Work[t] = "done" \/ (Work[t] = "live" /\ Stage[t] # "owned")
        BY <1>3, <1>5 DEF Work, RunOf, Stage, StageOf
  <2>2. QED
        BY <1>1, <1>2, <1>3, <2>1 DEF Lifecycle!Remove
<1>6. QED
      BY <1>4, <1>5

-----------------------------------------------------------------------------
(* One step of the queue, action by action.                                *)

\* What the refinement rests on: the invariants of TaskQueueProofs, and the
\* two above.
RefInv == IInv /\ TouchedStarted /\ PodHasJob

\* Every step of the queue is a step of the life cycle, or changes nothing
\* that the life cycle shows.
LEMMA LifecycleStep ==
    RefInv /\ [Next]_vars => [Lifecycle!Next]_(Lifecycle!vars)
<1> SUFFICES ASSUME IInv, TouchedStarted, PodHasJob, [Next]_vars
             PROVE  Lifecycle!Next \/ UNCHANGED Lifecycle!vars
    BY DEF RefInv
<1> USE DEF IInv
<1>1. ASSUME NEW t \in Tasks, create_task(t)
      PROVE  Lifecycle!Next \/ UNCHANGED Lifecycle!vars
  <2>1. PICK s \in {"waiting_for_index", "queued"} : status' = [status EXCEPT ![t] = s]
        BY <1>1 DEF create_task
  <2>2. PICK l : l = lease[t] /\ lease' = [lease EXCEPT ![t] = l]
        BY <1>1 DEF create_task, TypeOK
  <2>3. TypeOK
        OBVIOUS
  <2>4. Stage' = [Stage EXCEPT ![t] = StageOf(s, l)]
        BY ONLY <2>1, <2>2, <2>3, StageAt
  <2>5. Stage[t] = "new" /\ StageOf(s, l) \in {"parked", "ready"}
        BY <1>1, <2>1 DEF create_task, Stage, StageOf
  <2>6. Lifecycle!Submit(t)
        BY <1>1, <2>4, <2>5, WorkSame DEF create_task, k8sVars, Lifecycle!Submit
  <2>7. QED
        BY <2>6 DEF Lifecycle!Next
<1>2. ASSUME NEW t \in Tasks, create_index_task(t)
      PROVE  Lifecycle!Next \/ UNCHANGED Lifecycle!vars
  <2>1. PICK s \in {"waiting_for_index", "queued"} : status' = [status EXCEPT ![t] = s]
        BY <1>2 DEF create_index_task
  <2>2. PICK l : l = lease[t] /\ lease' = [lease EXCEPT ![t] = l]
        BY <1>2 DEF create_index_task, TypeOK
  <2>3. TypeOK
        OBVIOUS
  <2>4. Stage' = [Stage EXCEPT ![t] = StageOf(s, l)]
        BY ONLY <2>1, <2>2, <2>3, StageAt
  <2>5. Stage[t] = "new" /\ StageOf(s, l) \in {"parked", "ready"}
        BY <1>2, <2>1 DEF create_index_task, Stage, StageOf
  <2>6. Lifecycle!Submit(t)
        BY <1>2, <2>4, <2>5, WorkSame DEF create_index_task, k8sVars, Lifecycle!Submit
  <2>7. QED
        BY <2>6 DEF Lifecycle!Next
<1>3. ASSUME NEW t \in Tasks, cancel_task_by_id(t)
      PROVE  Lifecycle!Next \/ UNCHANGED Lifecycle!vars
  <2> DEFINE S == {t}
  <2>1. S \in SUBSET Tasks
        OBVIOUS
  <2>2. \A u \in S : Stage[u] \notin {"new", "over"}
        BY <1>3 DEF cancel_task_by_id, cancel, Stage, StageOf, Active
  <2>3. Stage' = [u \in Tasks |-> IF u \in S THEN "over" ELSE Stage[u]]
        BY <1>3 DEF cancel_task_by_id, cancel, Stage, StageOf, Active, TypeOK
  <2>4. Lifecycle!Cancel(S)
        BY <1>3, <2>2, <2>3, WorkSame DEF cancel_task_by_id, cancel, k8sVars, Lifecycle!Cancel
  <2>5. QED
        BY <2>1, <2>4 DEF Lifecycle!Next
<1>4. ASSUME NEW r \in Repos, cancel_active_tasks_for_repo(r)
      PROVE  Lifecycle!Next \/ UNCHANGED Lifecycle!vars
  <2> DEFINE S == {u \in Tasks : RepoOf[u] = r /\ status[u] \in {"queued"} \cup Active}
  <2>1. S \in SUBSET Tasks
        OBVIOUS
  <2>2. \A u \in S : Stage[u] \notin {"new", "over"}
        BY <1>4 DEF cancel_active_tasks_for_repo, cancel, Stage, StageOf, Active
  <2>3. Stage' = [u \in Tasks |-> IF u \in S THEN "over" ELSE Stage[u]]
        BY <1>4 DEF cancel_active_tasks_for_repo, cancel, Stage, StageOf, Active, TypeOK
  <2>4. Lifecycle!Cancel(S)
        BY <1>4, <2>2, <2>3, WorkSame DEF cancel_active_tasks_for_repo, cancel, k8sVars, Lifecycle!Cancel
  <2>5. QED
        BY <2>1, <2>4 DEF Lifecycle!Next
<1>5. ASSUME NEW i \in IndexTasks, release_reviews_waiting_on_index(i)
      PROVE  Lifecycle!Next \/ UNCHANGED Lifecycle!vars
  <2> DEFINE S == {u \in Tasks : RepoOf[u] = RepoOf[i] /\ status[u] = "waiting_for_index"}
  <2>1. S \in SUBSET Tasks
        OBVIOUS
  <2>2. \A u \in S : Stage[u] = "parked"
        BY <1>5 DEF release_reviews_waiting_on_index, Stage, StageOf, Active
  <2>3. Stage' = [u \in Tasks |-> IF u \in S THEN "ready" ELSE Stage[u]]
        BY <1>5 DEF release_reviews_waiting_on_index, Stage, StageOf, Active, TypeOK
  <2>4. Lifecycle!Unpark(S)
        BY <1>5, <2>2, <2>3, WorkSame DEF release_reviews_waiting_on_index, k8sVars, Lifecycle!Unpark
  <2>5. QED
        BY <2>1, <2>4 DEF Lifecycle!Next
<1>6. ASSUME NEW i \in IndexTasks, ReleaseFails(i)
      PROVE  Lifecycle!Next \/ UNCHANGED Lifecycle!vars
      BY <1>6, StageSame, WorkSame DEF ReleaseFails, rowVars, k8sVars, Lifecycle!vars
<1>7. ASSUME NEW t \in Tasks, StartPod(t)
      PROVE  Lifecycle!Next \/ UNCHANGED Lifecycle!vars
      BY <1>7, StageSame, WorkSame DEF StartPod, rowVars, k8sVars, Lifecycle!vars
<1>8. ASSUME NEW t \in Tasks, ReportRunning(t)
      PROVE  Lifecycle!Next \/ UNCHANGED Lifecycle!vars
  <2>1. ~Waiting(t)
        BY <1>8 DEF ReportRunning, TouchedStarted
  <2>2. Lifecycle!Ends(t) \/ UNCHANGED Work
        BY <1>8, WorkSame DEF ReportRunning
  <2>3. CASE set_task_status(t, "running")
    <3>1. Lifecycle!Report(t)
          BY <2>1, <2>2, <2>3, ToldByStatus DEF Report, Lifecycle!Report
    <3>2. QED
          BY <3>1 DEF Lifecycle!Next
  <2>4. CASE UNCHANGED rowVars
        BY <2>2, <2>4, StageSame DEF rowVars, Lifecycle!End, Lifecycle!Next, Lifecycle!vars
  <2>5. QED
        BY <1>8, <2>3, <2>4 DEF ReportRunning, report
<1>9. ASSUME NEW t \in Tasks, run(t)
      PROVE  Lifecycle!Next \/ UNCHANGED Lifecycle!vars
      BY <1>9, StageSame, WorkSame DEF run, rowVars, k8sVars, Lifecycle!vars
<1>10. ASSUME NEW t \in Tasks, ReportSucceeded(t)
      PROVE  Lifecycle!Next \/ UNCHANGED Lifecycle!vars
  <2>1. ~Waiting(t)
        BY <1>10 DEF ReportSucceeded, TouchedStarted
  <2>2. Lifecycle!Ends(t) \/ UNCHANGED Work
        BY <1>10, EndsByJob DEF ReportSucceeded, PodHasJob
  <2>3. CASE set_task_status(t, "succeeded")
    <3>1. Lifecycle!Report(t)
          BY <2>1, <2>2, <2>3, ToldByStatus DEF Report, Lifecycle!Report
    <3>2. QED
          BY <3>1 DEF Lifecycle!Next
  <2>4. CASE UNCHANGED rowVars
        BY <2>2, <2>4, StageSame DEF rowVars, Lifecycle!End, Lifecycle!Next, Lifecycle!vars
  <2>5. QED
        BY <1>10, <2>3, <2>4 DEF ReportSucceeded, report
<1>11. ASSUME NEW t \in Tasks, ReportFailed(t)
      PROVE  Lifecycle!Next \/ UNCHANGED Lifecycle!vars
  <2>1. ~Waiting(t)
        BY <1>11 DEF ReportFailed, TouchedStarted
  <2>2. Lifecycle!Ends(t) \/ UNCHANGED Work
        BY <1>11, EndsByPod DEF ReportFailed
  <2>3. CASE set_task_status(t, "failed")
    <3>1. Lifecycle!Report(t)
          BY <2>1, <2>2, <2>3, ToldByStatus DEF Report, Lifecycle!Report
    <3>2. QED
          BY <3>1 DEF Lifecycle!Next
  <2>4. CASE UNCHANGED rowVars
        BY <2>2, <2>4, StageSame DEF rowVars, Lifecycle!End, Lifecycle!Next, Lifecycle!vars
  <2>5. QED
        BY <1>11, <2>3, <2>4 DEF ReportFailed, report
<1>12. ASSUME NEW t \in Tasks, cancelled_upstream(t)
      PROVE  Lifecycle!Next \/ UNCHANGED Lifecycle!vars
  <2>1. Lifecycle!Ends(t) \/ UNCHANGED Work
        BY <1>12, EndsByPod DEF cancelled_upstream
  <2>2. Stage' = Stage /\ attempts' = attempts
        BY <1>12, StageSame DEF cancelled_upstream, rowVars
  <2>3. QED
        BY <2>1, <2>2 DEF Lifecycle!End, Lifecycle!Next, Lifecycle!vars
<1>13. ASSUME NEW t \in Tasks, PodDies(t)
      PROVE  Lifecycle!Next \/ UNCHANGED Lifecycle!vars
  <2>1. Lifecycle!Ends(t) \/ UNCHANGED Work
        BY <1>13, EndsByPod DEF PodDies
  <2>2. Stage' = Stage /\ attempts' = attempts
        BY <1>13, StageSame DEF PodDies, rowVars
  <2>3. QED
        BY <2>1, <2>2 DEF Lifecycle!End, Lifecycle!Next, Lifecycle!vars
<1>14. ASSUME NEW t \in Tasks, DeadlineExceeded(t)
      PROVE  Lifecycle!Next \/ UNCHANGED Lifecycle!vars
  <2>1. Lifecycle!Ends(t) \/ UNCHANGED Work
        BY <1>14, EndsByJob DEF DeadlineExceeded
  <2>2. Stage' = Stage /\ attempts' = attempts
        BY <1>14, StageSame DEF DeadlineExceeded, rowVars
  <2>3. QED
        BY <2>1, <2>2 DEF Lifecycle!End, Lifecycle!Next, Lifecycle!vars
<1>15. ASSUME NEW t \in Tasks, JobExpires(t)
      PROVE  Lifecycle!Next \/ UNCHANGED Lifecycle!vars
  <2>1. Work' = [Work EXCEPT ![t] = RunOf("none")]
        BY <1>15, WorkAt DEF JobExpires
  <2>2. RunOf("none") = "none" /\ Work[t] = "done"
        BY <1>15 DEF JobExpires, RunOf, Work
  <2>3. Lifecycle!Remove(t)
        BY <1>15, <2>1, <2>2, StageSame DEF JobExpires, rowVars, Lifecycle!Remove
  <2>4. QED
        BY <2>3 DEF Lifecycle!Next
<1>16. ASSUME NEW t \in Tasks, LeaseExpires(t)
      PROVE  Lifecycle!Next \/ UNCHANGED Lifecycle!vars
  <2>1. Stage' = Stage
        BY <1>16 DEF LeaseExpires, TypeOK, Stage, StageOf
  <2>2. QED
        BY <1>16, <2>1, WorkSame DEF LeaseExpires, k8sVars, Lifecycle!vars
<1>17. ASSUME NEW t \in Tasks, NEW s \in Report, LateReportLands(t, s)
      PROVE  Lifecycle!Next \/ UNCHANGED Lifecycle!vars
  <2>1. ~Waiting(t)
        BY <1>17 DEF LateReportLands, TouchedStarted
  <2>2. Lifecycle!Report(t)
        BY <1>17, <2>1, ToldByStatus, WorkSame DEF LateReportLands, Lifecycle!Report
  <2>3. QED
        BY <2>2 DEF Lifecycle!Next
<1>18. ASSUME NEW t \in Tasks, NEW s \in Report, LateReportDropped(t, s)
      PROVE  Lifecycle!Next \/ UNCHANGED Lifecycle!vars
      BY <1>18, StageSame, WorkSame DEF LateReportDropped, rowVars, k8sVars, Lifecycle!vars
<1>19. ASSUME NEW d \in Dispatchers, NEW t \in Tasks, claim_next_task(d, t)
      PROVE  Lifecycle!Next \/ UNCHANGED Lifecycle!vars
  <2>1. Stage' = [Stage EXCEPT ![t] = StageOf("running", "held")]
        BY <1>19, StageAt DEF claim_next_task
  <2>2. StageOf("running", "held") = "owned" /\ Stage[t] = "ready"
        BY <1>19 DEF claim_next_task, Claimable, Stage, StageOf, Active
  <2>3. Lifecycle!Dispatch(t)
        BY <1>19, <2>1, <2>2, WorkSame DEF claim_next_task, k8sVars, Lifecycle!Dispatch
  <2>4. QED
        BY <2>3 DEF Lifecycle!Next
<1>20. ASSUME NEW d \in Dispatchers, DrainReturns(d)
      PROVE  Lifecycle!Next \/ UNCHANGED Lifecycle!vars
      BY <1>20, StageSame, WorkSame DEF DrainReturns, rowVars, k8sVars, Lifecycle!vars
<1>21. ASSUME NEW d \in Dispatchers, ClaimError(d)
      PROVE  Lifecycle!Next \/ UNCHANGED Lifecycle!vars
      BY <1>21, StageSame, WorkSame DEF ClaimError, rowVars, k8sVars, Lifecycle!vars
<1>22. ASSUME NEW d \in Dispatchers, LaunchSucceeds(d)
      PROVE  Lifecycle!Next \/ UNCHANGED Lifecycle!vars
  <2>1. cur[d].id \in Tasks /\ status[cur[d].id] \notin Fresh
        BY <1>22 DEF LaunchSucceeds, TouchedStarted, Holding, ReapableTask, HandsStarted, InHand
  <2>2. Lifecycle!Launch(cur[d].id) \/ UNCHANGED Lifecycle!vars
        BY <1>22, <2>1, LaunchByCreate, StageSame, WorkSame DEF LaunchSucceeds, rowVars, k8sVars, Lifecycle!vars
  <2>3. QED
        BY <2>1, <2>2 DEF Lifecycle!Next
<1>23. ASSUME NEW d \in Dispatchers, LaunchFails(d)
      PROVE  Lifecycle!Next \/ UNCHANGED Lifecycle!vars
  <2>1. cur[d].id \in Tasks /\ status[cur[d].id] \notin Fresh
        BY <1>23 DEF LaunchFails, TouchedStarted, Holding, ReapableTask, HandsStarted, InHand
  <2>2. Lifecycle!Launch(cur[d].id) \/ UNCHANGED Lifecycle!vars
        BY <1>23, <2>1, LaunchByCreate, StageSame, WorkSame DEF LaunchFails, rowVars, k8sVars, Lifecycle!vars
  <2>3. QED
        BY <2>1, <2>2 DEF Lifecycle!Next
<1>24. ASSUME NEW d \in Dispatchers, set_task_job(d)
      PROVE  Lifecycle!Next \/ UNCHANGED Lifecycle!vars
      BY <1>24, StageSame, WorkSame DEF set_task_job, rowVars, k8sVars, Lifecycle!vars
<1>25. ASSUME NEW d \in Dispatchers, RequeueUnlaunched(d)
      PROVE  Lifecycle!Next \/ UNCHANGED Lifecycle!vars
  <2>1. cur[d].id \in Tasks
        BY <1>25 DEF RequeueUnlaunched, TouchedStarted, Holding, ReapableTask
  <2>2. Lifecycle!GiveUp(cur[d].id) \/ UNCHANGED Lifecycle!vars
        BY <1>25, <2>1, GiveUpByRelease DEF RequeueUnlaunched, k8sVars
  <2>3. QED
        BY <2>1, <2>2 DEF Lifecycle!Next
<1>26. ASSUME NEW d \in Dispatchers, Wake(d)
      PROVE  Lifecycle!Next \/ UNCHANGED Lifecycle!vars
      BY <1>26, StageSame, WorkSame DEF Wake, rowVars, k8sVars, Lifecycle!vars
<1>27. ASSUME NEW d \in Dispatchers, list_reapable_tasks(d)
      PROVE  Lifecycle!Next \/ UNCHANGED Lifecycle!vars
      BY <1>27, StageSame, WorkSame DEF list_reapable_tasks, rowVars, k8sVars, Lifecycle!vars
<1>28. ASSUME NEW d \in Dispatchers, NEW r \in todo[d], CheckLiveness(d, r)
      PROVE  Lifecycle!Next \/ UNCHANGED Lifecycle!vars
      BY <1>28, StageSame, WorkSame DEF CheckLiveness, rowVars, k8sVars, Lifecycle!vars
<1>29. ASSUME NEW d \in Dispatchers, NEW r \in todo[d], LivenessUnknown(d, r)
      PROVE  Lifecycle!Next \/ UNCHANGED Lifecycle!vars
      BY <1>29, StageSame, WorkSame DEF LivenessUnknown, rowVars, k8sVars, Lifecycle!vars
<1>30. ASSUME NEW d \in Dispatchers, RenewLease(d)
      PROVE  Lifecycle!Next \/ UNCHANGED Lifecycle!vars
  <2> DEFINE t == cur[d].id
  <2>1. t \in Tasks
        BY <1>30 DEF RenewLease, TouchedStarted, Holding, ReapableTask
  <2>2. Work' = Work /\ attempts' = attempts
        BY <1>30, WorkSame DEF RenewLease, renew_lease, k8sVars
  <2>3. CASE status[t] \in Active /\ lease[t] = "none"
    <3>1. Stage' = [Stage EXCEPT ![t] = StageOf(status[t], "held")]
      <4>1. status' = [status EXCEPT ![t] = status[t]] /\ lease' = [lease EXCEPT ![t] = "held"]
            BY <1>30, <2>3 DEF RenewLease, renew_lease, TypeOK
      <4>2. PICK s : s = status[t]
            OBVIOUS
      <4>3. TypeOK
            OBVIOUS
      <4>4. Stage' = [Stage EXCEPT ![t] = StageOf(s, "held")]
            BY ONLY <2>1, <4>1, <4>2, <4>3, StageAt
      <4>5. QED
            BY <4>2, <4>4
    <3>2. Stage[t] = "loose" /\ StageOf(status[t], "held") = "owned"
          BY <2>1, <2>3 DEF Stage, StageOf, Active
    <3>3. Lifecycle!Adopt(t)
          BY <2>2, <3>1, <3>2 DEF Lifecycle!Adopt
    <3>4. QED
          BY <2>1, <3>3 DEF Lifecycle!Next
  <2>4. CASE ~(status[t] \in Active /\ lease[t] = "none")
    <3>1. Stage' = Stage
          BY <1>30, <2>1, <2>4 DEF RenewLease, renew_lease, Stage, StageOf, TypeOK
    <3>2. QED
          BY <2>2, <3>1 DEF Lifecycle!vars
  <2>5. QED
        BY <2>3, <2>4
<1>31. ASSUME NEW d \in Dispatchers, MarkSucceeded(d)
      PROVE  Lifecycle!Next \/ UNCHANGED Lifecycle!vars
  <2>1. cur[d].id \in Tasks /\ ~Waiting(cur[d].id)
        BY <1>31 DEF MarkSucceeded, TouchedStarted, Holding, ReapableTask
  <2>2. Lifecycle!Report(cur[d].id)
        BY <1>31, <2>1, ToldByStatus, WorkSame DEF MarkSucceeded, k8sVars, Report, Lifecycle!Report
  <2>3. QED
        BY <2>1, <2>2 DEF Lifecycle!Next
<1>32. ASSUME NEW d \in Dispatchers, delete_dead_job(d)
      PROVE  Lifecycle!Next \/ UNCHANGED Lifecycle!vars
  <2>1. cur[d].id \in Tasks
        BY <1>32 DEF delete_dead_job, TouchedStarted, Holding, ReapableTask
  <2>2. cur[d].job => job[cur[d].id] # "active"
        BY <1>32 DEF delete_dead_job, DeadStayDead, JudgedDead
  <2>3. CASE cur[d].job /\ delete_job(cur[d].id)
        BY <1>32, <2>1, <2>2, <2>3, RemoveByDelete DEF delete_dead_job, Lifecycle!Next
  <2>4. CASE UNCHANGED k8sVars
        BY <1>32, <2>4, StageSame, WorkSame DEF delete_dead_job, rowVars, k8sVars, Lifecycle!vars
  <2>5. QED
        BY <1>32, <2>3, <2>4 DEF delete_dead_job
<1>33. ASSUME NEW d \in Dispatchers, Requeue(d)
      PROVE  Lifecycle!Next \/ UNCHANGED Lifecycle!vars
  <2>1. cur[d].id \in Tasks
        BY <1>33 DEF Requeue, TouchedStarted, Holding, ReapableTask
  <2>2. Lifecycle!GiveUp(cur[d].id) \/ UNCHANGED Lifecycle!vars
        BY <1>33, <2>1, GiveUpByRelease DEF Requeue, k8sVars
  <2>3. QED
        BY <2>1, <2>2 DEF Lifecycle!Next
<1>34. ASSUME NEW d \in Dispatchers, Fail(d)
      PROVE  Lifecycle!Next \/ UNCHANGED Lifecycle!vars
  <2>1. cur[d].id \in Tasks /\ ~Waiting(cur[d].id)
        BY <1>34 DEF Fail, TouchedStarted, Holding, ReapableTask
  <2>2. Lifecycle!Report(cur[d].id)
        BY <1>34, <2>1, ToldByStatus, WorkSame DEF Fail, k8sVars, Report, Lifecycle!Report
  <2>3. QED
        BY <2>1, <2>2 DEF Lifecycle!Next
<1>35. ASSUME NEW d \in Dispatchers, list_cancelled_with_job(d)
      PROVE  Lifecycle!Next \/ UNCHANGED Lifecycle!vars
      BY <1>35, StageSame, WorkSame DEF list_cancelled_with_job, rowVars, k8sVars, Lifecycle!vars
<1>36. ASSUME NEW d \in Dispatchers, NEW r \in todo[d], StopCancelled(d, r)
      PROVE  Lifecycle!Next \/ UNCHANGED Lifecycle!vars
  <2>1. r.id \in Tasks /\ lease[r.id] = "none"
        BY <1>36 DEF StopCancelled, SweptUnleased, TypeOK, ReapableTask
  <2>2. QED
        BY <1>36, <2>1, RemoveByDelete DEF StopCancelled, Lifecycle!Next
<1>37. ASSUME NEW d \in Dispatchers, SweepError(d)
      PROVE  Lifecycle!Next \/ UNCHANGED Lifecycle!vars
      BY <1>37, StageSame, WorkSame DEF SweepError, rowVars, k8sVars, Lifecycle!vars
<1>38. ASSUME NEW d \in Dispatchers, clear_job_name(d)
      PROVE  Lifecycle!Next \/ UNCHANGED Lifecycle!vars
      BY <1>38, StageSame, WorkSame DEF clear_job_name, rowVars, k8sVars, Lifecycle!vars
<1>39. ASSUME NEW d \in Dispatchers, SweepReturns(d)
      PROVE  Lifecycle!Next \/ UNCHANGED Lifecycle!vars
      BY <1>39, StageSame, WorkSame DEF SweepReturns, rowVars, k8sVars, Lifecycle!vars
<1>40. ASSUME NEW d \in Dispatchers, DbError(d)
      PROVE  Lifecycle!Next \/ UNCHANGED Lifecycle!vars
      BY <1>40, StageSame, WorkSame DEF DbError, rowVars, k8sVars, Lifecycle!vars
<1>41. ASSUME NEW d \in Dispatchers, Crash(d)
      PROVE  Lifecycle!Next \/ UNCHANGED Lifecycle!vars
      BY <1>41, StageSame, WorkSame DEF Crash, rowVars, k8sVars, Lifecycle!vars
<1>42. CASE UNCHANGED vars
      BY <1>42, StageSame, WorkSame DEF vars, rowVars, k8sVars, Lifecycle!vars
<1>43. QED
      BY <1>1, <1>2, <1>3, <1>4, <1>5, <1>6, <1>7, <1>8, <1>9, <1>10,
         <1>11, <1>12, <1>13, <1>14, <1>15, <1>16, <1>17, <1>18, <1>19,
         <1>20, <1>21, <1>22, <1>23, <1>24, <1>25, <1>26, <1>27, <1>28,
         <1>29, <1>30, <1>31, <1>32, <1>33, <1>34, <1>35, <1>36, <1>37,
         <1>38, <1>39, <1>40, <1>41, <1>42
      DEF Next, Serve, Runner, RunnerStep, Dispatcher, DispatcherStep

\* db/tasks.rs, queue/dispatcher.rs and queue/reaper.rs together keep the promise of
\* TaskLifecycle, with one dispatcher, for every set of tasks and of faults: no
\* interleaving of claims, reports, heartbeats, cancellations, reaping and
\* crashes brings an ended task back into the queue, starts the run of a task
\* that is queued, or stops a live run that somebody is accountable for.
THEOREM QueueImplementsLifecycle == SingleDispatcher /\ Spec => ImplementsLifecycle
<1> SUFFICES ASSUME SingleDispatcher PROVE Spec => Lifecycle!Spec
    BY DEF ImplementsLifecycle
<1>1. Init => Lifecycle!Init
      BY DEF Init, Lifecycle!Init, Stage, StageOf, Work, RunOf
<1>2. Init => TouchedStarted /\ PodHasJob
      BY DEF Init, TouchedStarted, PodHasJob, Holding
<1>3. Spec => []IInv
      BY Inductive
<1>4. IInv => TypeOK
      BY DEF IInv
<1>5. IInv /\ TouchedStarted /\ [Next]_vars => TouchedStarted'
      BY <1>4, StartedStep
<1>6. IInv /\ PodHasJob /\ [Next]_vars => PodHasJob'
      BY <1>4, PodStep
<1>7. IInv /\ TouchedStarted /\ PodHasJob /\ [Next]_vars => [Lifecycle!Next]_(Lifecycle!vars)
      BY LifecycleStep DEF RefInv
<1>8. QED
      BY <1>1, <1>2, <1>3, <1>5, <1>6, <1>7, PTL DEF Spec, Lifecycle!Spec
=============================================================================
