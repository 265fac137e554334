-------------------------- MODULE ReviewRunProofs --------------------------
(***************************************************************************)
(* What holds of every review run, whatever the model answers and whatever *)
(* the budgets of the faults are: a gap in the coverage is disclosed, a     *)
(* finish is heard, an abort posts its reason only; a review posts what the *)
(* run recorded, however many pods the run took; a blocking finding is not  *)
(* posted before the model was sent to verify it.                           *)
(***************************************************************************)
EXTENDS ReviewRun, FiniteSetTheorems, WellFoundedInduction, TLAPS

----------------------------------------------------------------------------
(* The parts of the inductive invariant. *)

\* Each host has places of its own.
HostPlaces ==
    /\ world.host = "native" => pc \notin {"spawn", "prompt", "cycle"}
    /\ world.host = "opencode" => pc \notin {"turn", "asking", "reads", "tools", "disclose"}

\* A turn in progress is one the budget covers.
TurnsLeft ==
    /\ pc \in {"asking", "reads", "tools"} => turn < MaxTurns
    /\ pc = "turn" => turn <= MaxTurns
    /\ pc \in {"spawn", "prompt", "cycle"} => turn < MaxCycles
    /\ pc = "spawn" => turn = 0

\* A row of this pod is not ahead of its turn.
NotAhead(t, by) ==
    /\ by <= attempt
    /\ by = attempt => pc # "start" /\ t <= turn /\ (t = turn => pc \notin {"turn", "asking"})

Dated ==
    /\ \A row \in journal.llm : NotAhead(row[1], row[3])
    /\ \A row \in journal.write : NotAhead(row[1][1], row[1][2])
    /\ answer.by <= attempt

InTurn == pc \in {"reads", "tools"}

\* The journal has one answer per turn; the answer in hand is the one of its turn and pod.
OneAnswer ==
    /\ \A r, s \in journal.llm : r[1] = s[1] => r = s
    /\ InTurn => \A row \in journal.llm : row[1] = turn /\ row[3] = answer.by => row[2] = script

\* A journaled finish is the result of a finish, in every answer its id may belong to.
FinishRows ==
    \A w \in journal.write : w[2] = "finish" =>
        /\ InTurn /\ w[1][1] = turn /\ w[1][2] = answer.by => script[w[1][3]].tool = "finish"
        /\ \A row \in journal.llm :
             row[1] = w[1][1] /\ row[3] = w[1][2] => row[2][w[1][3]].tool = "finish"

\* Nothing but a finish returns as one, and only a scan is told.
HonestResults ==
    InTurn => \A k \in DOMAIN results :
        /\ results[k].res = "finish" => results[k].call.tool = "finish"
        /\ results[k].res = "told" => results[k].call.tool = "sast"

\* From the end of the loop to the end of the run, the verdict names the files left out.
Disclosed ==
    /\ pc = "disclose" =>
         outcome = "exhausted"
           \/ (outcome = "finished" /\ (Uncovered(gates) # {} => gates.amended))
    /\ /\ world.host = "native" /\ pc \in {"post", "summary", "finalize", "ended"}
       /\ outcome = "finished" /\ Uncovered(gates) # {} /\ "undisclosed" \notin faults
       => summary = "disclosed"

\* An abort clears the buffer, then writes its reason.
Aborted ==
    /\ pc = "summary" => outcome = "aborted"
    /\ pc \in {"summary", "finalize", "ended"} /\ outcome = "aborted" =>
         "uncleared" \in faults \/ buffer = EmptyBuffer
    /\ pc \in {"finalize", "ended"} /\ outcome = "aborted" =>
         "unsummarised" \in faults \/ summary = "aborted"

\* A call that has begun has its line in the recorder.
Overheard ==
    /\ pc = "cycle" => DOMAIN stage = DOMAIN script
    /\ pc = "cycle" /\ "swallow" \notin faults =>
         \A i \in DOMAIN stage : stage[i] # "todo" => Heard("before", i, recorder.lines)

Inv == /\ TypeOK /\ HostPlaces /\ TurnsLeft
       /\ Dated /\ OneAnswer /\ FinishRows /\ HonestResults
       /\ Disclosed /\ Aborted /\ Overheard /\ FinishIsHeard

----------------------------------------------------------------------------
(* What a step may change. *)

\* Faults but for the deadline are paid for from their budgets; nothing else changes the world.
LEMMA WorldFrame ==
  ASSUME Next PROVE UNCHANGED world \/ \E b \in Budget : Spend(b)
  <1> USE DEF Budget
  <1>1. report_running \/ NativeStep => UNCHANGED world
    BY DEF report_running, NativeStep, before_turn, llm_replay, llm_live, reads_replay, reads_live,
       call_batched, call_replay, call_live, aborted, finished, bounced, keeps_going, exhausted,
       post_disclosure, Settle, NextTurn
  <1>2. PostStep => UNCHANGED world
    BY DEF PostStep, clear_findings, set_review_summary, keep_summary, finalize_review, report_error
  <1>3. ChildStep => UNCHANGED world \/ Spend("swallow")
    BY DEF ChildStep, spawn, prompt, tool_before, tools_call, tool_after, record, on_cycle_aborts,
       on_cycle_accepts, on_cycle_exhausts, on_cycle_prompts, Resolve
  <1>4. Fault => UNCHANGED world \/ \E b \in Budget : Spend(b)
    BY DEF Fault, report_running_unsure, crash, job_deadline, context_fills, llm_unjournaled, llm_transient,
       llm_overflow, llm_fatal, reads_unjournaled, call_unjournaled, call_dies, call_refused,
       call_unanswered, call_unbuffered, sweep_durable_steps, post_disclosure_fails, spawn_fails,
       reader_loop_ends, tools_call_refused, tools_call_unanswered, tools_call_unbuffered,
       clear_findings_fails, set_review_summary_fails, finalize_review_fails, JournalFails
  <1> QED BY <1>1, <1>2, <1>3, <1>4 DEF Next, Step

\* The switches of a run stay as they are, its budgets stay natural numbers.
LEMMA WorldFixed ==
  ASSUME WorldOK, [Next]_vars
  PROVE  /\ WorldOK'
         /\ world'.host = world.host /\ world'.durable = world.durable
         /\ world'.parallel = world.parallel
  <1>1. CASE UNCHANGED world BY <1>1 DEF WorldOK
  <1>2. ASSUME NEW b \in Budget, Spend(b)
        PROVE  /\ WorldOK'
               /\ world'.host = world.host /\ world'.durable = world.durable
               /\ world'.parallel = world.parallel
    <2>1. b \notin {"host", "llm", "durable", "parallel"} BY DEF Budget
    <2>2. /\ world[b] \in Nat /\ world[b] > 0 /\ DOMAIN world = Switches \cup Budget
          /\ world' = [world EXCEPT ![b] = world[b] - 1]
      BY <1>2 DEF WorldOK, Spend
    <2>3. {"host", "llm", "durable", "parallel"} \subseteq DOMAIN world BY <2>2 DEF Switches
    <2>4. /\ DOMAIN world' = DOMAIN world /\ world'[b] = world[b] - 1
          /\ \A c \in DOMAIN world : c # b => world'[c] = world[c]
      BY <2>2
    <2>5. world[b] - 1 \in Nat BY <2>2
    <2>6. \A c \in Budget : world'[c] \in Nat BY <2>2, <2>4, <2>5 DEF WorldOK
    <2> QED BY <2>1, <2>2, <2>3, <2>4, <2>6 DEF WorldOK
  <1> QED BY <1>1, <1>2, WorldFrame DEF vars

\* What went wrong is not forgotten.
LEMMA FaultsGrow ==
  ASSUME [Next]_vars PROVE faults \subseteq faults'
  <1>1. report_running \/ NativeStep => faults \subseteq faults'
    BY DEF report_running, NativeStep, before_turn, llm_replay, llm_live, reads_replay, reads_live,
       call_batched, call_replay, call_live, aborted, finished, bounced, keeps_going, exhausted,
       post_disclosure, Settle, NextTurn
  <1>2. PostStep => UNCHANGED faults
    BY DEF PostStep, clear_findings, set_review_summary, keep_summary, finalize_review, report_error
  <1>3. ChildStep => faults \subseteq faults'
    BY DEF ChildStep, spawn, prompt, tool_before, tools_call, tool_after, record, Note,
       on_cycle_aborts, on_cycle_accepts, on_cycle_exhausts, on_cycle_prompts, Resolve
  <1>4. Fault => faults \subseteq faults'
    BY DEF Fault, report_running_unsure, crash, job_deadline, context_fills, llm_unjournaled, llm_transient,
       llm_overflow, llm_fatal, reads_unjournaled, call_unjournaled, call_dies, call_refused,
       call_unanswered, call_unbuffered, sweep_durable_steps, post_disclosure_fails, spawn_fails,
       reader_loop_ends, tools_call_refused, tools_call_unanswered, tools_call_unbuffered,
       clear_findings_fails, set_review_summary_fails, finalize_review_fails, JournalFails, Note
  <1> QED BY <1>1, <1>2, <1>3, <1>4 DEF Next, Step, vars

\* The answer in hand changes when a pod starts, the model or the child answers, the reads
\* return, or a call returns.
LEMMA AnswerFrame ==
  ASSUME Next
  PROVE  \/ UNCHANGED <<script, answer, results>>
         \/ Started
         \/ \E calls \in Scripts[world.llm] : Answered(calls, attempt)
         \/ \E row \in journal.llm : Answered(row[2], row[3])
         \/ ReadsReturn(Places(script, ReadTools))
         \/ \E row \in journal.reads : ReadsReturn(row[2])
         \/ \E res \in {"read", "told", "ok", "error", "finish", "abort"} : ToolReturns(res) /\ Dispatching
         \/ \E row \in journal.write : ToolReturns(row[2]) /\ Dispatching
         \/ prompt
  <1>1. report_running \/ report_running_unsure => Started
    BY DEF report_running, report_running_unsure
  <1>2. before_turn \/ aborted \/ finished \/ bounced \/ keeps_going \/ exhausted \/ post_disclosure
          => UNCHANGED <<script, answer, results>>
    BY DEF before_turn, aborted, finished, bounced, keeps_going, exhausted, post_disclosure, Settle,
       NextTurn
  <1>3. llm_live \/ llm_unjournaled => \E calls \in Scripts[world.llm] : Answered(calls, attempt)
    BY DEF llm_live, llm_unjournaled
  <1>4. llm_replay => \E row \in journal.llm : Answered(row[2], row[3])
    BY DEF llm_replay
  <1>5. reads_live \/ reads_unjournaled => ReadsReturn(Places(script, ReadTools))
    BY DEF reads_live, reads_unjournaled
  <1>6. reads_replay => \E row \in journal.reads : ReadsReturn(row[2])
    BY DEF reads_replay
  <1>7. call_batched \/ call_live \/ call_unjournaled \/ call_refused \/ call_unanswered \/ call_unbuffered
          => \E res \in {"read", "told", "ok", "error", "finish", "abort"} : ToolReturns(res) /\ Dispatching
    BY DEF call_batched, call_live, call_unjournaled, call_refused, call_unanswered, call_unbuffered,
       Answer, Stepping
  <1>8. call_replay => \/ ToolReturns("told") /\ Dispatching
                       \/ \E row \in journal.write : ToolReturns(row[2]) /\ Dispatching
    BY DEF call_replay, Stepping
  <1>9. PostStep => UNCHANGED <<script, answer, results>>
    BY DEF PostStep, clear_findings, set_review_summary, keep_summary, finalize_review, report_error,
       PostOnly
  <1>10. ChildStep => prompt \/ UNCHANGED <<script, answer, results>>
    BY DEF ChildStep, spawn, tool_before, tools_call, tool_after, CycleStep, ChildOnly,
       on_cycle_aborts, on_cycle_accepts, on_cycle_exhausts, on_cycle_prompts, Resolve
  <1>11. \/ crash \/ job_deadline \/ context_fills \/ llm_transient \/ llm_overflow \/ llm_fatal \/ call_dies
         \/ sweep_durable_steps \/ post_disclosure_fails \/ spawn_fails \/ reader_loop_ends
         \/ (\E i \in DOMAIN stage : tools_call_refused(i) \/ tools_call_unanswered(i)
                                       \/ tools_call_unbuffered(i))
         \/ clear_findings_fails \/ set_review_summary_fails \/ finalize_review_fails
         => UNCHANGED <<script, answer, results>>
    BY DEF crash, job_deadline, context_fills, llm_transient, llm_overflow, llm_fatal, call_dies,
       sweep_durable_steps, post_disclosure_fails, spawn_fails, reader_loop_ends,
       tools_call_refused, tools_call_unanswered, tools_call_unbuffered, CycleStep, ChildOnly,
       clear_findings_fails, set_review_summary_fails, finalize_review_fails, PostOnly
  <1> QED
    BY <1>1, <1>2, <1>3, <1>4, <1>5, <1>6, <1>7, <1>8, <1>9, <1>10, <1>11
    DEF Next, Step, NativeStep, Fault

\* The parts of the types that say what the model and the child answer.
LEMMA InvAnswer ==
  ASSUME AnswerOK, WorldOK, ControlOK, JournalOK, [Next]_vars PROVE AnswerOK'
  <1>0. offered' \subseteq Tools
    <2>1. UNCHANGED offered \/ before_turn
      BY DEF Next, Step, NativeStep, ChildStep, PostStep, Fault, report_running, Started, llm_replay,
         llm_live, Answered, reads_replay, reads_live, ReadsReturn, call_batched, call_replay,
         call_live, ToolReturns, aborted, finished, bounced, keeps_going, exhausted, Settle,
         NextTurn, post_disclosure, spawn, prompt, tool_before, tools_call, tool_after, CycleStep,
         ChildOnly, on_cycle_aborts, on_cycle_accepts, on_cycle_exhausts, on_cycle_prompts, Resolve,
         clear_findings, set_review_summary, keep_summary, finalize_review, report_error, PostOnly,
         report_running_unsure, crash, job_deadline, context_fills, llm_unjournaled, llm_transient, llm_overflow,
         llm_fatal, reads_unjournaled, call_unjournaled, call_dies, call_refused, call_unanswered,
         call_unbuffered, sweep_durable_steps, post_disclosure_fails, spawn_fails, reader_loop_ends,
         tools_call_refused, tools_call_unanswered, tools_call_unbuffered, clear_findings_fails,
         set_review_summary_fails, finalize_review_fails, vars
    <2>2. Offered \subseteq Tools
      BY DEF Offered, wind_down, convergence_filter, read_budgets, scratchpad_filter,
         reverify_tool_filter, ReadTools, Tools
    <2> QED BY <2>1, <2>2 DEF before_turn, AnswerOK
  <1> DEFINE Answers == /\ script' \in Seq(Calls)
                        /\ answer' \in [by : 0 .. MaxAttempts, batch : SUBSET Nat]
                        /\ results' \in Seq([call : Calls, res : Words])
  <1>e. <<>> \in Seq(Calls) /\ <<>> \in Seq([call : Calls, res : Words]) OBVIOUS
  <1>1. ASSUME UNCHANGED <<script, answer, results>> PROVE Answers BY <1>1 DEF AnswerOK
  <1>2. ASSUME Started PROVE Answers
    <2>1. 0 \in 0 .. MaxAttempts BY LimitAssumption
    <2> QED BY <1>2, <1>e, <2>1 DEF Started, NoAnswer
  <1>3. ASSUME NEW calls \in Seq(Calls), NEW by \in 1 .. MaxAttempts, Answered(calls, by) PROVE Answers
    <2>1. by \in 0 .. MaxAttempts BY LimitAssumption
    <2> QED BY <1>3, <2>1, <1>e DEF Answered
  <1>4. \A calls \in Scripts[world.llm] : calls \in Seq(Calls)
    BY ScriptAssumption DEF WorldOK
  <1>5. \A row \in journal.llm : row[2] \in Seq(Calls) /\ row[3] \in 1 .. MaxAttempts
    BY DEF JournalOK
  <1>6. ASSUME NEW b \in SUBSET Nat, ReadsReturn(b) PROVE Answers
    BY <1>6 DEF ReadsReturn, AnswerOK
  <1>7. Places(script, ReadTools) \subseteq Nat
    BY DEF Places, AnswerOK
  <1>8. \A row \in journal.reads : row[2] \subseteq Nat
    BY DEF JournalOK
  <1>9. ASSUME NEW res \in Words, ToolReturns(res), Dispatching PROVE Answers
    <2>1. Current \in Calls
      <3>1. Len(results) \in Nat /\ Len(script) \in Nat BY DEF AnswerOK
      <3>2. Position \in 1 .. Len(script) BY <1>9, <3>1 DEF Dispatching, Position
      <3> QED BY <3>2 DEF Current, AnswerOK
    <2>2. Result(Current, res) \in [call : Calls, res : Words] BY <2>1 DEF Result
    <2> QED BY <1>9, <2>2 DEF ToolReturns, AnswerOK
  <1>10. \A row \in journal.write : row[2] \in Words BY DEF JournalOK, Words
  <1>11. ASSUME prompt PROVE Answers BY <1>11, <1>4 DEF prompt, ChildOnly, AnswerOK
  <1>12. attempt \in 1 .. MaxAttempts BY DEF ControlOK
  <1>13. {"read", "told", "ok", "error", "finish", "abort"} \subseteq Words BY DEF Words
  <1>14. Answers
    <2>1. ASSUME Next PROVE Answers
      <3> HIDE DEF Answers
      <3> QED BY <2>1, AnswerFrame, <1>1, <1>2, <1>3, <1>4, <1>5, <1>6, <1>7, <1>8, <1>9, <1>10, <1>11, <1>12, <1>13
    <2> QED BY <2>1, <1>1 DEF vars
  <1> QED BY <1>0, <1>14 DEF AnswerOK

\* Where the run is, and how many turns or cycles it has used.
LEMMA InvControl ==
  ASSUME ControlOK, HostPlaces, TurnsLeft, WorldOK, [Next]_vars
  PROVE  ControlOK' /\ HostPlaces' /\ TurnsLeft'
  <1>1. /\ MaxTurns \in Nat \ {0} /\ MaxCycles \in Nat \ {0} /\ MaxAttempts \in Nat \ {0}
        /\ Bigger(MaxTurns, MaxCycles) \in Nat
        /\ MaxTurns <= Bigger(MaxTurns, MaxCycles) /\ MaxCycles <= Bigger(MaxTurns, MaxCycles)
    BY LimitAssumption DEF Bigger
  <1>2. world'.host = world.host /\ world.host \in {"native", "opencode"}
    BY WorldFixed DEF WorldOK
  <1> USE DEF ControlOK, HostPlaces, TurnsLeft
  <1>3. CASE report_running \/ report_running_unsure
    <2>1. pc' = FirstStep /\ turn' = 0 /\ UNCHANGED attempt
      BY <1>3 DEF report_running, report_running_unsure, Started
    <2> QED BY <1>1, <1>2, <2>1 DEF FirstStep
  <1>4. CASE crash \/ job_deadline \/ call_dies \/ finalize_review_fails
    BY <1>1, <1>2, <1>4 DEF crash, job_deadline, call_dies, finalize_review_fails
  <1>5. CASE before_turn \/ context_fills
    BY <1>1, <1>2, <1>5 DEF before_turn, context_fills, NativeOnly
  <1>6. ASSUME NEW calls, NEW by, pc = "asking", Answered(calls, by)
        PROVE  ControlOK' /\ HostPlaces' /\ TurnsLeft'
    <2>1. /\ UNCHANGED attempt
          /\ (pc' = "turn" /\ turn' = turn + 1) \/ (pc' \in {"tools", "reads"} /\ turn' = turn)
      BY <1>6 DEF Answered, NativeOnly
    <2> QED BY <1>1, <1>2, <1>6, <2>1
  <1>7. CASE llm_replay \/ llm_live \/ llm_unjournaled
    BY <1>6, <1>7 DEF llm_replay, llm_live, llm_unjournaled
  <1>8. CASE llm_transient \/ llm_overflow \/ llm_fatal
    BY <1>1, <1>2, <1>8 DEF llm_transient, llm_overflow, llm_fatal, TurnLost, NativeOnly
  <1>9. CASE reads_replay \/ reads_live \/ reads_unjournaled
    BY <1>1, <1>2, <1>9 DEF reads_replay, reads_live, reads_unjournaled, ReadsReturn, NativeOnly
  <1>10. CASE UNCHANGED <<pc, attempt, turn>>
    BY <1>1, <1>2, <1>10
  <1>11. CASE \/ call_batched \/ call_replay \/ call_live \/ call_unjournaled \/ call_refused
              \/ call_unanswered \/ call_unbuffered \/ sweep_durable_steps
    BY <1>10, <1>11 DEF call_batched, call_replay, call_live, call_unjournaled, call_refused,
       call_unanswered, call_unbuffered, sweep_durable_steps, ToolReturns, NativeOnly
  <1>12. CASE aborted \/ finished \/ bounced \/ keeps_going
    <2>1. /\ pc = "tools" /\ UNCHANGED attempt
          /\ (pc' \in {"post", "disclose"} /\ turn' = turn) \/ (pc' = "turn" /\ turn' = turn + 1)
      BY <1>12 DEF aborted, finished, bounced, keeps_going, TurnOver, Settle, NextTurn, NativeOnly
    <2> QED BY <1>1, <1>2, <2>1
  <1>13. CASE exhausted \/ post_disclosure \/ post_disclosure_fails
    BY <1>1, <1>2, <1>13 DEF exhausted, post_disclosure, post_disclosure_fails, Settle, NativeOnly
  <1>14. CASE spawn \/ spawn_fails \/ prompt \/ reader_loop_ends
    BY <1>1, <1>2, <1>14 DEF spawn, spawn_fails, prompt, reader_loop_ends, ChildOnly
  <1>15. CASE \E i \in DOMAIN stage :
                \/ tool_before(i) \/ tools_call(i) \/ tool_after(i) \/ tools_call_refused(i)
                \/ tools_call_unanswered(i) \/ tools_call_unbuffered(i)
    BY <1>10, <1>15 DEF tool_before, tools_call, tool_after, tools_call_refused,
       tools_call_unanswered, tools_call_unbuffered, CycleStep, ChildOnly
  <1>16. CASE on_cycle_aborts \/ on_cycle_accepts \/ on_cycle_exhausts \/ on_cycle_prompts
    <2>1. /\ pc = "cycle" /\ turn' = turn + 1 /\ UNCHANGED attempt
          /\ pc' = "post" \/ (pc' = "prompt" /\ turn + 1 < MaxCycles)
      BY <1>16 DEF on_cycle_aborts, on_cycle_accepts, on_cycle_exhausts, on_cycle_prompts, Resolve,
         CycleOver, ChildOnly
    <2> QED BY <1>1, <1>2, <2>1
  <1>17. CASE \/ PostStep \/ clear_findings_fails \/ set_review_summary_fails
    <2>1. pc' \in {"summary", "finalize", "ended"} /\ UNCHANGED <<attempt, turn>>
      BY <1>17 DEF PostStep, clear_findings, set_review_summary, keep_summary, finalize_review,
         report_error, clear_findings_fails, set_review_summary_fails, PostOnly
    <2> QED BY <1>1, <1>2, <2>1
  <1>18. CASE UNCHANGED vars BY <1>10, <1>18 DEF vars
  <1> HIDE DEF ControlOK, HostPlaces, TurnsLeft
  <1> QED
    BY <1>3, <1>4, <1>5, <1>7, <1>8, <1>9, <1>11, <1>12, <1>13, <1>14, <1>15, <1>16, <1>17, <1>18
    DEF Next, Step, NativeStep, ChildStep, Fault

----------------------------------------------------------------------------
(* The gates. *)

\* The types of a state of the gates.
Typed(g) ==
    /\ DOMAIN g = DOMAIN NewGates
    /\ g.engaged \subseteq Files /\ g.bounces \in 0 .. MaxBounces
    /\ g.findings \subseteq Locs /\ g.outstanding \subseteq Locs

\* Results of calls that have targets.
Targeted(rs) == \A k \in DOMAIN rs : rs[k].call \in Calls

\* What the policies keep of a turn.
LEMMA ObserveFields ==
  ASSUME NEW g, DOMAIN g = DOMAIN NewGates, NEW rs
  PROVE  /\ DOMAIN Observe(g, rs) = DOMAIN NewGates
         /\ Observe(g, rs).engaged = coverage_engaged(g, rs)
         /\ Observe(g, rs).verdict = coverage_verdict(g, rs)
         /\ Observe(g, rs).findings = refute_findings(g, rs)
         /\ Observe(g, rs).outstanding = sast_outstanding(g, rs)
         /\ Observe(g, rs).bounces = g.bounces
         /\ Observe(g, rs).bounced = g.bounced
         /\ Observe(g, rs).anchored = g.anchored
         /\ Observe(g, rs).force = g.force
  BY DEF Observe, NewGates

\* What a ruling on a finish changes.
LEMMA RuledFields ==
  ASSUME NEW g, DOMAIN g = DOMAIN NewGates, NEW t, NEW max
  PROVE  /\ DOMAIN Ruled(g, t, max) = DOMAIN NewGates
         /\ Ruled(g, t, max).engaged = g.engaged
         /\ Ruled(g, t, max).verdict = g.verdict
         /\ Ruled(g, t, max).findings = g.findings
         /\ Ruled(g, t, max).outstanding = g.outstanding
         /\ Ruled(g, t, max).bounces = (IF coverage_rejects(g, t, max) THEN g.bounces + 1 ELSE g.bounces)
         /\ Ruled(g, t, max).bounced = (g.bounced \/ refute_rejects(g))
         /\ Ruled(g, t, max).anchored = (g.anchored \/ sast_rejects(g))
         /\ Ruled(g, t, max).force = refute_rejects(g)
  BY DEF Ruled, NewGates

\* The note of the coverage gate touches nothing else.
LEMMA DiscloseFields ==
  ASSUME NEW g, DOMAIN g = DOMAIN NewGates
  PROVE  /\ DOMAIN disclose(g) = DOMAIN NewGates
         /\ disclose(g).amended = (g.verdict /\ Uncovered(g) # {})
         /\ disclose(g).engaged = g.engaged
         /\ disclose(g).findings = g.findings
         /\ disclose(g).outstanding = g.outstanding
         /\ disclose(g).bounces = g.bounces
         /\ disclose(g).bounced = g.bounced
         /\ disclose(g).force = g.force
  BY DEF disclose, NewGates

\* The guard against loops keeps a state of its own.
LEMMA ScratchpadFields ==
  ASSUME NEW g, DOMAIN g = DOMAIN NewGates, NEW rs
  PROVE  /\ DOMAIN Scratchpad(g, rs) = DOMAIN NewGates
         /\ Scratchpad(g, rs).engaged = g.engaged
         /\ Scratchpad(g, rs).verdict = g.verdict
         /\ Scratchpad(g, rs).findings = g.findings
         /\ Scratchpad(g, rs).outstanding = g.outstanding
         /\ Scratchpad(g, rs).bounces = g.bounces
         /\ Scratchpad(g, rs).bounced = g.bounced
         /\ Scratchpad(g, rs).anchored = g.anchored
         /\ Scratchpad(g, rs).force = g.force
  BY DEF Scratchpad, NewGates

\* Each of them keeps the types.
LEMMA TypedSteps ==
  ASSUME NEW g, Typed(g)
  PROVE  /\ \A rs : Targeted(rs) => Typed(Observe(g, rs))
         /\ \A t, max : Typed(Ruled(g, t, max))
         /\ Typed(disclose(g)) /\ \A rs : Typed(Scratchpad(g, rs))
  <1>0. DOMAIN g = DOMAIN NewGates BY DEF Typed
  <1>1. ASSUME NEW rs, Targeted(rs) PROVE Typed(Observe(g, rs))
    <2>1. coverage_engaged(g, rs) \subseteq Files
      BY <1>1 DEF coverage_engaged, Targeted, Typed, Calls, Locs
    <2>2. refute_findings(g, rs) \subseteq Locs /\ sast_outstanding(g, rs) \subseteq Locs
      BY DEF refute_findings, sast_outstanding, Settled
    <2> QED BY <1>0, <2>1, <2>2, ObserveFields DEF Typed
  <1>2. ASSUME NEW t, NEW max PROVE Typed(Ruled(g, t, max))
    <2>1. MaxBounces \in Nat BY LimitAssumption
    <2>2. coverage_rejects(g, t, max) => g.bounces < MaxBounces BY DEF coverage_rejects
    <2>3. Ruled(g, t, max).bounces \in 0 .. MaxBounces BY <1>0, <2>1, <2>2, RuledFields DEF Typed
    <2> QED BY <1>0, <2>3, RuledFields DEF Typed
  <1>3. Typed(disclose(g)) BY <1>0, DiscloseFields DEF Typed
  <1>4. \A rs : Typed(Scratchpad(g, rs)) BY <1>0, ScratchpadFields DEF Typed
  <1> QED BY <1>1, <1>2, <1>3, <1>4

\* The gates change when a pod starts, before a turn, after one, and at the end of a loop.
LEMMA GatesFrame ==
  ASSUME Next
  PROVE  \/ UNCHANGED gates
         \/ Started
         \/ before_turn
         \/ aborted \/ finished \/ bounced \/ keeps_going \/ exhausted
         \/ on_cycle_accepts \/ on_cycle_exhausts \/ on_cycle_prompts
  BY DEF Next, Step, NativeStep, ChildStep, PostStep, Fault, report_running, report_running_unsure,
     llm_replay, llm_live, Answered, reads_replay, reads_live, ReadsReturn, call_batched,
     call_replay, call_live, ToolReturns, post_disclosure, spawn, prompt, tool_before, tools_call,
     tool_after, CycleStep, on_cycle_aborts, clear_findings, set_review_summary, keep_summary,
     finalize_review, report_error, PostOnly, crash, job_deadline, context_fills, llm_unjournaled, llm_transient,
     llm_overflow, llm_fatal, reads_unjournaled, call_unjournaled, call_dies, call_refused,
     call_unanswered, call_unbuffered, sweep_durable_steps, post_disclosure_fails, spawn_fails,
     reader_loop_ends, tools_call_refused, tools_call_unanswered, tools_call_unbuffered,
     clear_findings_fails, set_review_summary_fails, finalize_review_fails

\* A sequence over a set takes its elements from it.
LEMMA ElementsOf ==
  ASSUME NEW S, NEW s \in Seq(S) PROVE \A k \in DOMAIN s : s[k] \in S
  OBVIOUS

\* The results of a native turn and of a cycle are those of calls.
LEMMA ResultsTargeted ==
  ASSUME AnswerOK PROVE Targeted(results) /\ Targeted(cycle_turn_outcome)
  <1>1. Targeted(results)
    <2>1. \A k \in DOMAIN results : results[k] \in [call : Calls, res : Words]
      BY ElementsOf DEF AnswerOK
    <2> QED BY <2>1 DEF Targeted
  <1>2. \A i \in DOMAIN script : script[i] \in Calls BY DEF AnswerOK
  <1>3. /\ DOMAIN cycle_turn_outcome \subseteq DOMAIN script
        /\ \A i \in DOMAIN cycle_turn_outcome : cycle_turn_outcome[i].call = script[i]
    BY DEF cycle_turn_outcome, cycle_result, Result
  <1> QED BY <1>1, <1>2, <1>3 DEF Targeted

\* The gates keep their types.
LEMMA InvGates ==
  ASSUME GatesOK, AnswerOK, [Next]_vars PROVE GatesOK'
  <1>1. Typed(gates) BY DEF GatesOK, Typed
  <1>2. Typed(NewGates) BY LimitAssumption DEF Typed, NewGates
  <1>3. Typed(AfterTurn)
    <2>1. Typed(Scratchpad(gates, results)) BY <1>1, TypedSteps
    <2> QED BY <2>1, TypedSteps, ResultsTargeted DEF AfterTurn
  <1>4. Typed(Ruled(AfterTurn, turn, MaxTurns)) BY <1>3, TypedSteps
  <1>5. Typed(disclose(gates)) /\ Typed(disclose(Ruled(AfterTurn, turn, MaxTurns)))
    BY <1>1, <1>4, TypedSteps
  <1>6. Typed(Observed) BY <1>1, TypedSteps, ResultsTargeted DEF Observed
  <1>7. Typed(disclose(Observed)) /\ Typed(Unaccepted) BY <1>6, TypedSteps DEF Unaccepted
  <1>8. Typed(disclose(Unaccepted)) BY <1>7, TypedSteps
  <1>9. Typed([gates EXCEPT !.force = FALSE, !.suppress = FALSE]) BY <1>1 DEF Typed, NewGates
  <1>10. Typed(gates')
    <2>1. CASE Next
      <3>1. \/ UNCHANGED gates \/ gates' = NewGates
            \/ gates' = [gates EXCEPT !.force = FALSE, !.suppress = FALSE]
            \/ gates' = AfterTurn \/ gates' = Ruled(AfterTurn, turn, MaxTurns)
            \/ gates' = disclose(Ruled(AfterTurn, turn, MaxTurns)) \/ gates' = disclose(gates)
            \/ gates' = disclose(Observed) \/ gates' = disclose(Unaccepted) \/ gates' = Unaccepted
        BY <2>1, GatesFrame DEF Started, before_turn, aborted, finished, bounced, keeps_going,
           exhausted, NextTurn, on_cycle_accepts, on_cycle_exhausts, on_cycle_prompts
      <3> QED BY <3>1, <1>1, <1>2, <1>3, <1>4, <1>5, <1>7, <1>8, <1>9
    <2>2. CASE UNCHANGED gates BY <1>1, <2>2
    <2> QED BY <2>1, <2>2 DEF vars
  <1> QED BY <1>10 DEF Typed, GatesOK

----------------------------------------------------------------------------
(* The journal. *)

\* The values a call leaves in its row.
RowWords == {"ok", "error", "finish", "abort"}

\* A row is written by the step that runs; rows go at the end of a run or by age.
LEMMA JournalFrame ==
  ASSUME Next
  PROVE  \/ UNCHANGED journal
         \/ \E calls \in Scripts[world.llm] :
              /\ pc = "asking" /\ Answered(calls, attempt) /\ KeepStep("llm", <<turn, calls, attempt>>)
         \/ /\ ReadsReturn(Places(script, ReadTools))
            /\ KeepStep("reads", <<turn, Places(script, ReadTools)>>)
         \/ \E word \in RowWords :
              /\ Stepping /\ ToolReturns(word) /\ KeepStep("write", <<CallId, word>>)
              /\ word = "finish" => Current.tool = "finish"
         \/ sweep_durable_steps
         \/ finalize_review
  <1>1. llm_live \/ llm_unjournaled =>
          \/ UNCHANGED journal
          \/ \E calls \in Scripts[world.llm] :
               /\ pc = "asking" /\ Answered(calls, attempt)
               /\ KeepStep("llm", <<turn, calls, attempt>>)
    BY DEF llm_live, llm_unjournaled, JournalFails
  <1>2. reads_live \/ reads_unjournaled =>
          \/ UNCHANGED journal
          \/ /\ ReadsReturn(Places(script, ReadTools))
             /\ KeepStep("reads", <<turn, Places(script, ReadTools)>>)
    BY DEF reads_live, reads_unjournaled, JournalFails
  <1>3. call_live \/ call_unjournaled \/ call_refused \/ call_unanswered \/ call_unbuffered =>
          \/ UNCHANGED journal
          \/ \E word \in RowWords :
               /\ Stepping /\ ToolReturns(word) /\ KeepStep("write", <<CallId, word>>)
               /\ word = "finish" => Current.tool = "finish"
    BY DEF call_live, call_unjournaled, call_refused, call_unanswered, call_unbuffered, Answer,
       JournalFails, RowWords
  <1>4. \/ report_running \/ report_running_unsure \/ before_turn \/ llm_replay \/ reads_replay
        \/ call_batched \/ call_replay \/ aborted \/ finished \/ bounced \/ keeps_going \/ exhausted
        \/ post_disclosure \/ crash \/ job_deadline \/ context_fills \/ llm_transient \/ llm_overflow \/ llm_fatal
        \/ call_dies \/ post_disclosure_fails
        => UNCHANGED journal
    BY DEF report_running, report_running_unsure, Started, before_turn, llm_replay, reads_replay,
       call_batched, call_replay, aborted, finished, bounced, keeps_going, exhausted, Settle,
       NextTurn, post_disclosure, crash, job_deadline, context_fills, llm_transient, llm_overflow, llm_fatal,
       call_dies, post_disclosure_fails
  <1>5. ChildStep \/ spawn_fails \/ reader_loop_ends
        \/ (\E i \in DOMAIN stage : tools_call_refused(i) \/ tools_call_unanswered(i)
                                      \/ tools_call_unbuffered(i))
        => UNCHANGED journal
    BY DEF ChildStep, spawn, prompt, tool_before, tools_call, tool_after, CycleStep, ChildOnly,
       on_cycle_aborts, on_cycle_accepts, on_cycle_exhausts, on_cycle_prompts, Resolve, spawn_fails,
       reader_loop_ends, tools_call_refused, tools_call_unanswered, tools_call_unbuffered
  <1>6. PostStep \/ clear_findings_fails \/ set_review_summary_fails \/ finalize_review_fails
        => UNCHANGED journal \/ finalize_review
    BY DEF PostStep, clear_findings, set_review_summary, keep_summary, report_error,
       clear_findings_fails, set_review_summary_fails, finalize_review_fails
  <1> QED BY <1>1, <1>2, <1>3, <1>4, <1>5, <1>6 DEF Next, Step, NativeStep, Fault

\* A row changes the steps of its own kind only.
LEMMA KeepStepFields ==
  ASSUME DOMAIN journal = {"llm", "reads", "write"}, NEW steps \in {"llm", "reads", "write"}, NEW row,
         KeepStep(steps, row)
  PROVE  \/ UNCHANGED journal
         \/ /\ world.durable /\ DOMAIN journal' = {"llm", "reads", "write"}
            /\ journal'[steps] = Upserted(journal[steps], row)
            /\ \A other \in {"llm", "reads", "write"} \ {steps} : journal'[other] = journal[other]
  BY DEF KeepStep

\* What the sweep leaves are rows of the journal.
LEMMA SweptRows ==
  ASSUME sweep_durable_steps
  PROVE  /\ DOMAIN journal' = {"llm", "reads", "write"}
         /\ journal'.llm \subseteq journal.llm /\ journal'.reads \subseteq journal.reads
         /\ journal'.write \subseteq journal.write
         /\ UNCHANGED <<pc, attempt, turn, script, answer, results>>
  <1>1. PICK t \in 0 .. MaxTurns, cut \in 0 .. 2 :
          journal' = [llm   |-> {row \in journal.llm : row[1] > t \/ (row[1] = t /\ cut = 0)},
                      reads |-> {row \in journal.reads : row[1] > t \/ (row[1] = t /\ cut < 2)},
                      write |-> {row \in journal.write : row[1][1] >= t}]
    BY DEF sweep_durable_steps
  <1> QED BY <1>1 DEF sweep_durable_steps

\* The place of the call at hand, and the call.
LEMMA CurrentCall ==
  ASSUME AnswerOK, ControlOK, Dispatching
  PROVE  /\ Position \in 1 .. Len(script) /\ Position \in DOMAIN script
         /\ Current \in Calls /\ CallId \in Nat \X Nat \X Nat
         /\ CallId[1] = turn /\ CallId[2] = answer.by /\ CallId[3] = Position
  <1>1. Len(results) \in Nat /\ Len(script) \in Nat /\ DOMAIN script = 1 .. Len(script) BY DEF AnswerOK
  <1>2. Position \in 1 .. Len(script) /\ Position \in Nat BY <1>1 DEF Dispatching, Position
  <1>3. Current \in Calls BY <1>2 DEF Current, AnswerOK
  <1>4. turn \in Nat /\ answer.by \in Nat BY DEF ControlOK, AnswerOK
  <1> QED BY <1>1, <1>2, <1>3, <1>4 DEF CallId

\* The rows of the journal keep their types.
LEMMA InvJournal ==
  ASSUME JournalOK, AnswerOK, WorldOK, ControlOK, [Next]_vars PROVE JournalOK'
  <1>0. DOMAIN journal = {"llm", "reads", "write"} BY DEF JournalOK
  <1>1. CASE UNCHANGED journal BY <1>1 DEF JournalOK
  <1>2. ASSUME NEW calls \in Scripts[world.llm], KeepStep("llm", <<turn, calls, attempt>>)
        PROVE  JournalOK'
    <2>1. calls \in Seq(Calls) BY ScriptAssumption DEF WorldOK
    <2>2. <<turn, calls, attempt>> \in Nat \X Seq(Calls) \X (1 .. MaxAttempts)
      BY <2>1 DEF ControlOK
    <2>3. Upserted(journal.llm, <<turn, calls, attempt>>) \subseteq Nat \X Seq(Calls) \X (1 .. MaxAttempts)
      BY <2>2 DEF Upserted, JournalOK
    <2> QED BY <1>0, <1>1, <1>2, <2>3, KeepStepFields DEF JournalOK
  <1>3. ASSUME KeepStep("reads", <<turn, Places(script, ReadTools)>>) PROVE JournalOK'
    <2>1. Places(script, ReadTools) \subseteq Nat BY DEF Places, AnswerOK
    <2>2. <<turn, Places(script, ReadTools)>> \in Nat \X SUBSET Nat BY <2>1 DEF ControlOK
    <2>3. Upserted(journal.reads, <<turn, Places(script, ReadTools)>>) \subseteq Nat \X SUBSET Nat
      BY <2>2 DEF Upserted, JournalOK
    <2> QED BY <1>0, <1>1, <1>3, <2>3, KeepStepFields DEF JournalOK
  <1>4. ASSUME NEW word \in RowWords, Stepping, KeepStep("write", <<CallId, word>>) PROVE JournalOK'
    <2>1. <<CallId, word>> \in (Nat \X Nat \X Nat) \X RowWords BY <1>4, CurrentCall DEF Stepping
    <2>2. Upserted(journal.write, <<CallId, word>>) \subseteq (Nat \X Nat \X Nat) \X RowWords
      BY <2>1 DEF Upserted, JournalOK, RowWords
    <2> QED BY <1>0, <1>1, <1>4, <2>2, KeepStepFields DEF JournalOK, RowWords
  <1>5. CASE sweep_durable_steps BY <1>5, SweptRows DEF JournalOK
  <1>6. CASE finalize_review BY <1>6 DEF finalize_review, NoJournal, JournalOK
  <1>7. CASE Next BY <1>7, <1>1, <1>2, <1>3, <1>4, <1>5, <1>6, JournalFrame
  <1> QED BY <1>1, <1>7 DEF vars

----------------------------------------------------------------------------
(* The recorder and the control plane. *)

\* The recorder keeps its lines.
LEMMA InvRecorder ==
  ASSUME RecorderOK, AnswerOK, Overheard, [Next]_vars PROVE RecorderOK'
  <1> DEFINE Kept == [kind : {"before", "after"}, at : Nat, res : Words]
  <1>1. CASE UNCHANGED recorder BY <1>1 DEF RecorderOK
  <1>2. CASE recorder' = [lines |-> <<>>, before |-> 0] BY <1>2 DEF RecorderOK
  <1>3. CASE NextRecorder
    <2>1. recorder.before + Len(recorder.lines) \in Nat BY DEF RecorderOK
    <2> QED BY <1>3, <2>1 DEF NextRecorder, RecorderOK
  <1>4. ASSUME NEW line \in Kept, record(line) PROVE RecorderOK'
    <2>1. recorder.lines \in Seq(Kept) /\ recorder.before \in Nat BY DEF RecorderOK
    <2>2. Append(recorder.lines, line) \in Seq(Kept) BY <2>1
    <2>3. UNCHANGED recorder \/ recorder' = [recorder EXCEPT !.lines = Append(@, line)]
      BY <1>4 DEF record
    <2> QED BY <1>1, <2>1, <2>2, <2>3 DEF RecorderOK
  <1>5. ASSUME NEW i \in DOMAIN stage, tool_before(i) \/ tool_after(i) PROVE RecorderOK'
    <2>1. i \in Nat BY <1>5 DEF Overheard, AnswerOK, tool_before, tool_after
    <2>2. Line("before", i, "none") \in Kept BY <2>1 DEF Line, Words
    <2>3. stage[i] \in {"ok", "error"} => Line("after", i, stage[i]) \in Kept BY <2>1 DEF Line, Words
    <2> QED BY <1>4, <1>5, <2>2, <2>3 DEF tool_before, tool_after
  <1>6. Next => \/ UNCHANGED recorder \/ Started \/ NextRecorder
                \/ \E i \in DOMAIN stage : tool_before(i) \/ tool_after(i)
    BY DEF Next, Step, NativeStep, ChildStep, PostStep, Fault, report_running, before_turn, llm_replay,
       llm_live, Answered, reads_replay, reads_live, ReadsReturn, call_batched, call_replay,
       call_live, ToolReturns, aborted, finished, bounced, keeps_going, exhausted, Settle,
       NextTurn, post_disclosure, NativeOnly, spawn, prompt, tools_call, on_cycle_aborts,
       on_cycle_accepts, on_cycle_exhausts, on_cycle_prompts,
       clear_findings, set_review_summary, keep_summary, finalize_review, report_error, PostOnly,
       report_running_unsure, crash, job_deadline, context_fills, llm_unjournaled, llm_transient, llm_overflow,
       llm_fatal, reads_unjournaled, call_unjournaled, call_dies, call_refused, call_unanswered,
       call_unbuffered, sweep_durable_steps, post_disclosure_fails, spawn_fails, reader_loop_ends,
       tools_call_refused, tools_call_unanswered, tools_call_unbuffered, clear_findings_fails,
       set_review_summary_fails, finalize_review_fails
  <1> QED BY <1>1, <1>2, <1>3, <1>5, <1>6 DEF Started, vars

\* The rows of a review change with its tool calls, and at both ends of a run.
LEMMA PlaneFrame ==
  ASSUME Next
  PROVE  \/ UNCHANGED <<buffer, replies, summary>>
         \/ (report_running \/ report_running_unsure) /\ clear_pending_review
         \/ Stepping /\ Effect(Current, CallId)
         \/ \E i \in DOMAIN stage : pc = "cycle" /\ Effect(script[i], <<turn, attempt, i>>)
         \/ clear_findings
         \/ set_review_summary
         \/ post_disclosure
  BY DEF Next, Step, NativeStep, ChildStep, PostStep, Fault, report_running, before_turn, llm_replay,
     llm_live, Answered, reads_replay, reads_live, ReadsReturn, call_batched, call_replay,
     call_live, aborted, finished, bounced, keeps_going, exhausted, Settle,
     NextTurn, spawn, prompt, tool_before, tools_call, tool_after, on_cycle_aborts,
     on_cycle_accepts, on_cycle_exhausts, on_cycle_prompts, Resolve,
     keep_summary, finalize_review, report_error,
     report_running_unsure, crash, job_deadline, context_fills, llm_unjournaled, llm_transient, llm_overflow,
     llm_fatal, reads_unjournaled, call_unjournaled, call_dies, call_refused, call_unanswered,
     call_unbuffered, sweep_durable_steps, post_disclosure_fails, spawn_fails, reader_loop_ends,
     tools_call_refused, tools_call_unanswered, tools_call_unbuffered, clear_findings_fails,
     set_review_summary_fails, finalize_review_fails

\* The rows of a review keep their types.
LEMMA InvPlane ==
  ASSUME PlaneOK, AnswerOK, ControlOK, Overheard, [Next]_vars PROVE PlaneOK'
  <1>1. CASE UNCHANGED <<buffer, replies, summary>> BY <1>1 DEF PlaneOK
  <1>2. EmptyBuffer \in [Locs -> Priorities \cup {"scan", "none"}] BY DEF EmptyBuffer
  <1>3. ASSUME NEW call \in Calls, NEW id \in Nat \X Nat \X Nat, Effect(call, id) PROVE PlaneOK'
    <2>1. Left(call) \in Priorities \cup {"scan", "none"} BY DEF Left, Calls
    <2>2. buffer' = buffer \/ buffer' = [buffer EXCEPT ![call.at] = Left(call)]
      BY <1>3 DEF Effect, upsert_pending_inline, delete_pending_inline
    <2>3. buffer' \in [Locs -> Priorities \cup {"scan", "none"}] BY <2>1, <2>2 DEF PlaneOK
    <2>4. replies' \subseteq Nat \X Nat \X Nat BY <1>3 DEF Effect, add_pending_comment, PlaneOK
    <2>5. summary' \in {"none", "verdict", "disclosed", "exhausted", "aborted"}
      BY <1>3 DEF Effect, PlaneOK
    <2> QED BY <2>3, <2>4, <2>5 DEF PlaneOK
  <1>4. CASE clear_pending_review BY <1>2, <1>4 DEF clear_pending_review, PlaneOK
  <1>5. ASSUME Stepping, Effect(Current, CallId) PROVE PlaneOK'
    BY <1>3, <1>5, CurrentCall DEF Stepping
  <1>6. ASSUME NEW i \in DOMAIN stage, pc = "cycle", Effect(script[i], <<turn, attempt, i>>) PROVE PlaneOK'
    <2>1. i \in Nat /\ script[i] \in Calls BY <1>6 DEF Overheard, AnswerOK
    <2>2. <<turn, attempt, i>> \in Nat \X Nat \X Nat BY <2>1, LimitAssumption DEF ControlOK
    <2> QED BY <1>3, <1>6, <2>1, <2>2
  <1>7. CASE clear_findings BY <1>2, <1>7 DEF clear_findings, PlaneOK
  <1>8. CASE set_review_summary BY <1>8 DEF set_review_summary, OwnSummary, PlaneOK
  <1>9. CASE post_disclosure BY <1>9 DEF post_disclosure, PlaneOK
  <1>10. CASE Next BY <1>10, <1>1, <1>4, <1>5, <1>6, <1>7, <1>8, <1>9, PlaneFrame
  <1> QED BY <1>1, <1>10 DEF vars

Outcomes == {"none", "finished", "exhausted", "aborted", "error"}

\* The outcome is one of the five.
LEMMA InvOutcome ==
  ASSUME outcome \in Outcomes, [Next]_vars PROVE outcome' \in Outcomes
  BY DEF Outcomes, Next, Step, NativeStep, ChildStep, PostStep, Fault, report_running, Started, before_turn,
     llm_replay, llm_live, Answered, reads_replay, reads_live, ReadsReturn, call_batched, call_replay,
     call_live, ToolReturns, aborted, finished, bounced, keeps_going, exhausted, Settle, NextTurn,
     post_disclosure, spawn, prompt, tool_before, tools_call, tool_after, CycleStep,
     on_cycle_aborts, on_cycle_accepts, on_cycle_exhausts, on_cycle_prompts, Resolve,
     clear_findings, set_review_summary, keep_summary, finalize_review, report_error, PostOnly,
     report_running_unsure, crash, job_deadline, context_fills, llm_unjournaled, llm_transient, llm_overflow,
     llm_fatal, reads_unjournaled, call_unjournaled, call_dies, call_refused, call_unanswered,
     call_unbuffered, sweep_durable_steps, post_disclosure_fails, spawn_fails, reader_loop_ends,
     tools_call_refused, tools_call_unanswered, tools_call_unbuffered, clear_findings_fails,
     set_review_summary_fails, finalize_review_fails, vars

----------------------------------------------------------------------------
(* Answers, rows and results belong together. *)

\* A pod goes through its turns in order; the next pod starts over.
LEMMA ClockFrame ==
  ASSUME ControlOK, TurnsLeft, [Next]_vars
  PROVE  \/ UNCHANGED <<attempt, pc, turn>>
         \/ attempt' = attempt + 1 /\ pc' = "start"
         \/ UNCHANGED attempt /\ pc = "start"
         \/ /\ UNCHANGED attempt /\ pc # "start" /\ pc' # "start"
            /\ \/ turn' > turn
               \/ turn' = turn /\ (pc' \in {"turn", "asking"} => pc \in {"turn", "asking"})
  <1>1. turn \in Nat BY DEF ControlOK
  <1>2. CASE PostStep \/ crash \/ job_deadline \/ call_dies \/ clear_findings_fails \/ set_review_summary_fails
             \/ finalize_review_fails \/ report_running \/ report_running_unsure
    BY <1>2 DEF PostStep, clear_findings, set_review_summary, keep_summary, finalize_review, Summarising,
       report_error, clear_findings_fails, set_review_summary_fails, PostOnly, crash, job_deadline, call_dies,
       finalize_review_fails, report_running, report_running_unsure, Started
  <1>3. CASE ChildStep \/ spawn_fails \/ reader_loop_ends
             \/ \E i \in DOMAIN stage : tools_call_refused(i) \/ tools_call_unanswered(i)
                                          \/ tools_call_unbuffered(i)
    <2>1. /\ UNCHANGED attempt /\ pc \in {"spawn", "prompt", "cycle"}
          /\ pc' \in {"prompt", "cycle", "post"} /\ (turn' = turn \/ turn' = turn + 1)
      BY <1>3 DEF ChildStep, spawn, prompt, tool_before, tools_call, tool_after, CycleStep, ChildOnly,
         on_cycle_aborts, on_cycle_accepts, on_cycle_exhausts, on_cycle_prompts, Resolve, spawn_fails,
         reader_loop_ends, tools_call_refused, tools_call_unanswered, tools_call_unbuffered, CycleOver
    <2> QED BY <1>1, <2>1
  <1>4. CASE llm_overflow
    BY <1>1, <1>4, LimitAssumption DEF llm_overflow, TurnsLeft, NativeOnly
  <1>5. CASE \/ before_turn \/ context_fills \/ llm_replay \/ llm_live \/ llm_unjournaled
             \/ llm_transient \/ llm_fatal
    <2>1. /\ UNCHANGED attempt /\ pc \in {"turn", "asking"} /\ pc' # "start"
          /\ turn' = turn \/ turn' = turn + 1
      BY <1>5 DEF before_turn, context_fills, llm_replay, llm_live, llm_unjournaled, llm_transient,
         llm_fatal, Answered, TurnLost, NativeOnly
    <2> QED BY <1>1, <2>1
  <1>6. CASE \/ reads_replay \/ reads_live \/ reads_unjournaled \/ call_batched \/ call_replay
             \/ call_live \/ call_unjournaled \/ call_refused \/ call_unanswered \/ call_unbuffered
             \/ sweep_durable_steps
    BY <1>1, <1>6 DEF reads_replay, reads_live, reads_unjournaled, ReadsReturn, call_batched, call_replay,
       call_live, call_unjournaled, call_refused, call_unanswered, call_unbuffered, ToolReturns,
       sweep_durable_steps, NativeOnly
  <1>7. CASE \/ aborted \/ finished \/ bounced \/ keeps_going \/ exhausted \/ post_disclosure
             \/ post_disclosure_fails
    BY <1>1, <1>7 DEF aborted, finished, bounced, keeps_going, exhausted, post_disclosure,
       post_disclosure_fails, TurnOver, Settle, NextTurn, NativeOnly
  <1>8. CASE UNCHANGED vars BY <1>8 DEF vars
  <1> QED BY <1>2, <1>3, <1>4, <1>5, <1>6, <1>7, <1>8 DEF Next, Step, NativeStep, Fault

\* Time does not make a row run ahead.
LEMMA NotAheadKept ==
  ASSUME ControlOK, TurnsLeft, [Next]_vars, ControlOK', NEW t \in Nat, NEW by \in Nat, NotAhead(t, by)
  PROVE  NotAhead(t, by)'
  <1>1. attempt \in Nat /\ turn \in Nat /\ turn' \in Nat BY LimitAssumption DEF ControlOK
  <1> QED BY <1>1, ClockFrame DEF NotAhead

\* No answer and no call is new in the journal.
NoNewRows == journal'.llm \subseteq journal.llm /\ journal'.write \subseteq journal.write

\* A call returns as a finish if it is one, or if its row says so; only scans are told.
Honest(res) ==
    /\ res = "finish" =>
         Current.tool = "finish" \/ \E row \in journal.write : row[1] = CallId /\ row[2] = "finish"
    /\ res = "told" => Current.tool = "sast"

\* What a step does to the answer in hand, together with what it does to the journal.
LEMMA TurnFrame ==
  ASSUME Next, JournalOK
  PROVE  \/ UNCHANGED <<script, answer, results>> /\ NoNewRows /\ (InTurn' => InTurn /\ UNCHANGED turn)
         \/ NoNewRows /\ ~ InTurn' /\ answer'.by \in {answer.by, 0}
         \/ \E calls \in Scripts[world.llm] :
              /\ pc = "asking" /\ Answered(calls, attempt)
              /\ UNCHANGED journal \/ KeepStep("llm", <<turn, calls, attempt>>)
         \/ pc = "asking" /\ UNCHANGED journal
            /\ \E row \in journal.llm : row[1] = turn /\ Answered(row[2], row[3])
         \/ NoNewRows /\ \E batch : ReadsReturn(batch)
         \/ \E res \in Words :
              /\ Dispatching /\ ToolReturns(res) /\ Honest(res)
              /\ UNCHANGED journal
                   \/ (KeepStep("write", <<CallId, res>>) /\ (res = "finish" => Current.tool = "finish"))
  <1>0. DOMAIN journal = {"llm", "reads", "write"} BY DEF JournalOK
  <1>1. report_running \/ report_running_unsure => NoNewRows /\ ~ InTurn' /\ answer'.by \in {answer.by, 0}
    BY DEF report_running, report_running_unsure, Started, FirstStep, InTurn, NoNewRows, NoAnswer
  <1>2. llm_live \/ llm_unjournaled =>
          \E calls \in Scripts[world.llm] :
            /\ pc = "asking" /\ Answered(calls, attempt)
            /\ UNCHANGED journal \/ KeepStep("llm", <<turn, calls, attempt>>)
    BY DEF llm_live, llm_unjournaled, JournalFails
  <1>3. llm_replay => pc = "asking" /\ UNCHANGED journal
                      /\ \E row \in journal.llm : row[1] = turn /\ Answered(row[2], row[3])
    BY DEF llm_replay
  <1>4. ASSUME reads_replay \/ reads_live \/ reads_unjournaled
        PROVE  NoNewRows /\ \E batch : ReadsReturn(batch)
    <2>1. UNCHANGED journal \/ KeepStep("reads", <<turn, Places(script, ReadTools)>>)
      BY <1>4 DEF reads_replay, reads_live, reads_unjournaled, JournalFails
    <2>2. NoNewRows BY <1>0, <2>1, KeepStepFields DEF NoNewRows
    <2> QED BY <1>4, <2>2 DEF reads_replay, reads_live, reads_unjournaled
  <1>5. \/ call_batched \/ call_live \/ call_unjournaled \/ call_refused \/ call_unanswered
        \/ call_unbuffered
        => \E res \in Words :
             /\ Dispatching /\ ToolReturns(res) /\ Honest(res)
             /\ UNCHANGED journal
                  \/ (KeepStep("write", <<CallId, res>>) /\ (res = "finish" => Current.tool = "finish"))
    BY DEF call_batched, call_live, call_unjournaled, call_refused, call_unanswered, call_unbuffered,
       Stepping, JournalFails, Answer, Words, Honest
  <1>6. call_replay => \E res \in Words :
             /\ Dispatching /\ ToolReturns(res) /\ Honest(res) /\ UNCHANGED journal
    BY DEF call_replay, Stepping, Words, Honest, JournalOK
  <1>7. \/ before_turn \/ context_fills \/ llm_transient \/ llm_overflow \/ llm_fatal
        \/ crash \/ job_deadline \/ call_dies \/ aborted \/ finished \/ bounced \/ keeps_going \/ exhausted
        \/ post_disclosure \/ post_disclosure_fails
        => UNCHANGED <<script, answer, results, journal>> /\ ~ InTurn'
    BY DEF before_turn, context_fills, llm_transient, llm_overflow, llm_fatal, TurnLost, crash, job_deadline,
       call_dies, aborted, finished, bounced, keeps_going, exhausted, post_disclosure,
       post_disclosure_fails, Settle, NextTurn, InTurn
  <1>8. sweep_durable_steps => UNCHANGED <<script, answer, results>> /\ NoNewRows
                               /\ (InTurn' => InTurn /\ UNCHANGED turn)
    BY SweptRows DEF NoNewRows, InTurn
  <1>9. ChildStep \/ spawn_fails \/ reader_loop_ends
        \/ (\E i \in DOMAIN stage : tools_call_refused(i) \/ tools_call_unanswered(i)
                                      \/ tools_call_unbuffered(i))
        => UNCHANGED <<answer, journal>> /\ ~ InTurn'
    BY DEF ChildStep, spawn, prompt, tool_before, tools_call, tool_after, CycleStep, ChildOnly,
       on_cycle_aborts, on_cycle_accepts, on_cycle_exhausts, on_cycle_prompts, Resolve, spawn_fails,
       reader_loop_ends, tools_call_refused, tools_call_unanswered, tools_call_unbuffered, InTurn
  <1>10. PostStep \/ clear_findings_fails \/ set_review_summary_fails \/ finalize_review_fails
        => UNCHANGED answer /\ NoNewRows /\ ~ InTurn'
    BY DEF PostStep, clear_findings, set_review_summary, keep_summary, report_error, finalize_review,
       clear_findings_fails, set_review_summary_fails, finalize_review_fails, PostOnly, NoJournal,
       NoNewRows, InTurn
  <1>11. UNCHANGED journal => NoNewRows BY DEF NoNewRows
  <1> HIDE DEF NoNewRows, InTurn, Honest
  <1> QED BY <1>1, <1>2, <1>3, <1>4, <1>5, <1>6, <1>7, <1>8, <1>9, <1>10, <1>11
          DEF Next, Step, NativeStep, Fault

\* The rows of the journal are dated, answers and finishes are matched by their ids.
LEMMA InvRows ==
  ASSUME ControlOK, ControlOK', TurnsLeft, AnswerOK, JournalOK, [Next]_vars,
         Dated, OneAnswer, FinishRows, HonestResults
  PROVE  Dated' /\ OneAnswer' /\ FinishRows' /\ HonestResults'
  <1> DEFINE Goal == Dated' /\ OneAnswer' /\ FinishRows' /\ HonestResults'
  <1>t. /\ attempt \in Nat /\ attempt' \in Nat /\ turn \in Nat /\ turn' \in Nat /\ answer.by \in Nat
        /\ DOMAIN journal = {"llm", "reads", "write"}
        /\ \A row \in journal.llm : row[1] \in Nat /\ row[3] \in Nat
        /\ \A row \in journal.write : row[1][1] \in Nat /\ row[1][2] \in Nat
    <2>1. /\ attempt \in Nat /\ attempt' \in Nat /\ turn \in Nat /\ turn' \in Nat
      BY LimitAssumption DEF ControlOK
    <2>2. answer.by \in Nat BY LimitAssumption DEF AnswerOK
    <2>3. /\ DOMAIN journal = {"llm", "reads", "write"}
          /\ \A row \in journal.write : row[1][1] \in Nat /\ row[1][2] \in Nat
      BY DEF JournalOK
    <2>4. \A row \in journal.llm : row[1] \in Nat /\ row[3] \in Nat
      BY LimitAssumption DEF JournalOK
    <2> QED BY <2>1, <2>2, <2>3, <2>4
  <1>d. /\ \A row \in journal.llm : NotAhead(row[1], row[3])'
        /\ \A row \in journal.write : NotAhead(row[1][1], row[1][2])'
        /\ attempt <= attempt'
    <2>1. attempt <= attempt' BY <1>t, ClockFrame
    <2> QED BY <1>t, <2>1, NotAheadKept DEF Dated
  <1>1. ASSUME UNCHANGED <<script, answer, results>>, NoNewRows, InTurn' => InTurn /\ UNCHANGED turn
        PROVE  Goal
    <2>1. Dated' BY <1>1, <1>t, <1>d DEF Dated, NoNewRows
    <2>2. OneAnswer' BY <1>1 DEF OneAnswer, NoNewRows
    <2>3. FinishRows' BY <1>1 DEF FinishRows, NoNewRows
    <2>4. HonestResults' BY <1>1 DEF HonestResults
    <2> QED BY <2>1, <2>2, <2>3, <2>4
  <1>2. ASSUME NoNewRows, ~ InTurn', answer'.by \in {answer.by, 0} PROVE Goal
    <2>1. Dated' BY <1>2, <1>t, <1>d DEF Dated, NoNewRows
    <2>2. OneAnswer' BY <1>2 DEF OneAnswer, NoNewRows
    <2>3. FinishRows' BY <1>2 DEF FinishRows, NoNewRows
    <2>4. HonestResults' BY <1>2 DEF HonestResults
    <2> QED BY <2>1, <2>2, <2>3, <2>4
  <1>3. ASSUME NEW calls, pc = "asking", Answered(calls, attempt),
               UNCHANGED journal \/ KeepStep("llm", <<turn, calls, attempt>>)
        PROVE  Goal
    <2>1. /\ script' = calls /\ answer'.by = attempt /\ results' = <<>> /\ UNCHANGED attempt
          /\ pc' # "start" /\ turn <= turn' /\ (turn' = turn => pc' \notin {"turn", "asking"})
          /\ InTurn' => UNCHANGED turn
      BY <1>3, <1>t DEF Answered, NativeOnly, InTurn
    <2>2. \A t, by : t = turn /\ by = attempt => NotAhead(t, by)' BY <2>1, <1>t DEF NotAhead
    <2>3. /\ \A row \in journal.llm : ~ (row[1] = turn /\ row[3] = attempt)
          /\ \A row \in journal.write : ~ (row[1][1] = turn /\ row[1][2] = attempt)
      BY <1>3, <1>t DEF Dated, NotAhead
    <2>4. journal'.write = journal.write
          /\ (journal'.llm = journal.llm \/ journal'.llm = Upserted(journal.llm, <<turn, calls, attempt>>))
      BY <1>3, <1>t, KeepStepFields
    <2>5. \A row \in journal'.llm : row \in journal.llm \/ row = <<turn, calls, attempt>>
      BY <2>4 DEF Upserted
    <2>6. \/ journal'.llm = journal.llm
          \/ \A row \in journal'.llm : row[1] = turn => row = <<turn, calls, attempt>>
      BY <2>4 DEF Upserted
    <2>7. Dated' BY <2>1, <2>2, <2>4, <2>5, <1>d, <1>t DEF Dated
    <2>8. OneAnswer' BY <2>1, <2>3, <2>5, <2>6 DEF OneAnswer
    <2>9. FinishRows' BY <2>1, <2>3, <2>4, <2>5 DEF FinishRows
    <2>10. HonestResults' BY <2>1 DEF HonestResults
    <2> QED BY <2>7, <2>8, <2>9, <2>10
  <1>4. ASSUME NEW kept \in journal.llm, pc = "asking", UNCHANGED journal, kept[1] = turn,
               Answered(kept[2], kept[3])
        PROVE  Goal
    <2>1. /\ script' = kept[2] /\ answer'.by = kept[3] /\ results' = <<>> /\ UNCHANGED attempt
          /\ InTurn' => UNCHANGED turn
      BY <1>4, <1>t DEF Answered, NativeOnly, InTurn
    <2>2. Dated' BY <1>4, <2>1, <1>d, <1>t DEF Dated, NotAhead
    <2>3. OneAnswer' BY <1>4, <2>1 DEF OneAnswer
    <2>4. FinishRows' BY <1>4, <2>1 DEF FinishRows
    <2>5. HonestResults' BY <2>1 DEF HonestResults
    <2> QED BY <2>2, <2>3, <2>4, <2>5
  <1>5. ASSUME NEW batch, NoNewRows, ReadsReturn(batch) PROVE Goal
    <2>1. UNCHANGED <<script, results, turn>> /\ answer'.by = answer.by /\ InTurn
      BY <1>5 DEF ReadsReturn, InTurn, AnswerOK
    <2>2. Dated' BY <1>5, <2>1, <1>t, <1>d DEF Dated, NoNewRows
    <2>3. OneAnswer' BY <1>5, <2>1 DEF OneAnswer, NoNewRows
    <2>4. FinishRows' BY <1>5, <2>1 DEF FinishRows, NoNewRows
    <2>5. HonestResults' BY <2>1 DEF HonestResults
    <2> QED BY <2>2, <2>3, <2>4, <2>5
  <1>6. ASSUME NEW res \in Words, Dispatching, ToolReturns(res), Honest(res),
               \/ UNCHANGED journal
               \/ KeepStep("write", <<CallId, res>>) /\ (res = "finish" => Current.tool = "finish")
        PROVE  Goal
    <2>1. /\ UNCHANGED <<script, answer, turn, attempt, pc>> /\ pc = "tools" /\ InTurn
          /\ results' = Append(results, Result(Current, res))
      BY <1>6 DEF ToolReturns, NativeOnly, Dispatching, InTurn
    <2>2. /\ CallId[1] = turn /\ CallId[2] = answer.by /\ CallId[3] = Position
          /\ Position \in DOMAIN script
      BY <1>6, CurrentCall
    <2>3. /\ journal'.llm = journal.llm
          /\ \/ journal'.write = journal.write
             \/ /\ journal'.write = Upserted(journal.write, <<CallId, res>>)
                /\ res = "finish" => Current.tool = "finish"
      BY <1>6, <1>t, KeepStepFields
    <2>4. \A row \in journal'.write :
            \/ row \in journal.write
            \/ row = <<CallId, res>> /\ (res = "finish" => Current.tool = "finish")
      BY <2>3 DEF Upserted
    <2>5. NotAhead(turn, answer.by)' BY <2>1, <1>t DEF Dated, NotAhead
    <2>6. Dated' BY <2>1, <2>2, <2>3, <2>4, <2>5, <1>t, <1>d DEF Dated
    <2>7. OneAnswer' BY <2>1, <2>3 DEF OneAnswer, InTurn
    <2>8. FinishRows'
      <3>1. ASSUME NEW w \in journal.write, w[2] = "finish"
            PROVE  /\ (InTurn /\ w[1][1] = turn /\ w[1][2] = answer.by => script[w[1][3]].tool = "finish")'
                   /\ \A row \in journal'.llm :
                        row[1] = w[1][1] /\ row[3] = w[1][2] => row[2][w[1][3]].tool = "finish"
        BY <3>1, <2>1, <2>3 DEF FinishRows
      <3>2. ASSUME res = "finish", Current.tool = "finish"
            PROVE  /\ script'[CallId[3]].tool = "finish"
                   /\ \A row \in journal'.llm :
                        row[1] = CallId[1] /\ row[3] = CallId[2] => row[2][CallId[3]].tool = "finish"
        BY <3>2, <2>1, <2>2, <2>3 DEF OneAnswer, Current
      <3> QED BY <3>1, <3>2, <2>4 DEF FinishRows
    <2>9. res = "finish" => Current.tool = "finish"
      BY <1>6, <2>1, <2>2 DEF Honest, FinishRows, Current
    <2>10. HonestResults'
      <3>1. Result(Current, res).res = res /\ Result(Current, res).call = Current BY DEF Result
      <3>2. \A k \in DOMAIN results' : \/ k \in DOMAIN results /\ results'[k] = results[k]
                                       \/ results'[k] = Result(Current, res)
        BY <2>1 DEF AnswerOK
      <3>3. res = "told" => Current.tool = "sast" BY <1>6 DEF Honest
      <3> QED BY <3>1, <3>2, <3>3, <2>1, <2>9 DEF HonestResults
    <2> QED BY <2>6, <2>7, <2>8, <2>10
  <1>7. CASE Next
    <2> HIDE DEF Goal
    <2>1. Goal BY <1>7, <1>1, <1>2, <1>3, <1>4, <1>5, <1>6, TurnFrame
    <2> QED BY <2>1 DEF Goal
  <1>8. CASE UNCHANGED vars BY <1>8, <1>1 DEF vars, NoNewRows, InTurn
  <1> QED BY <1>7, <1>8

----------------------------------------------------------------------------
(* The end of a run. *)

AtEnd == {"post", "summary", "finalize", "ended"}

\* The ways into and along the end of a run.
LEMMA EndFrame ==
  ASSUME Next, pc' \in AtEnd
  PROVE  \/ PostStep \/ clear_findings_fails \/ set_review_summary_fails \/ sweep_durable_steps
         \/ post_disclosure \/ post_disclosure_fails
         \/ pc' = "post" /\ outcome' \in {"error", "aborted"}
         \/ on_cycle_accepts \/ on_cycle_exhausts
  BY DEF AtEnd, Next, Step, NativeStep, ChildStep, Fault, report_running, Started, FirstStep,
     before_turn, llm_replay, llm_live, Answered, reads_replay, reads_live, ReadsReturn, call_batched,
     call_replay, call_live, ToolReturns, Stepping, Dispatching, aborted, finished, bounced,
     keeps_going, exhausted, Settle, NextTurn, spawn, prompt, tool_before, tools_call, tool_after,
     CycleStep, on_cycle_aborts, on_cycle_prompts, Resolve, report_running_unsure, crash, job_deadline,
     context_fills, llm_unjournaled, llm_transient, llm_overflow, llm_fatal, TurnLost,
     reads_unjournaled, call_unjournaled, call_dies, call_refused, call_unanswered, call_unbuffered,
     spawn_fails, reader_loop_ends, tools_call_refused, tools_call_unanswered,
     tools_call_unbuffered, finalize_review_fails

\* A finish that went through leaves a verdict to amend.
LEMMA FinishHasVerdict ==
  ASSUME GatesOK, HonestResults, pc = "tools", Requested(results, "finish")
  PROVE  disclose(Ruled(AfterTurn, turn, MaxTurns)).amended
           = (Uncovered(disclose(Ruled(AfterTurn, turn, MaxTurns))) # {})
  <1>1. DOMAIN gates = DOMAIN NewGates BY DEF GatesOK
  <1>2. DOMAIN Scratchpad(gates, results) = DOMAIN NewGates BY <1>1, ScratchpadFields
  <1>3. DOMAIN AfterTurn = DOMAIN NewGates BY <1>2, ObserveFields DEF AfterTurn
  <1>4. AfterTurn.verdict
    <2>1. PICK k \in DOMAIN results : results[k].res = "finish" BY DEF Requested
    <2>2. results[k].call.tool = "finish" BY <2>1 DEF HonestResults, InTurn
    <2>3. coverage_verdict(Scratchpad(gates, results), results) BY <2>1, <2>2 DEF coverage_verdict
    <2> QED BY <1>2, <2>3, ObserveFields DEF AfterTurn
  <1> DEFINE g == Ruled(AfterTurn, turn, MaxTurns)
  <1>5. DOMAIN g = DOMAIN NewGates /\ g.verdict BY <1>3, <1>4, RuledFields
  <1> HIDE DEF g
  <1>6. disclose(g).amended = (Uncovered(g) # {}) /\ disclose(g).engaged = g.engaged
    BY <1>5, DiscloseFields
  <1>7. disclose(g).amended = (Uncovered(disclose(g)) # {}) BY <1>6 DEF Uncovered
  <1> QED BY <1>7 DEF g

\* A verdict with a gap is amended, and stays so.
LEMMA InvDisclosed ==
  ASSUME GatesOK, HostPlaces, WorldOK, HonestResults, Disclosed, Aborted, [Next]_vars
  PROVE  Disclosed'
  <1>0. world'.host = world.host BY WorldFixed
  <1> DEFINE Amends == outcome = "exhausted"
                         \/ (outcome = "finished" /\ (Uncovered(gates) # {} => gates.amended))
             Named == (world.host = "native" /\ pc \in AtEnd /\ outcome = "finished"
                         /\ Uncovered(gates) # {} /\ "undisclosed" \notin faults => summary = "disclosed")
  <1>1. Disclosed = ((pc = "disclose" => Amends) /\ Named) BY DEF Disclosed, AtEnd
  <1>2. Disclosed' = (((pc = "disclose")' => Amends') /\ Named') BY DEF Disclosed, AtEnd
  <1>3. (pc = "disclose")' => Amends'
    <2>1. CASE UNCHANGED vars BY <2>1, <1>1 DEF vars, Uncovered
    <2>2. Next /\ pc' = "disclose" => finished \/ exhausted \/ sweep_durable_steps
      BY DEF Next, Step, NativeStep, ChildStep, PostStep, Fault, report_running, Started, FirstStep,
         before_turn, llm_replay, llm_live, Answered, reads_replay, reads_live, ReadsReturn,
         call_batched, call_replay, call_live, ToolReturns, Stepping, Dispatching, aborted, bounced,
         keeps_going, Settle, NextTurn, post_disclosure, post_disclosure_fails, spawn, prompt,
         tool_before, tools_call, tool_after, CycleStep, on_cycle_aborts, on_cycle_accepts,
         on_cycle_exhausts, on_cycle_prompts, Resolve, clear_findings, set_review_summary,
         keep_summary, finalize_review, report_error, report_running_unsure, crash, job_deadline,
         context_fills, llm_unjournaled, llm_transient, llm_overflow, llm_fatal, TurnLost,
         reads_unjournaled, call_unjournaled, call_dies, call_refused, call_unanswered,
         call_unbuffered, spawn_fails, reader_loop_ends, tools_call_refused, tools_call_unanswered,
         tools_call_unbuffered, clear_findings_fails, set_review_summary_fails, finalize_review_fails
    <2>3. CASE finished
      <3>1. /\ outcome' = "finished" /\ gates' = disclose(Ruled(AfterTurn, turn, MaxTurns))
            /\ pc = "tools" /\ Requested(results, "finish")
        BY <2>3 DEF finished, Settle, TurnOver
      <3>2. gates'.amended = (Uncovered(gates') # {}) BY <3>1, FinishHasVerdict
      <3> QED BY <3>1, <3>2 DEF Uncovered
    <2>4. CASE exhausted BY <2>4 DEF exhausted, Settle
    <2>5. CASE sweep_durable_steps BY <2>5, <1>1 DEF sweep_durable_steps, Uncovered
    <2> QED BY <2>1, <2>2, <2>3, <2>4, <2>5
  <1>4. Named'
    <2>1. SUFFICES ASSUME world.host = "native", pc' \in AtEnd, outcome' = "finished",
                          Uncovered(gates') # {}, "undisclosed" \notin faults'
                   PROVE  summary' = "disclosed"
      BY <1>0 DEF Uncovered
    <2>2. "undisclosed" \notin faults BY <2>1, FaultsGrow
    <2>3. CASE UNCHANGED vars BY <2>1, <2>2, <2>3, <1>1 DEF vars, Uncovered
    <2>4. CASE PostStep \/ clear_findings_fails \/ set_review_summary_fails
      <3>1. /\ pc \in AtEnd /\ UNCHANGED <<outcome, gates>>
            /\ outcome = "finished" => UNCHANGED summary
        BY <2>4 DEF PostStep, clear_findings, set_review_summary, keep_summary, finalize_review,
           report_error, clear_findings_fails, set_review_summary_fails, PostOnly, OwnSummary,
           Summarising, AtEnd
      <3> QED BY <2>1, <2>2, <3>1, <1>1 DEF Uncovered
    <2>5. CASE sweep_durable_steps
      BY <2>1, <2>2, <2>5, <1>1 DEF sweep_durable_steps, Uncovered
    <2>6. CASE post_disclosure
      BY <2>1, <2>6, <1>1 DEF post_disclosure, Uncovered
    <2>7. CASE post_disclosure_fails BY <2>1, <2>7 DEF post_disclosure_fails, Note
    <2>8. ~ (on_cycle_accepts \/ on_cycle_exhausts)
      BY <2>1 DEF on_cycle_accepts, on_cycle_exhausts, CycleOver, HostPlaces
    <2> QED BY <2>1, <2>3, <2>4, <2>5, <2>6, <2>7, <2>8, EndFrame
  <1> QED BY <1>2, <1>3, <1>4

\* An abort has cleared the buffer before it writes its reason.
LEMMA InvAborted ==
  ASSUME Aborted, [Next]_vars PROVE Aborted'
  <1>0. faults \subseteq faults' BY FaultsGrow
  <1>1. CASE UNCHANGED vars BY <1>1 DEF vars, Aborted
  <1>2. CASE pc' \notin AtEnd BY <1>2 DEF Aborted, AtEnd
  <1>3. CASE PostStep
    BY <1>0, <1>3 DEF PostStep, clear_findings, set_review_summary, keep_summary, finalize_review,
       report_error, PostOnly, OwnSummary, Summarising, Aborted
  <1>4. CASE clear_findings_fails BY <1>4 DEF clear_findings_fails, Note, PostOnly, Aborted
  <1>5. CASE set_review_summary_fails
    BY <1>0, <1>5 DEF set_review_summary_fails, Note, PostOnly, Summarising, OwnSummary, Aborted
  <1>6. CASE sweep_durable_steps BY <1>0, <1>6 DEF sweep_durable_steps, Aborted
  <1>7. CASE pc' = "post" BY <1>7 DEF Aborted
  <1>8. post_disclosure \/ post_disclosure_fails \/ on_cycle_accepts \/ on_cycle_exhausts => pc' = "post"
    BY DEF post_disclosure, post_disclosure_fails, on_cycle_accepts, on_cycle_exhausts, Resolve
  <1> QED BY <1>1, <1>2, <1>3, <1>4, <1>5, <1>6, <1>7, <1>8, EndFrame

----------------------------------------------------------------------------
(* The recorder hears what the child does. *)

\* Appending to a sequence keeps its elements and adds the new one.
LEMMA AppendedRange ==
  ASSUME NEW S, NEW s \in Seq(S), NEW e \in S
  PROVE  Range(s) \subseteq Range(Append(s, e)) /\ e \in Range(Append(s, e))
  <1>1. /\ Len(s) \in Nat /\ DOMAIN s = 1 .. Len(s) /\ DOMAIN Append(s, e) = 1 .. Len(s) + 1
        /\ \A k \in 1 .. Len(s) : Append(s, e)[k] = s[k]
        /\ Append(s, e)[Len(s) + 1] = e
    OBVIOUS
  <1> QED BY <1>1 DEF Range

\* A call that has begun is in the recorder, unless an append was swallowed.
LEMMA InvOverheard ==
  ASSUME Overheard, RecorderOK, AnswerOK, WorldOK, [Next]_vars PROVE Overheard'
  <1> DEFINE Kept == [kind : {"before", "after"}, at : Nat, res : Words]
  <1>0. faults \subseteq faults' BY FaultsGrow
  <1>1. CASE UNCHANGED vars BY <1>1 DEF vars, Overheard, Heard
  <1>2. CASE pc' # "cycle" BY <1>2 DEF Overheard
  <1>3. CASE prompt
    <2>1. PICK calls \in Scripts[world.llm] :
            script' = calls /\ stage' = [i \in 1 .. Len(calls) |-> "todo"]
      BY <1>3, Zenon DEF prompt
    <2>2. calls \in Seq(Calls) BY ScriptAssumption DEF WorldOK
    <2>3. DOMAIN stage' = DOMAIN script' BY <2>1, <2>2
    <2>4. \A i \in DOMAIN stage' : stage'[i] = "todo" BY <2>1
    <2> QED BY <2>3, <2>4 DEF Overheard
  <1>4. ASSUME NEW i \in DOMAIN stage, NEW next, CycleStep(i, next), UNCHANGED recorder,
               next \in {"ok", "error"}, stage[i] = "begun"
        PROVE  Overheard'
    BY <1>0, <1>4 DEF CycleStep, Overheard, Heard
  <1>5. ASSUME NEW i \in DOMAIN stage, NEW next, NEW line \in Kept, CycleStep(i, next), record(line),
               stage[i] = "todo" => line.kind = "before" /\ line.at = i
        PROVE  Overheard'
    <2>1. /\ pc = "cycle" /\ UNCHANGED <<pc, script>> /\ stage' = [stage EXCEPT ![i] = next]
      BY <1>5 DEF CycleStep
    <2>2. "swallow" \in faults' \/ recorder' = [recorder EXCEPT !.lines = Append(@, line)]
      BY <1>5 DEF record, Note
    <2>3. recorder.lines \in Seq(Kept) /\ DOMAIN recorder = {"lines", "before"} BY DEF RecorderOK
    <2>4. \/ "swallow" \in faults'
          \/ Range(recorder.lines) \subseteq Range(recorder'.lines) /\ line \in Range(recorder'.lines)
      <3>1. Range(recorder.lines) \subseteq Range(Append(recorder.lines, line))
            /\ line \in Range(Append(recorder.lines, line))
        BY <2>3, AppendedRange
      <3> QED BY <2>2, <2>3, <3>1
    <2>5. \A j \in DOMAIN stage' : stage'[j] # "todo" => "swallow" \in faults' \/ Heard("before", j, recorder'.lines)
      BY <1>0, <1>5, <2>1, <2>4 DEF Overheard, Heard
    <2> QED BY <2>1, <2>5 DEF Overheard, Heard
  <1>6. ASSUME NEW i \in DOMAIN stage, tool_before(i) \/ tool_after(i) PROVE Overheard'
    <2>1. i \in Nat BY <1>6 DEF Overheard, AnswerOK, tool_before, tool_after
    <2>2. CASE tool_before(i)
      <3>1. Line("before", i, "none") \in Kept /\ Line("before", i, "none").kind = "before"
            /\ Line("before", i, "none").at = i
        BY <2>1 DEF Line, Words
      <3> QED BY <1>5, <2>2, <3>1 DEF tool_before
    <2>3. CASE tool_after(i)
      <3>1. stage[i] \in {"ok", "error"} /\ Line("after", i, stage[i]) \in Kept
        BY <2>1, <2>3 DEF Line, Words, tool_after
      <3> QED BY <1>5, <2>3, <3>1 DEF tool_after
    <2> QED BY <1>6, <2>2, <2>3
  <1>7. ASSUME NEW i \in DOMAIN stage,
               \/ tools_call(i) \/ tools_call_refused(i) \/ tools_call_unanswered(i)
               \/ tools_call_unbuffered(i)
        PROVE  Overheard'
    BY <1>4, <1>7 DEF tools_call, tools_call_refused, tools_call_unanswered, tools_call_unbuffered
  <1>8. CASE sweep_durable_steps BY <1>0, <1>8 DEF sweep_durable_steps, Overheard, Heard
  <1>9. Next /\ pc' = "cycle" =>
          \/ prompt \/ sweep_durable_steps
          \/ \E i \in DOMAIN stage :
               \/ tool_before(i) \/ tool_after(i) \/ tools_call(i) \/ tools_call_refused(i)
               \/ tools_call_unanswered(i) \/ tools_call_unbuffered(i)
    BY DEF Next, Step, NativeStep, ChildStep, PostStep, Fault, report_running, Started, FirstStep,
       before_turn, llm_replay, llm_live, Answered, reads_replay, reads_live, ReadsReturn,
       call_batched, call_replay, call_live, ToolReturns, Stepping, Dispatching, aborted, finished,
       bounced, keeps_going, exhausted, Settle, NextTurn, post_disclosure, post_disclosure_fails,
       spawn, on_cycle_aborts, on_cycle_accepts, on_cycle_exhausts, on_cycle_prompts, Resolve,
       clear_findings, set_review_summary, keep_summary, finalize_review, report_error,
       report_running_unsure, crash, job_deadline, context_fills, llm_unjournaled, llm_transient, llm_overflow,
       llm_fatal, TurnLost, reads_unjournaled, call_unjournaled, call_dies, call_refused,
       call_unanswered, call_unbuffered, spawn_fails, reader_loop_ends, clear_findings_fails,
       set_review_summary_fails, finalize_review_fails
  <1> QED BY <1>1, <1>2, <1>3, <1>6, <1>7, <1>8, <1>9

\* Below its cap, a read of the recorder shows every line.
LEMMA UncappedRead ==
  ASSUME RecorderOK, recorder.before + Len(recorder.lines) <= RecorderCap
  PROVE  Range(read_recorder_capped) = Range(recorder.lines)
  <1> DEFINE s == recorder.lines
  <1>1. /\ s \in Seq([kind : {"before", "after"}, at : Nat, res : Words])
        /\ recorder.before \in Nat /\ RecorderCap \in Nat /\ Len(s) \in Nat
    BY LimitAssumption DEF RecorderOK
  <1>2. Len(s) <= RecorderCap - recorder.before BY <1>1
  <1>3. Smaller(Len(s), Bigger(RecorderCap - recorder.before, 0)) = Len(s)
    BY <1>1, <1>2 DEF Smaller, Bigger
  <1>4. read_recorder_capped = SubSeq(s, 1, Len(s)) BY <1>3 DEF read_recorder_capped
  <1> HIDE DEF s
  <1>5. SubSeq(s, 1, Len(s)) = s BY <1>1
  <1> QED BY <1>4, <1>5 DEF s

\* A prompt after a finish says that a gate bounced it.
LEMMA InvHeard ==
  ASSUME FinishIsHeard, Overheard, RecorderOK, AnswerOK, GatesOK, ControlOK, TurnsLeft, [Next]_vars
  PROVE  FinishIsHeard'
  <1> DEFINE Bounced == gates.bounces > 0 \/ gates.bounced \/ gates.anchored
  <1>0. faults \subseteq faults' BY FaultsGrow
  <1>1. CASE UNCHANGED vars BY <1>1 DEF vars, FinishIsHeard
  <1>2. CASE pc' # "prompt" BY <1>2 DEF FinishIsHeard
  <1>3. CASE sweep_durable_steps BY <1>3 DEF sweep_durable_steps, Note, FinishIsHeard
  <1>4. CASE spawn
    <2>1. turn' = 0 BY <1>4 DEF spawn, TurnsLeft
    <2> QED BY <2>1 DEF FinishIsHeard
  <1>5. CASE on_cycle_prompts
    <2>1. SUFFICES ASSUME faults' = {}, recorder'.before <= RecorderCap,
                          \E i \in DOMAIN script : script[i].tool = "finish"
                   PROVE  Bounced'
      BY <1>5 DEF on_cycle_prompts, FinishIsHeard
    <2>2. PICK i \in DOMAIN script : script[i].tool = "finish" BY <2>1
    <2>3. Heard("before", i, recorder.lines)
      BY <1>0, <1>5, <2>1, <2>2 DEF Overheard, on_cycle_prompts, CycleOver
    <2>4. recorder.before + Len(recorder.lines) <= RecorderCap
      BY <1>5, <2>1 DEF on_cycle_prompts, NextRecorder
    <2>5. Heard("before", i, read_recorder_capped) BY <2>3, <2>4, UncappedRead DEF Heard
    <2>6. i \in DOMAIN cycle_turn_outcome /\ cycle_turn_outcome[i].res = "finish"
      BY <2>2, <2>5 DEF cycle_turn_outcome, Counted, cycle_result, Result
    <2>7. Asked BY <2>6 DEF Asked, Requested
    <2>8. /\ Rejected(Observed, turn, MaxTurns) /\ gates' = Ruled(Observed, turn, MaxTurns)
      BY <1>5, <2>7 DEF on_cycle_prompts, Unaccepted
    <2>9. /\ DOMAIN Observed = DOMAIN NewGates /\ Observed.bounces = gates.bounces
          /\ gates.bounces \in Nat
      BY ObserveFields DEF Observed, GatesOK
    <2>10. /\ gates'.bounces = (IF coverage_rejects(Observed, turn, MaxTurns)
                                THEN gates.bounces + 1 ELSE gates.bounces)
           /\ gates'.bounced = (Observed.bounced \/ refute_rejects(Observed))
           /\ gates'.anchored = (Observed.anchored \/ sast_rejects(Observed))
      BY <2>8, <2>9, RuledFields
    <2>11. \/ coverage_rejects(Observed, turn, MaxTurns) \/ refute_rejects(Observed)
           \/ sast_rejects(Observed)
      BY <2>8 DEF Rejected
    <2>12. coverage_rejects(Observed, turn, MaxTurns) => gates'.bounces > 0 BY <2>9, <2>10
    <2> QED BY <2>10, <2>11, <2>12
  <1>6. Next /\ pc' = "prompt" => spawn \/ sweep_durable_steps \/ on_cycle_prompts
    BY DEF Next, Step, NativeStep, ChildStep, PostStep, Fault, report_running, Started, FirstStep,
       before_turn, llm_replay, llm_live, Answered, reads_replay, reads_live, ReadsReturn,
       call_batched, call_replay, call_live, ToolReturns, Stepping, Dispatching, aborted, finished,
       bounced, keeps_going, exhausted, Settle, NextTurn, post_disclosure, post_disclosure_fails,
       prompt, tool_before, tool_after, tools_call, CycleStep, on_cycle_aborts, on_cycle_accepts,
       on_cycle_exhausts, Resolve, clear_findings, set_review_summary, keep_summary, finalize_review,
       report_error, report_running_unsure, crash, job_deadline, context_fills, llm_unjournaled, llm_transient,
       llm_overflow, llm_fatal, TurnLost, reads_unjournaled, call_unjournaled, call_dies,
       call_refused, call_unanswered, call_unbuffered, spawn_fails, reader_loop_ends,
       tools_call_refused, tools_call_unanswered, tools_call_unbuffered, clear_findings_fails,
       set_review_summary_fails, finalize_review_fails
  <1> QED BY <1>1, <1>2, <1>3, <1>4, <1>5, <1>6

----------------------------------------------------------------------------
(* The theorems. *)

\* A run starts in the invariant.
LEMMA InitInv ==
  ASSUME Init PROVE Inv
  <1>1. WorldOK BY WorldAssumption DEF Init, WorldOK
  <1>2. ControlOK BY LimitAssumption DEF Init, ControlOK, Bigger
  <1>3. AnswerOK
    <2>1. 0 \in 0 .. MaxAttempts BY LimitAssumption
    <2> QED BY <2>1 DEF Init, AnswerOK, NoAnswer
  <1>4. GatesOK BY LimitAssumption DEF Init, GatesOK, NewGates
  <1>5. JournalOK BY DEF Init, JournalOK, NoJournal
  <1>6. RecorderOK BY DEF Init, RecorderOK
  <1>7. PlaneOK BY DEF Init, PlaneOK, EmptyBuffer
  <1>8. HostPlaces /\ TurnsLeft BY DEF Init, HostPlaces, TurnsLeft
  <1>9. Dated /\ OneAnswer /\ FinishRows /\ HonestResults
    BY DEF Init, NoJournal, NoAnswer, Dated, OneAnswer, FinishRows, HonestResults, InTurn
  <1>10. Disclosed /\ Aborted /\ Overheard /\ FinishIsHeard
    BY DEF Init, Disclosed, Aborted, Overheard, FinishIsHeard
  <1> QED BY <1>1, <1>2, <1>3, <1>4, <1>5, <1>6, <1>7, <1>8, <1>9, <1>10 DEF Init, Inv, TypeOK

\* Every step keeps it.
LEMMA NextInv ==
  ASSUME Inv, [Next]_vars PROVE Inv'
  <1> USE DEF Inv, TypeOK
  <1>1. WorldOK' BY WorldFixed
  <1>2. ControlOK' /\ HostPlaces' /\ TurnsLeft' BY InvControl
  <1>3. AnswerOK' BY InvAnswer
  <1>4. GatesOK' BY InvGates
  <1>5. JournalOK' BY InvJournal
  <1>6. RecorderOK' BY InvRecorder
  <1>7. PlaneOK' BY InvPlane
  <1>8. (outcome \in {"none", "finished", "exhausted", "aborted", "error"})' BY InvOutcome DEF Outcomes
  <1>9. Dated' /\ OneAnswer' /\ FinishRows' /\ HonestResults' BY <1>2, InvRows
  <1>10. Disclosed' BY InvDisclosed
  <1>11. Aborted' BY InvAborted
  <1>12. Overheard' BY InvOverheard
  <1>13. FinishIsHeard' BY InvHeard
  <1> QED BY <1>1, <1>2, <1>3, <1>4, <1>5, <1>6, <1>7, <1>8, <1>9, <1>10, <1>11, <1>12, <1>13

\* Whatever the model answers and the faults strike, the invariant holds: the journal of a
\* resumed run matches answers, calls and verdicts by their ids (agent-loop/src/loop_driver.rs).
THEOREM ReviewInvariant == Spec => []Inv
  <1>1. Init => Inv BY InitInv
  <1>2. Inv /\ [Next]_vars => Inv' BY NextInv
  <1> QED BY <1>1, <1>2, PTL DEF Spec

\* Every variable holds a value the code could hold.
THEOREM ReviewTypes == Spec => []TypeOK
  <1>1. Inv => TypeOK BY DEF Inv
  <1> QED BY <1>1, ReviewInvariant, PTL

\* A finished native review that leaves a changed file unopened says so in its summary, across
\* crashes, replays and swept journals, unless the control plane refused the note
\* (review-agent/src/policies/coverage.rs).
THEOREM GapsDisclosed == Spec => []GapsAreDisclosed
  <1>1. Inv => GapsAreDisclosed
    BY DEF Inv, Disclosed, GapsAreDisclosed, GapsAreNamed, Posted
  <1> QED BY <1>1, ReviewInvariant, PTL

\* The OpenCode host never goes on prompting a child that finished, unless a gate bounced the
\* finish or the recorder outgrew its cap (opencode-host/src/recorder.rs).
THEOREM FinishesAreHeard == Spec => []FinishIsHeard
  <1>1. Inv => FinishIsHeard BY DEF Inv
  <1> QED BY <1>1, ReviewInvariant, PTL

\* An aborted run posts its reason and none of its findings, on both hosts and whichever pod
\* ends it (agent-runner/src/run.rs finalize_review_outcome).
THEOREM AbortsPostOnlyReasons == Spec => []AbortPostsOnlyReason
  <1>1. Inv => AbortPostsOnlyReason
    BY DEF Inv, Aborted, AbortPostsOnlyReason, AbortIsClean, Posted
  <1> QED BY <1>1, ReviewInvariant, PTL

----------------------------------------------------------------------------
(* What a resumed run knows.  A run under the journal is a chain of places  *)
(* of the loop; every pod walks along it from its start, and only a pod at  *)
(* its end does anything new.                                               *)

\* No write escaped the host.
Unharmed ==
    /\ faults \cap {"gap", "journal", "ttl", "unanswered", "told", "unbuffered", "swallow"} = {}
    /\ ~ ({"died", "refused"} \subseteq faults)

LoopPlaces == {"turn", "asking", "reads", "tools"}
EndPlaces  == {"disclose", "post", "summary", "finalize"}

\* A place of the loop: where it is, and what the run knows there.
At(p, t, g, b, calls, a, rs) ==
    [pc |-> p, turn |-> t, gates |-> g, believed |-> b, script |-> calls, answer |-> a, results |-> rs]

Here  == At(pc, turn, gates, believed, script, answer, results)
First == At("turn", 0, NewGates, Nothing, <<>>, NoAnswer, <<>>)

Switched(g)   == [g EXCEPT !.force = FALSE, !.suppress = FALSE]
Judged(g, rs) == Observe(Scratchpad(g, rs), rs)

\* What a turn that does not end the loop makes of the gates.
Carried(g, rs, t) ==
    IF Requested(rs, "finish") THEN Ruled(Judged(g, rs), t, MaxTurns) ELSE Judged(g, rs)

IdAt(a)       == <<a.turn, a.answer.by, Len(a.results) + 1>>
CallAt(a)     == a.script[Len(a.results) + 1]
Midway(a)     == a.pc = "tools" /\ Len(a.results) + 1 <= Len(a.script)
Over(a)       == a.pc = "tools" /\ ~ Midway(a)
Told(b, r)    == Believe(b, <<r>>)

\* The places before and after a turn, an answer, a batch of reads, a call and a turn's end.
ToTurn(a, b) ==
    /\ a.pc = "turn" /\ a.turn < MaxTurns
    /\ b = At("asking", a.turn, Switched(a.gates), a.believed, a.script, a.answer, a.results)

Answering(a, b, calls, by) ==
    b = At(IF calls = <<>> THEN "turn" ELSE IF Places(calls, ReadTools) = {} THEN "tools" ELSE "reads",
           IF calls = <<>> THEN a.turn + 1 ELSE a.turn,
           a.gates, a.believed, calls, [by |-> by, batch |-> {}], <<>>)

Batching(a, b, batch) ==
    b = At("tools", a.turn, a.gates, a.believed, a.script, [a.answer EXCEPT !.batch = batch], a.results)

Returning(a, b, word) ==
    b = At("tools", a.turn, a.gates, Told(a.believed, Result(CallAt(a), word)), a.script, a.answer,
           Append(a.results, Result(CallAt(a), word)))

Turning(a, b) ==
    /\ Over(a) /\ ~ Requested(a.results, "abort")
    /\ Requested(a.results, "finish") => Rejected(Judged(a.gates, a.results), a.turn, MaxTurns)
    /\ b = At("turn", a.turn + 1, Carried(a.gates, a.results, a.turn), a.believed, a.script,
              a.answer, a.results)

\* The step from a place to the next, as far as the journal has it.
Link(a, b) ==
    \/ ToTurn(a, b)
    \/ a.pc = "asking" /\ \E row \in journal.llm : row[1] = a.turn /\ Answering(a, b, row[2], row[3])
    \/ a.pc = "reads" /\ \E row \in journal.reads : row[1] = a.turn /\ Batching(a, b, row[2])
    \/ Midway(a) /\ Len(a.results) + 1 \in a.answer.batch /\ Returning(a, b, "read")
    \/ Midway(a) /\ Len(a.results) + 1 \notin a.answer.batch
         /\ \E row \in journal.write : row[1] = IdAt(a) /\ Returning(a, b, row[2])
    \/ Turning(a, b)

\* The chain of a run; without the journal a pod has a chain of its own.
Chain(n, s) ==
    /\ n \in Nat
    /\ world.durable => s[0] = First /\ \A i \in 0 .. n - 1 : Link(s[i], s[i + 1])
    /\ ~ world.durable => n = 0

\* No row of the journal and no reply is ahead of a place.
Newest(a) ==
    /\ \A row \in journal.llm : row[1] <= a.turn /\ (row[1] = a.turn => a.pc \notin {"turn", "asking"})
    /\ \A row \in journal.reads : row[1] <= a.turn /\ (row[1] = a.turn => a.pc = "tools")
    /\ \A row \in journal.write :
         row[1][1] <= a.turn /\ (row[1][1] = a.turn => a.pc = "tools" /\ row[1][3] <= Len(a.results))

Behind(id, a) == id[1] <= a.turn /\ (id[1] = a.turn => a.pc = "tools" /\ id[3] <= Len(a.results))

\* The plane has what b says; a run that started over may have less.
Shows(b) ==
    /\ \A l \in Locs : buffer[l] = b.held[l] \/ ("fresh" \in faults /\ buffer[l] = "none")
    /\ IsFiniteSet(replies)
    /\ "fresh" \notin faults => Cardinality(replies) = b.said

\* A call whose effect is there, and that has not returned.
Pending(a) ==
    /\ "died" \in faults /\ Midway(a) /\ Len(a.results) + 1 \notin a.answer.batch
    /\ Shows(Told(a.believed, Result(CallAt(a), Answer(CallAt(a)))))
    /\ \A id \in replies : Behind(id, a) \/ id = IdAt(a)
    /\ "fresh" \notin faults /\ CallAt(a).tool = "reply" => IdAt(a) \in replies

Aborting(a) == Over(a) /\ Requested(a.results, "abort")

\* What the plane has at the end of the chain.
Holds(a) ==
    \/ Shows(a.believed) /\ \A id \in replies : Behind(id, a)
    \/ Pending(a)
    \/ Aborting(a)

\* There is a chain of places; a pod in the loop is on it, and its end holds.
History ==
    \E n, s :
        /\ Chain(n, s) /\ Newest(s[n]) /\ Holds(s[n])
        /\ pc \in LoopPlaces => \E m \in 0 .. n : Here = s[m]
        /\ pc \in EndPlaces /\ outcome = "aborted" => Aborting(s[n])

\* A stored step has one row; nothing is stored without the journal.
OneRow ==
    /\ \A r, s \in journal.reads : r[1] = s[1] => r = s
    /\ \A r, s \in journal.write : r[1] = s[1] => r = s
    /\ ~ world.durable => journal = NoJournal

\* What the host knows is a finding per location and a number of replies.
HeldOK ==
    /\ believed = [held |-> [l \in Locs |-> believed.held[l]], said |-> believed.said]
    /\ believed.said \in Nat

\* Between the start of a run and its end.
Remembered ==
    Unharmed /\ world.host = "native" /\ pc \notin {"ended", "failed"}
      /\ (pc = "start" => journal # NoJournal) => History

\* A run that ends posts what its last pod knows.
Agreed ==
    Unharmed /\ world.host = "native" /\ pc \in EndPlaces \cup {"ended"}
      /\ outcome \in {"finished", "exhausted"} => Shows(believed)

\* What the conversation says after one result.
LEMMA ToldFields ==
  ASSUME NEW b, NEW call, NEW word
  PROVE  Told(b, Result(call, word)) =
           [held |-> [l \in Locs |-> IF l = call.at /\ call.tool \in {"add", "sast", "retract"} /\ word \in {"ok", "told"}
                                     THEN Left(call) ELSE b.held[l]],
            said |-> b.said + (IF call.tool = "reply" /\ word = "ok" THEN 1 ELSE 0)]
  <1> DEFINE r == Result(call, word)
             rs == <<r>>
  <1>1. DOMAIN rs = {1} /\ rs[1] = r /\ r.call = call /\ r.res = word BY DEF Result
  <1> HIDE DEF rs, r
  <1>2. ASSUME NEW l \in Locs
        PROVE  LET own == {k \in DOMAIN rs : rs[k].call.at = l /\ Tells(rs[k])}
               IN (IF own = {} THEN b.held[l]
                   ELSE Left(rs[CHOOSE k \in own : \A j \in own : j <= k].call))
               = IF l = call.at /\ call.tool \in {"add", "sast", "retract"} /\ word \in {"ok", "told"}
                 THEN Left(call) ELSE b.held[l]
    <2> DEFINE own == {k \in DOMAIN rs : rs[k].call.at = l /\ Tells(rs[k])}
    <2>1. CASE call.at = l /\ Tells(r)
      <3>1. own = {1} BY <1>1, <2>1
      <3>2. (CHOOSE k \in {1} : \A j \in {1} : j <= k) = 1 OBVIOUS
      <3> HIDE DEF own
      <3>3. (CHOOSE k \in own : \A j \in own : j <= k) = 1 BY <3>1, <3>2
      <3> QED BY <1>1, <2>1, <3>1, <3>3 DEF Tells
    <2>2. CASE ~ (call.at = l /\ Tells(r))
      <3>1. own = {} BY <1>1, <2>2
      <3> QED BY <1>1, <2>2, <3>1 DEF Tells
    <2> QED BY <2>1, <2>2
  <1>3. Cardinality({k \in DOMAIN rs : Done(rs, k, "reply")})
          = IF call.tool = "reply" /\ word = "ok" THEN 1 ELSE 0
    <2>1. CASE call.tool = "reply" /\ word = "ok"
      <3>1. {k \in DOMAIN rs : Done(rs, k, "reply")} = {1} BY <1>1, <2>1 DEF Done
      <3> QED BY <2>1, <3>1, FS_Singleton
    <2>2. CASE ~ (call.tool = "reply" /\ word = "ok")
      <3>1. {k \in DOMAIN rs : Done(rs, k, "reply")} = {} BY <1>1, <2>2 DEF Done
      <3> QED BY <2>2, <3>1, FS_EmptySet
    <2> QED BY <2>1, <2>2
  <1> QED BY <1>2, <1>3 DEF Told, Believe, rs, r

\* What a call does to the plane, and what the conversation says of it.
LEMMA EffectRows ==
  ASSUME PlaneOK, NEW call \in Calls, NEW id, Effect(call, id), NEW b
  PROVE  LET x == Told(b, Result(call, Answer(call)))
         IN  /\ x.held = [l \in Locs |-> IF l = call.at /\ call.tool \in {"add", "sast", "retract"}
                                         THEN Left(call) ELSE b.held[l]]
             /\ x.said = b.said + (IF call.tool = "reply" THEN 1 ELSE 0)
             /\ \A l \in Locs : buffer'[l] = IF l = call.at /\ call.tool \in {"add", "sast", "retract"}
                                             THEN Left(call) ELSE buffer[l]
             /\ replies' = IF call.tool = "reply" THEN replies \cup {id} ELSE replies
  <1>1. LET x == Told(b, Result(call, Answer(call)))
        IN  /\ x.held = [l \in Locs |-> IF l = call.at /\ call.tool \in {"add", "sast", "retract"}
                                        THEN Left(call) ELSE b.held[l]]
            /\ x.said = b.said + (IF call.tool = "reply" THEN 1 ELSE 0)
    <2>1. call.tool \in {"add", "sast", "retract", "reply"} => Answer(call) = "ok" BY DEF Answer
    <2> QED BY <2>1, ToldFields
  <1>2. /\ \A l \in Locs : buffer'[l] = IF l = call.at /\ call.tool \in {"add", "sast", "retract"}
                                        THEN Left(call) ELSE buffer[l]
        /\ replies' = IF call.tool = "reply" THEN replies \cup {id} ELSE replies
    <2>0. call.at \in Locs BY DEF Calls
    <2>1. buffer \in [Locs -> Priorities \cup {"scan", "none"}] BY DEF PlaneOK
    <2>2. buffer' = IF call.tool \in {"add", "sast", "retract"}
                    THEN [buffer EXCEPT ![call.at] = Left(call)] ELSE buffer
      BY DEF Effect, upsert_pending_inline, delete_pending_inline
    <2>3. replies' = IF call.tool = "reply" THEN replies \cup {id} ELSE replies
      BY DEF Effect, add_pending_comment
    <2> QED BY <2>0, <2>1, <2>2, <2>3
  <1> QED BY <1>1, <1>2

\* A call that takes effect for the first time is shown.
LEMMA FirstEffect ==
  ASSUME PlaneOK, NEW call \in Calls, NEW id, Effect(call, id), id \notin replies,
         faults \subseteq faults', "fresh" \in faults' => "fresh" \in faults,
         NEW b, b.said \in Nat, Shows(b)
  PROVE  /\ Shows(Told(b, Result(call, Answer(call))))'
         /\ replies' = IF call.tool = "reply" THEN replies \cup {id} ELSE replies
  <1>1. PICK x : x = Told(b, Result(call, Answer(call))) OBVIOUS
  <1>2. /\ x.held = [l \in Locs |-> IF l = call.at /\ call.tool \in {"add", "sast", "retract"}
                                    THEN Left(call) ELSE b.held[l]]
        /\ x.said = b.said + (IF call.tool = "reply" THEN 1 ELSE 0)
        /\ \A l \in Locs : buffer'[l] = IF l = call.at /\ call.tool \in {"add", "sast", "retract"}
                                        THEN Left(call) ELSE buffer[l]
        /\ replies' = IF call.tool = "reply" THEN replies \cup {id} ELSE replies
    BY <1>1, EffectRows
  <1>3. IsFiniteSet(replies') /\ Cardinality(replies') =
          IF call.tool = "reply" THEN Cardinality(replies) + 1 ELSE Cardinality(replies)
    BY <1>2, FS_AddElement DEF Shows
  <1>4. "fresh" \notin faults' => Cardinality(replies') = x.said BY <1>2, <1>3 DEF Shows
  <1>5. \A l \in Locs : buffer'[l] = x.held[l] \/ ("fresh" \in faults' /\ buffer'[l] = "none")
    BY <1>2 DEF Shows
  <1>6. Shows(x)' BY <1>3, <1>4, <1>5 DEF Shows
  <1> QED BY <1>1, <1>2, <1>6

\* A call that takes effect is shown, for the first time or again.
LEMMA EffectShows ==
  ASSUME Stepping, AnswerOK, ControlOK, PlaneOK, HeldOK, Effect(Current, CallId),
         faults \subseteq faults', "fresh" \in faults' => "fresh" \in faults,
         \/ Shows(believed) /\ \A id \in replies : Behind(id, Here)
         \/ Pending(Here),
         NEW b, b = Told(believed, Result(Current, Answer(Current)))
  PROVE  /\ Shows(b)'
         /\ \A id \in replies' : Behind(id, Here) \/ id = CallId
         /\ Current.tool = "reply" => CallId \in replies'
  <1> DEFINE call == Current
  <1>0. /\ call \in Calls /\ CallId = IdAt(Here) /\ call = CallAt(Here) /\ call.at \in Locs
    <2>1. call \in Calls BY CurrentCall DEF Stepping
    <2> QED BY <2>1 DEF Calls, CallId, IdAt, Here, At, Position, Current, CallAt
  <1>1. /\ b.held = [l \in Locs |-> IF l = call.at /\ call.tool \in {"add", "sast", "retract"}
                                    THEN Left(call) ELSE believed.held[l]]
        /\ \A l \in Locs : buffer'[l] = IF l = call.at /\ call.tool \in {"add", "sast", "retract"}
                                        THEN Left(call) ELSE buffer[l]
        /\ replies' = IF call.tool = "reply" THEN replies \cup {CallId} ELSE replies
    BY <1>0, EffectRows
  <1> HIDE DEF call
  <1>3. CASE Shows(believed) /\ \A id \in replies : Behind(id, Here)
    <2>1. CallId \notin replies
      <3>1. Len(results) \in Nat BY DEF AnswerOK
      <3> QED BY <1>3, <3>1 DEF Behind, CallId, Position, Here, At
    <2>2. Shows(b)' BY <1>0, <1>3, <2>1, FirstEffect DEF HeldOK, call
    <2> QED BY <1>1, <1>3, <2>2 DEF call
  <1>4. CASE Pending(Here)
    <2>0. b = Told(Here.believed, Result(CallAt(Here), Answer(CallAt(Here))))
      BY <1>0 DEF Here, At, call
    <2>1. /\ Shows(b) /\ \A id \in replies : Behind(id, Here) \/ id = CallId
          /\ "fresh" \notin faults /\ call.tool = "reply" => CallId \in replies
      BY <1>0, <1>4, <2>0 DEF Pending
    <2>2. IsFiniteSet(replies') BY <1>1, <2>1, FS_AddElement DEF Shows
    <2>3. "fresh" \notin faults' => replies' = replies
      BY <1>1, <2>1
    <2>4. \A l \in Locs : buffer'[l] = b.held[l] \/ ("fresh" \in faults' /\ buffer'[l] = "none")
      BY <1>1, <2>1 DEF Shows
    <2> QED BY <1>1, <2>1, <2>2, <2>3, <2>4 DEF Shows, call
  <1> QED BY <1>3, <1>4

\* A step that loses no row.
RowsKept ==
    /\ world'.durable = world.durable
    /\ journal.llm \subseteq journal'.llm /\ journal.reads \subseteq journal'.reads
    /\ journal.write \subseteq journal'.write

\* A step that leaves the plane alone.
PlaneKept ==
    /\ UNCHANGED <<buffer, replies>>
    /\ "fresh" \in faults' <=> "fresh" \in faults
    /\ "died" \in faults => "died" \in faults'

\* A link lasts as long as its row.
LEMMA LinkKept ==
  ASSUME RowsKept, NEW a, NEW b, Link(a, b) PROVE Link(a, b)'
  BY DEF RowsKept, Link

\* What the plane has of a place lasts as long as the plane.
LEMMA HoldsKept ==
  ASSUME PlaneKept, NEW a, Holds(a) PROVE Holds(a)'
  <1>1. ASSUME NEW b, Shows(b) PROVE Shows(b)' BY <1>1 DEF PlaneKept, Shows
  <1>2. \A x : Shows(x) => Shows(x)' BY <1>1
  <1> QED BY <1>2 DEF PlaneKept, Holds, Pending

\* A chain grows by one place.
LEMMA Grows ==
  ASSUME NEW n, NEW s, Chain(n, s), RowsKept, NEW b, world.durable => Link(s[n], b)',
         Newest(b)', Holds(b)', Here' = b, pc' \in LoopPlaces
  PROVE  History'
  <1>1. n \in Nat BY DEF Chain
  <1>2. CASE world.durable
    <2> DEFINE t == [i \in 0 .. n + 1 |-> IF i = n + 1 THEN b ELSE s[i]]
    <2>1. /\ t[n + 1] = b /\ \A i \in 0 .. n : t[i] = s[i]
          /\ n + 1 \in Nat /\ n + 1 \in 0 .. n + 1
      BY <1>1
    <2> HIDE DEF t
    <2>2. t[0] = First BY <1>1, <1>2, <2>1 DEF Chain
    <2>3. ASSUME NEW i \in 0 .. n PROVE Link(t[i], t[i + 1])'
      <3>1. CASE i = n BY <1>2, <2>1, <3>1
      <3>2. CASE i # n
        <4>1. i \in 0 .. n - 1 /\ i + 1 \in 0 .. n BY <1>1, <3>2
        <4>2. Link(s[i], s[i + 1]) BY <1>2, <4>1 DEF Chain
        <4>3. Link(s[i], s[i + 1])' BY <4>2, LinkKept
        <4> QED BY <2>1, <4>1, <4>3
      <3> QED BY <3>1, <3>2
    <2>4. (n + 1) - 1 = n BY <1>1
    <2>5. Chain(n + 1, t)' BY <1>2, <2>1, <2>2, <2>3, <2>4 DEF Chain, RowsKept
    <2>6. pc' \notin EndPlaces BY DEF LoopPlaces, EndPlaces
    <2> QED BY <2>1, <2>5, <2>6 DEF History
  <1>3. CASE ~ world.durable
    <2> DEFINE t == [i \in {0} |-> b]
    <2>1. t[0] = b OBVIOUS
    <2> HIDE DEF t
    <2>2. Chain(0, t)' BY <1>3 DEF Chain, RowsKept
    <2>3. pc' \notin EndPlaces /\ 0 \in 0 .. 0 BY DEF LoopPlaces, EndPlaces
    <2> QED BY <2>1, <2>2, <2>3 DEF History
  <1> QED BY <1>2, <1>3

\* A pod behind the end of its chain has a next place, and a journal.
LEMMA NextOf ==
  ASSUME NEW n, NEW s, Chain(n, s), NEW m \in 0 .. n, Here = s[m], m # n
  PROVE  world.durable /\ m + 1 \in 0 .. n /\ Link(Here, s[m + 1])
  <1>1. n \in Nat /\ n # 0 BY DEF Chain
  <1>2. world.durable BY <1>1 DEF Chain
  <1>3. m \in 0 .. n - 1 /\ m + 1 \in 0 .. n BY <1>1
  <1> QED BY <1>2, <1>3 DEF Chain

\* A step that stays on the chain and adds nothing.
LEMMA Walks ==
  ASSUME NEW n, NEW s, Chain(n, s), Newest(s[n]), Holds(s[n]), UNCHANGED journal,
         world'.durable = world.durable, PlaneKept,
         pc' \in LoopPlaces => \E m \in 0 .. n : Here' = s[m],
         pc' \in EndPlaces /\ outcome' = "aborted" => Aborting(s[n])
  PROVE  History'
  <1>1. RowsKept BY DEF RowsKept
  <1>2. Chain(n, s)'
    <2>1. \A a, b : Link(a, b) => Link(a, b)' BY <1>1, LinkKept
    <2> QED BY <2>1 DEF Chain
  <1>3. Newest(s[n])' BY DEF Newest
  <1>4. Holds(s[n])' BY HoldsKept
  <1> QED BY <1>2, <1>3, <1>4 DEF History

\* Which link a place can have.
LEMMA LinkOf ==
  ASSUME NEW a, NEW b, Link(a, b)
  PROVE  /\ a.pc = "turn" => ToTurn(a, b)
         /\ a.pc = "asking" => \E row \in journal.llm : row[1] = a.turn /\ Answering(a, b, row[2], row[3])
         /\ a.pc = "reads" => \E row \in journal.reads : row[1] = a.turn /\ Batching(a, b, row[2])
         /\ Over(a) => Turning(a, b)
         /\ Midway(a) /\ Len(a.results) + 1 \in a.answer.batch => Returning(a, b, "read")
         /\ Midway(a) /\ Len(a.results) + 1 \notin a.answer.batch =>
              \E row \in journal.write : row[1] = IdAt(a) /\ Returning(a, b, row[2])
         /\ a.pc = "tools" => Over(a) \/ Midway(a)
  BY DEF Link, ToTurn, Turning, Midway, Over

\* The place a pod is at.
LEMMA HereIs ==
  /\ Here.pc = pc /\ Here.turn = turn /\ Here.gates = gates /\ Here.believed = believed
  /\ Here.script = script /\ Here.answer = answer /\ Here.results = results
  BY DEF Here, At

\* No row is ahead of a pod at the end of its chain.
LEMMA NewestHere ==
  ASSUME Newest(Here), JournalOK, ControlOK
  PROVE  /\ turn \in Nat
         /\ \A row \in journal.llm :
              row[1] \in Nat /\ row[1] <= turn /\ (row[1] = turn => pc \notin {"turn", "asking"})
         /\ \A row \in journal.reads : row[1] \in Nat /\ row[1] <= turn /\ (row[1] = turn => pc = "tools")
         /\ \A row \in journal.write :
              /\ row[1][1] \in Nat /\ row[1][3] \in Nat /\ row[1][1] <= turn
              /\ row[1][1] = turn => pc = "tools" /\ row[1][3] <= Len(results)
  <1>1. /\ turn \in Nat /\ \A row \in journal.llm : row[1] \in Nat
        /\ \A row \in journal.reads : row[1] \in Nat
        /\ \A row \in journal.write : row[1][1] \in Nat /\ row[1][3] \in Nat
    BY DEF ControlOK, JournalOK
  <1>2. /\ \A row \in journal.llm : row[1] <= turn /\ (row[1] = turn => pc \notin {"turn", "asking"})
        /\ \A row \in journal.reads : row[1] <= turn /\ (row[1] = turn => pc = "tools")
        /\ \A row \in journal.write : row[1][1] <= turn
             /\ (row[1][1] = turn => pc = "tools" /\ row[1][3] <= Len(results))
    BY HereIs DEF Newest
  <1> QED BY <1>1, <1>2

\* Where no call is under way the plane has what the pod knows.
LEMMA Settles ==
  ASSUME Holds(Here), pc # "tools"
  PROVE  Shows(believed) /\ \A id \in replies : id[1] <= turn /\ id[1] # turn
  BY HereIs DEF Holds, Pending, Aborting, Midway, Over, Behind

\* The same before and after a step that leaves the plane alone.
LEMMA SettledHolds ==
  ASSUME PlaneKept, PlaneOK, ControlOK, Shows(believed), \A id \in replies : id[1] <= turn /\ id[1] # turn,
         NEW b, b.believed = believed, b.turn \in {turn, turn + 1}
  PROVE  Holds(b)'
  <1>1. \A x : Shows(x) => Shows(x)' BY DEF PlaneKept, Shows
  <1>2. Shows(b.believed)' BY <1>1
  <1>3. turn \in Nat /\ \A id \in replies : id[1] \in Nat BY DEF PlaneOK, ControlOK
  <1>4. \A id \in replies : id[1] <= b.turn /\ id[1] # b.turn BY <1>3
  <1>5. replies' = replies BY DEF PlaneKept
  <1> QED BY <1>2, <1>4, <1>5 DEF Holds, Behind

\* Before a turn.
LEMMA TurnStep ==
  ASSUME Inv, History, before_turn PROVE History'
  <1>0. ControlOK /\ PlaneOK BY DEF Inv, TypeOK
  <1>1. PICK n, s : Chain(n, s) /\ Newest(s[n]) /\ Holds(s[n]) /\ \E m \in 0 .. n : Here = s[m]
    BY DEF History, before_turn, LoopPlaces
  <1>2. PICK m \in 0 .. n : Here = s[m] BY <1>1
  <1>3. PICK b : b = At("asking", turn, Switched(gates), believed, script, answer, results) OBVIOUS
  <1>4. /\ Here' = b /\ pc' \in LoopPlaces /\ pc' \notin EndPlaces /\ UNCHANGED journal
        /\ world'.durable = world.durable /\ PlaneKept /\ RowsKept /\ ToTurn(Here, b) /\ pc = "turn"
    BY <1>3, HereIs DEF before_turn, NativeOnly, Here, Switched, ToTurn, LoopPlaces, EndPlaces, PlaneKept, RowsKept
  <1>5. CASE m # n
    <2>1. m + 1 \in 0 .. n /\ ToTurn(Here, s[m + 1])
      BY <1>1, <1>2, <1>4, <1>5, NextOf, LinkOf, HereIs
    <2>2. s[m + 1] = b BY <1>4, <2>1 DEF ToTurn
    <2> QED BY <1>1, <1>4, <2>1, <2>2, Walks
  <1>6. CASE m = n
    <2>1. Link(s[n], b)' BY <1>2, <1>4, <1>6 DEF Link
    <2>2. Newest(b)' BY <1>1, <1>2, <1>3, <1>4, <1>6, HereIs DEF Newest, At
    <2>3. Holds(b)'
      <3>1. b.believed = believed /\ b.turn = turn BY <1>3 DEF At
      <3> QED BY <1>0, <1>1, <1>2, <1>4, <1>6, <3>1, Settles, SettledHolds
    <2> QED BY <1>1, <1>4, <2>1, <2>2, <2>3, Grows
  <1> QED BY <1>5, <1>6

\* An answer is served from the journal.
LEMMA ReplayStep ==
  ASSUME Inv, History, llm_replay PROVE History'
  <1>1. PICK n, s : Chain(n, s) /\ Newest(s[n]) /\ Holds(s[n]) /\ \E m \in 0 .. n : Here = s[m]
    BY DEF History, llm_replay, LoopPlaces
  <1>2. PICK m \in 0 .. n : Here = s[m] BY <1>1
  <1>3. PICK row \in journal.llm : row[1] = turn /\ Answered(row[2], row[3]) BY DEF llm_replay
  <1>4. /\ Answering(Here, Here', row[2], row[3]) /\ pc' \in LoopPlaces /\ pc' \notin EndPlaces
        /\ UNCHANGED journal /\ world'.durable = world.durable /\ PlaneKept /\ pc = "asking"
    BY <1>3, HereIs DEF llm_replay, Answered, NativeOnly, Here, At, Answering, LoopPlaces, EndPlaces, PlaneKept
  <1>5. m # n
    BY <1>1, <1>2, <1>3, <1>4, HereIs DEF Newest
  <1>6. PICK r \in journal.llm : r[1] = turn /\ Answering(Here, s[m + 1], r[2], r[3])
    BY <1>1, <1>2, <1>4, <1>5, NextOf, LinkOf, HereIs
  <1>7. r = row BY <1>3, <1>6 DEF Inv, OneAnswer
  <1>8. s[m + 1] = Here' BY <1>4, <1>6, <1>7 DEF Answering
  <1>9. m + 1 \in 0 .. n BY <1>1, <1>2, <1>5, NextOf
  <1> QED BY <1>1, <1>4, <1>8, <1>9, Walks

\* The model answers.
LEMMA AnswerStep ==
  ASSUME Inv, History, llm_live PROVE History'
  <1>0. ControlOK /\ PlaneOK /\ JournalOK BY DEF Inv, TypeOK
  <1>1. PICK n, s : Chain(n, s) /\ Newest(s[n]) /\ Holds(s[n]) /\ \E m \in 0 .. n : Here = s[m]
    BY DEF History, llm_live, LoopPlaces
  <1>2. PICK m \in 0 .. n : Here = s[m] BY <1>1
  <1>3. PICK calls \in Scripts[world.llm] : Answered(calls, attempt) /\ KeepStep("llm", <<turn, calls, attempt>>)
    BY DEF llm_live
  <1>4. PICK b : b = Here' OBVIOUS
  <1>5. /\ Answering(Here, b, calls, attempt) /\ pc' \in LoopPlaces
        /\ world'.durable = world.durable /\ PlaneKept /\ pc = "asking"
    BY <1>3, <1>4, HereIs DEF llm_live, Answered, NativeOnly, Here, At, Answering, LoopPlaces, PlaneKept
  <1>6. m = n
    <2>1. SUFFICES ASSUME m # n PROVE FALSE OBVIOUS
    <2>2. world.durable /\ \E row \in journal.llm : row[1] = turn
      BY <1>1, <1>2, <1>5, <2>1, NextOf, LinkOf, HereIs
    <2> QED BY <2>2 DEF llm_live, Stored
  <1>7. /\ journal' # journal => world.durable
        /\ journal'.llm = IF world.durable THEN Upserted(journal.llm, <<turn, calls, attempt>>) ELSE journal.llm
        /\ journal'.reads = journal.reads /\ journal'.write = journal.write
    <2>1. DOMAIN journal = {"llm", "reads", "write"} BY <1>0 DEF JournalOK
    <2> QED BY <1>3, <2>1, KeepStepFields DEF KeepStep
  <1>8. RowsKept
    BY <1>5, <1>7 DEF RowsKept, Upserted, llm_live, Stored
  <1>9. world.durable => Link(s[n], b)'
    <2>1. PICK row : row = <<turn, calls, attempt>> OBVIOUS
    <2>2. world.durable => row \in journal'.llm BY <1>7, <2>1 DEF Upserted
    <2>3. row[1] = s[n].turn /\ s[n].pc = "asking" /\ Answering(s[n], b, row[2], row[3])
      BY <1>2, <1>5, <1>6, <2>1, HereIs
    <2> QED BY <2>2, <2>3 DEF Link
  <1>10. Newest(b)'
    <2>1. Newest(Here) BY <1>1, <1>2, <1>6
    <2>2. /\ turn \in Nat
          /\ \A row \in journal.llm : row[1] \in Nat /\ row[1] <= turn /\ row[1] # turn
          /\ \A row \in journal.reads : row[1] \in Nat /\ row[1] <= turn /\ row[1] # turn
          /\ \A row \in journal.write : row[1][1] \in Nat /\ row[1][1] <= turn /\ row[1][1] # turn
      BY <1>0, <1>5, <2>1, NewestHere
    <2>3. \/ b.turn = turn /\ b.pc \notin {"turn", "asking"}
          \/ b.turn = turn + 1
      BY <1>5, HereIs DEF Answering, At
    <2>4. \A row \in journal'.llm : row \in journal.llm \/ row[1] = turn
      BY <1>7 DEF Upserted
    <2>5. \A row \in journal'.llm : row[1] <= b.turn /\ (row[1] = b.turn => b.pc \notin {"turn", "asking"})
      BY <2>2, <2>3, <2>4
    <2>6. /\ \A row \in journal'.reads : row[1] <= b.turn /\ row[1] # b.turn
          /\ \A row \in journal'.write : row[1][1] <= b.turn /\ row[1][1] # b.turn
      BY <1>7, <2>2, <2>3
    <2> QED BY <2>5, <2>6 DEF Newest
  <1>11. Holds(b)'
    <2>1. b.believed = believed /\ b.turn \in {turn, turn + 1} BY <1>5, HereIs DEF Answering, At
    <2> QED BY <1>0, <1>1, <1>2, <1>5, <1>6, <2>1, Settles, SettledHolds
  <1> QED BY <1>1, <1>4, <1>5, <1>8, <1>9, <1>10, <1>11, Grows

\* A batch of reads is served from the journal.
LEMMA BatchReplayStep ==
  ASSUME Inv, OneRow, History, reads_replay PROVE History'
  <1>1. PICK n, s : Chain(n, s) /\ Newest(s[n]) /\ Holds(s[n]) /\ \E m \in 0 .. n : Here = s[m]
    BY DEF History, reads_replay, ReadsReturn, LoopPlaces
  <1>2. PICK m \in 0 .. n : Here = s[m] BY <1>1
  <1>3. PICK row \in journal.reads : row[1] = turn /\ ReadsReturn(row[2]) BY DEF reads_replay
  <1>4. /\ Batching(Here, Here', row[2]) /\ pc' \in LoopPlaces /\ pc' \notin EndPlaces
        /\ UNCHANGED journal /\ world'.durable = world.durable /\ PlaneKept /\ pc = "reads"
    BY <1>3, HereIs DEF reads_replay, ReadsReturn, NativeOnly, Here, At, Batching, LoopPlaces, EndPlaces, PlaneKept
  <1>5. m # n
    BY <1>1, <1>2, <1>3, <1>4, HereIs DEF Newest
  <1>6. PICK r \in journal.reads : r[1] = turn /\ Batching(Here, s[m + 1], r[2])
    BY <1>1, <1>2, <1>4, <1>5, NextOf, LinkOf, HereIs
  <1>7. r = row BY <1>3, <1>6 DEF OneRow
  <1>8. s[m + 1] = Here' BY <1>4, <1>6, <1>7 DEF Batching
  <1>9. m + 1 \in 0 .. n BY <1>1, <1>2, <1>5, NextOf
  <1> QED BY <1>1, <1>4, <1>8, <1>9, Walks

\* A batch of reads returns.
LEMMA BatchStep ==
  ASSUME Inv, History, reads_live PROVE History'
  <1>0. ControlOK /\ PlaneOK /\ JournalOK BY DEF Inv, TypeOK
  <1>1. PICK n, s : Chain(n, s) /\ Newest(s[n]) /\ Holds(s[n]) /\ \E m \in 0 .. n : Here = s[m]
    BY DEF History, reads_live, ReadsReturn, LoopPlaces
  <1>2. PICK m \in 0 .. n : Here = s[m] BY <1>1
  <1>3. PICK batch : batch = Places(script, ReadTools) OBVIOUS
  <1>4. PICK b : b = Here' OBVIOUS
  <1>5. /\ Batching(Here, b, batch) /\ pc' \in LoopPlaces
        /\ world'.durable = world.durable /\ PlaneKept /\ pc = "reads"
    BY <1>3, <1>4, HereIs DEF reads_live, ReadsReturn, NativeOnly, Here, At, Batching, LoopPlaces, PlaneKept
  <1>6. m = n
    <2>1. SUFFICES ASSUME m # n PROVE FALSE OBVIOUS
    <2>2. world.durable /\ \E row \in journal.reads : row[1] = turn
      BY <1>1, <1>2, <1>5, <2>1, NextOf, LinkOf, HereIs
    <2> QED BY <2>2 DEF reads_live, Stored
  <1>7. /\ journal'.reads = IF world.durable THEN Upserted(journal.reads, <<turn, batch>>) ELSE journal.reads
        /\ journal'.llm = journal.llm /\ journal'.write = journal.write
    <2>1. DOMAIN journal = {"llm", "reads", "write"} BY <1>0 DEF JournalOK
    <2>2. KeepStep("reads", <<turn, batch>>) BY <1>3 DEF reads_live
    <2> QED BY <2>1, <2>2, KeepStepFields DEF KeepStep
  <1>8. RowsKept
    BY <1>5, <1>7 DEF RowsKept, Upserted, reads_live, Stored
  <1>9. world.durable => Link(s[n], b)'
    <2>1. PICK row : row = <<turn, batch>> OBVIOUS
    <2>2. world.durable => row \in journal'.reads BY <1>7, <2>1 DEF Upserted
    <2>3. row[1] = s[n].turn /\ s[n].pc = "reads" /\ Batching(s[n], b, row[2])
      BY <1>2, <1>5, <1>6, <2>1, HereIs
    <2> QED BY <2>2, <2>3 DEF Link
  <1>10. b.turn = turn /\ b.pc = "tools" /\ b.believed = believed
    BY <1>5, HereIs DEF Batching, At
  <1>11. Newest(b)'
    <2>1. turn \in Nat BY <1>0 DEF ControlOK
    <2>2. Newest(Here) /\ Here.pc = "reads" /\ Here.turn = turn BY <1>1, <1>2, <1>5, <1>6, HereIs
    <2>3. \A row \in journal'.reads : row \in journal.reads \/ row[1] = turn
      BY <1>7 DEF Upserted
    <2> QED BY <1>7, <1>10, <2>1, <2>2, <2>3 DEF Newest
  <1>12. Holds(b)'
    BY <1>0, <1>1, <1>2, <1>5, <1>6, <1>10, Settles, SettledHolds
  <1> QED BY <1>1, <1>4, <1>5, <1>8, <1>9, <1>11, <1>12, Grows

\* A turn goes over into the next.
LEMMA TurningStep ==
  ASSUME Inv, History, bounced \/ keeps_going PROVE History'
  <1>0. ControlOK /\ PlaneOK /\ AnswerOK /\ JournalOK BY DEF Inv, TypeOK
  <1>1. PICK n, s : Chain(n, s) /\ Newest(s[n]) /\ Holds(s[n]) /\ \E m \in 0 .. n : Here = s[m]
    BY DEF History, bounced, keeps_going, TurnOver, LoopPlaces
  <1>2. PICK m \in 0 .. n : Here = s[m] BY <1>1
  <1>3. PICK b : b = Here' OBVIOUS
  <1>4. Over(Here)
    <2>1. Len(results) \in Nat /\ Len(script) \in Nat BY <1>0 DEF AnswerOK
    <2> QED BY <2>1, HereIs DEF bounced, keeps_going, TurnOver, Position, Over, Midway
  <1>5. /\ Turning(Here, b) /\ pc' \in LoopPlaces /\ pc' \notin EndPlaces /\ UNCHANGED journal
        /\ world'.durable = world.durable /\ PlaneKept /\ RowsKept /\ ~ Requested(results, "abort")
        /\ b.believed = believed /\ b.turn = turn + 1 /\ b.pc = "turn"
    BY <1>3, <1>4, HereIs DEF bounced, keeps_going, NextTurn, NativeOnly, Here, At, Turning, Carried,
       Judged, AfterTurn, LoopPlaces, EndPlaces, PlaneKept, RowsKept
  <1>6. CASE m # n
    <2>1. m + 1 \in 0 .. n /\ Turning(Here, s[m + 1])
      BY <1>1, <1>2, <1>4, <1>6, NextOf, LinkOf
    <2>2. s[m + 1] = b BY <1>5, <2>1 DEF Turning
    <2> QED BY <1>1, <1>3, <1>5, <2>1, <2>2, Walks
  <1>7. CASE m = n
    <2>1. Link(s[n], b)' BY <1>2, <1>5, <1>7 DEF Link
    <2>2. turn \in Nat /\ \A id \in replies : id[1] \in Nat
      BY <1>0 DEF ControlOK, PlaneOK
    <2>3. Newest(b)'
      <3>1. Newest(Here) BY <1>1, <1>2, <1>7
      <3>2. /\ \A row \in journal.llm : row[1] <= b.turn /\ row[1] # b.turn
            /\ \A row \in journal.reads : row[1] <= b.turn /\ row[1] # b.turn
            /\ \A row \in journal.write : row[1][1] <= b.turn /\ row[1][1] # b.turn
        BY <1>0, <1>5, <3>1, NewestHere
      <3> QED BY <1>5, <3>2 DEF Newest
    <2>4. Shows(believed) /\ \A id \in replies : id[1] <= turn
      BY <1>1, <1>2, <1>4, <1>5, <1>7, HereIs DEF Holds, Pending, Over, Aborting, Behind
    <2>5. Holds(b)'
      <3>1. \A x : Shows(x) => Shows(x)' BY <1>5 DEF PlaneKept, Shows
      <3>2. Shows(b.believed)' BY <1>5, <2>4, <3>1
      <3>3. \A id \in replies' : Behind(id, b) BY <1>5, <2>2, <2>4 DEF Behind, PlaneKept
      <3> QED BY <3>2, <3>3 DEF Holds
    <2> QED BY <1>1, <1>3, <1>5, <2>1, <2>3, <2>5, Grows
  <1> QED BY <1>6, <1>7

\* The place after a call has returned.
LEMMA Returned ==
  ASSUME AnswerOK, ControlOK, Dispatching, NEW word, ToolReturns(word), NEW b, b = Here'
  PROVE  /\ Midway(Here) /\ Returning(Here, b, word) /\ pc' \in LoopPlaces /\ pc' \notin EndPlaces
         /\ b.turn = turn /\ b.pc = "tools" /\ Len(results) \in Nat /\ Len(b.results) = Len(results) + 1
         /\ b.believed = Told(believed, Result(Current, word))
         /\ CallAt(Here) = Current /\ IdAt(Here) = CallId /\ Position = Len(Here.results) + 1
         /\ turn \in Nat
  <1>1. Current = CallAt(Here) /\ IdAt(Here) = CallId /\ Position = Len(Here.results) + 1
    BY HereIs DEF Current, CallAt, IdAt, CallId, Position
  <1>2. Midway(Here) BY HereIs DEF Dispatching, Position, Midway
  <1>3. /\ pc' = pc /\ turn' = turn /\ gates' = gates /\ script' = script /\ answer' = answer
        /\ results' = Append(results, Result(Current, word))
        /\ believed' = Told(believed, Result(Current, word))
        /\ pc = "tools"
    BY DEF ToolReturns, Dispatching, Told
  <1>4. b = At("tools", turn, gates, Told(believed, Result(Current, word)), script, answer,
              Append(results, Result(Current, word)))
    BY <1>3 DEF Here, At
  <1>5. Returning(Here, b, word) BY <1>1, <1>4, HereIs DEF Returning
  <1>6. b.turn = turn /\ b.pc = "tools" /\ b.believed = Told(believed, Result(Current, word))
        /\ b.results = Append(results, Result(Current, word))
    BY <1>4 DEF At
  <1>7. Len(results) \in Nat /\ Len(Append(results, Result(Current, word))) = Len(results) + 1
    BY DEF AnswerOK
  <1>8. turn \in Nat BY DEF ControlOK
  <1> QED BY <1>1, <1>2, <1>3, <1>5, <1>6, <1>7, <1>8 DEF LoopPlaces, EndPlaces

\* A call that had no effect and says so.
LEMMA Silent ==
  ASSUME PlaneKept, HeldOK, Shows(believed), NEW word, word \notin {"ok", "told"},
         NEW x, x = Told(believed, Result(Current, word))
  PROVE  Shows(x)'
  <1>1. /\ \A l \in Locs : x.held[l] = believed.held[l]
        /\ x.said = believed.said
    BY ToldFields DEF HeldOK
  <1> QED BY <1>1 DEF Shows, PlaneKept

\* No row is ahead of the place after a call whose row is the newest.
LEMMA NewestReturned ==
  ASSUME JournalOK, ControlOK, Newest(Here), pc = "tools", Len(results) \in Nat,
         journal'.llm = journal.llm, journal'.reads = journal.reads,
         \A row \in journal'.write : row \in journal.write \/ row[1] = CallId,
         NEW b, b.turn = turn, b.pc = "tools", Len(b.results) = Len(results) + 1
  PROVE  Newest(b)'
  <1>1. CallId[1] = turn /\ CallId[3] = Len(results) + 1 BY DEF CallId, Position
  <1>2. \A row \in journal'.llm : row[1] <= b.turn /\ (row[1] = b.turn => b.pc \notin {"turn", "asking"})
    BY NewestHere
  <1>3. \A row \in journal'.reads : row[1] <= b.turn /\ (row[1] = b.turn => b.pc = "tools")
    BY NewestHere
  <1>4. ASSUME NEW row \in journal'.write
        PROVE  row[1][1] <= b.turn /\ (row[1][1] = b.turn => b.pc = "tools" /\ row[1][3] <= Len(b.results))
    <2>1. CASE row \in journal.write BY <2>1, NewestHere
    <2>2. CASE row[1] = CallId
      <3>1. turn \in Nat BY DEF ControlOK
      <3> QED BY <1>1, <2>2, <3>1
    <2> QED BY <2>1, <2>2
  <1> QED BY <1>2, <1>3, <1>4 DEF Newest

\* No reply is ahead of it either.
LEMMA BehindReturned ==
  ASSUME PlaneOK, Len(results) \in Nat, NEW id, id \in replies \/ id = CallId, turn \in Nat,
         Behind(id, Here) \/ id = CallId, pc = "tools",
         NEW b, b.turn = turn, b.pc = "tools", Len(b.results) = Len(results) + 1
  PROVE  Behind(id, b)
  <1>1. CASE id = CallId
    <2>1. id[1] = turn /\ id[3] = Len(results) + 1 BY <1>1 DEF CallId, Position
    <2> QED BY <2>1 DEF Behind
  <1>2. CASE id \in replies /\ Behind(id, Here)
    <2>1. id[3] \in Nat BY <1>2 DEF PlaneOK
    <2>2. id[1] <= turn /\ (id[1] = turn => id[3] <= Len(results)) BY <1>2, HereIs DEF Behind
    <2> QED BY <2>1, <2>2 DEF Behind
  <1> QED BY <1>1, <1>2

\* A place of the batch returns.
LEMMA BatchedStep ==
  ASSUME Inv, HeldOK, History, call_batched PROVE History'
  <1>0. ControlOK /\ PlaneOK /\ AnswerOK /\ JournalOK BY DEF Inv, TypeOK
  <1>1. PICK n, s : Chain(n, s) /\ Newest(s[n]) /\ Holds(s[n]) /\ \E m \in 0 .. n : Here = s[m]
    BY DEF History, call_batched, Dispatching, LoopPlaces
  <1>2. PICK m \in 0 .. n : Here = s[m] BY <1>1
  <1>3. PICK b : b = Here' OBVIOUS
  <1>4. /\ Dispatching /\ Position \in answer.batch /\ ToolReturns("read") /\ pc = "tools"
        /\ UNCHANGED journal /\ world'.durable = world.durable /\ PlaneKept /\ RowsKept
    BY DEF call_batched, Dispatching, PlaneKept, RowsKept
  <1>5. /\ Midway(Here) /\ Returning(Here, b, "read") /\ pc' \in LoopPlaces /\ pc' \notin EndPlaces
        /\ b.turn = turn /\ b.pc = "tools" /\ Len(results) \in Nat /\ Len(b.results) = Len(results) + 1
        /\ b.believed = Told(believed, Result(Current, "read")) /\ turn \in Nat
        /\ Len(Here.results) + 1 \in Here.answer.batch
    BY <1>0, <1>3, <1>4, Returned, HereIs
  <1>6. CASE m # n
    <2>1. m + 1 \in 0 .. n /\ Returning(Here, s[m + 1], "read")
      BY <1>1, <1>2, <1>5, <1>6, NextOf, LinkOf
    <2>2. s[m + 1] = b BY <1>5, <2>1 DEF Returning
    <2> QED BY <1>1, <1>3, <1>4, <1>5, <2>1, <2>2, Walks
  <1>7. CASE m = n
    <2>1. Link(s[n], b)' BY <1>2, <1>5, <1>7 DEF Link
    <2>2. Newest(b)' BY <1>0, <1>1, <1>2, <1>4, <1>5, <1>7, NewestReturned
    <2>3. Shows(believed) /\ \A id \in replies : Behind(id, Here)
      <3>1. Holds(Here) BY <1>1, <1>2, <1>7
      <3> QED BY <1>5, <3>1, HereIs DEF Holds, Pending, Aborting, Over
    <2>4. Shows(b.believed)' BY <1>4, <1>5, <2>3, Silent
    <2>5. \A id \in replies' : Behind(id, b)
      BY <1>0, <1>4, <1>5, <2>3, BehindReturned DEF PlaneKept
    <2> QED BY <1>1, <1>3, <1>4, <1>5, <2>1, <2>2, <2>4, <2>5, Grows DEF Holds
  <1> QED BY <1>6, <1>7

\* A call is served from the journal.
LEMMA CallReplayStep ==
  ASSUME Inv, OneRow, History, Unharmed', call_replay PROVE History'
  <1>0. ControlOK /\ AnswerOK /\ JournalOK BY DEF Inv, TypeOK
  <1>1. PICK n, s : Chain(n, s) /\ Newest(s[n]) /\ Holds(s[n]) /\ \E m \in 0 .. n : Here = s[m]
    BY DEF History, call_replay, Stepping, Dispatching, LoopPlaces
  <1>2. PICK m \in 0 .. n : Here = s[m] BY <1>1
  <1>3. Current.tool # "sast" /\ UNCHANGED faults BY DEF call_replay, Unharmed
  <1>4. PICK row \in journal.write : row[1] = CallId /\ ToolReturns(row[2])
    BY <1>3 DEF call_replay
  <1>5. /\ Dispatching /\ Position \notin answer.batch
        /\ UNCHANGED journal /\ world'.durable = world.durable /\ PlaneKept
    BY <1>3 DEF call_replay, Stepping, PlaneKept
  <1>6. PICK b : b = Here' OBVIOUS
  <1>7. /\ Midway(Here) /\ Returning(Here, b, row[2]) /\ pc' \in LoopPlaces /\ pc' \notin EndPlaces
        /\ Len(Here.results) + 1 \notin Here.answer.batch /\ IdAt(Here) = CallId
        /\ Len(results) \in Nat /\ turn \in Nat
    BY <1>0, <1>4, <1>5, <1>6, Returned, HereIs
  <1>8. m # n
    <2>1. SUFFICES ASSUME m = n PROVE FALSE OBVIOUS
    <2>2. Newest(Here) BY <1>1, <1>2, <2>1
    <2>3. row[1][1] = turn => row[1][3] <= Len(results) BY <1>0, <2>2, NewestHere
    <2>4. row[1][1] = turn /\ row[1][3] = Len(results) + 1 BY <1>4 DEF CallId, Position
    <2> QED BY <1>7, <2>3, <2>4
  <1>9. PICK r \in journal.write : r[1] = CallId /\ Returning(Here, s[m + 1], r[2])
    BY <1>1, <1>2, <1>7, <1>8, NextOf, LinkOf
  <1>10. r = row BY <1>4, <1>9 DEF OneRow
  <1>11. s[m + 1] = b BY <1>7, <1>9, <1>10 DEF Returning
  <1>12. m + 1 \in 0 .. n BY <1>1, <1>2, <1>8, NextOf
  <1> QED BY <1>1, <1>5, <1>6, <1>7, <1>11, <1>12, Walks

\* A call that is carried out is carried out at the end of the chain.
LEMMA LiveAtEnd ==
  ASSUME Inv, Stepping, ~ Written, NEW n, NEW s, Chain(n, s), NEW m \in 0 .. n, Here = s[m]
  PROVE  m = n
  <1>1. SUFFICES ASSUME m # n PROVE FALSE OBVIOUS
  <1>2. Midway(Here) /\ Len(Here.results) + 1 \notin Here.answer.batch /\ IdAt(Here) = CallId
    BY HereIs DEF Stepping, Dispatching, Position, Midway, IdAt, CallId
  <1>3. world.durable /\ \E row \in journal.write : row[1] = CallId
    BY <1>1, <1>2, NextOf, LinkOf
  <1> QED BY <1>3 DEF Written, Stored

\* A call is carried out, or refused.
LEMMA CallStep ==
  ASSUME Inv, HeldOK, History, Unharmed', [Next]_vars, call_live \/ call_refused PROVE History'
  <1>0. ControlOK /\ PlaneOK /\ AnswerOK /\ JournalOK /\ WorldOK BY DEF Inv, TypeOK
  <1>1. PICK n, s : Chain(n, s) /\ Newest(s[n]) /\ Holds(s[n]) /\ \E m \in 0 .. n : Here = s[m]
    BY DEF History, call_live, call_refused, Stepping, Dispatching, LoopPlaces
  <1>2. PICK m \in 0 .. n : Here = s[m] BY <1>1
  <1> DEFINE Live(word) == /\ word = Answer(Current) /\ Effect(Current, CallId) /\ UNCHANGED faults
             Refused(word) == call_refused /\ word = "error"
  <1>3. PICK word : /\ Live(word) \/ Refused(word)
                    /\ ToolReturns(word) /\ KeepStep("write", <<CallId, word>>)
    <2>1. CASE call_live BY <2>1 DEF call_live
    <2>2. CASE call_refused BY <2>2 DEF call_refused
    <2> QED BY <2>1, <2>2
  <1>4. /\ Stepping /\ ~ Written /\ Dispatching /\ Position \notin answer.batch /\ pc = "tools"
        /\ world'.durable = world.durable
    BY <1>0, WorldFixed DEF call_live, call_refused, Stepping, Dispatching
  <1>5. m = n BY <1>1, <1>2, <1>4, LiveAtEnd
  <1>6. PICK b : b = Here' OBVIOUS
  <1>7. /\ Midway(Here) /\ Returning(Here, b, word) /\ pc' \in LoopPlaces /\ pc' \notin EndPlaces
        /\ b.turn = turn /\ b.pc = "tools" /\ Len(results) \in Nat /\ Len(b.results) = Len(results) + 1
        /\ b.believed = Told(believed, Result(Current, word)) /\ turn \in Nat
        /\ Len(Here.results) + 1 \notin Here.answer.batch /\ IdAt(Here) = CallId
    BY <1>0, <1>3, <1>4, <1>6, Returned, HereIs
  <1>8. /\ journal'.write = IF world.durable THEN Upserted(journal.write, <<CallId, word>>) ELSE journal.write
        /\ journal'.llm = journal.llm /\ journal'.reads = journal.reads
    <2>1. DOMAIN journal = {"llm", "reads", "write"} BY <1>0 DEF JournalOK
    <2> QED BY <1>3, <2>1, KeepStepFields DEF KeepStep
  <1>9. RowsKept
    BY <1>4, <1>8 DEF RowsKept, Upserted, Written, Stored
  <1>10. world.durable => Link(s[n], b)'
    <2>1. PICK row : row = <<CallId, word>> OBVIOUS
    <2>2. world.durable => row \in journal'.write BY <1>8, <2>1 DEF Upserted
    <2>3. /\ row[1] = IdAt(s[n]) /\ Midway(s[n]) /\ Returning(s[n], b, row[2])
          /\ Len(s[n].results) + 1 \notin s[n].answer.batch
      BY <1>2, <1>5, <1>7, <2>1
    <2> QED BY <2>2, <2>3 DEF Link
  <1>11. Newest(b)'
    <2>1. \A row \in journal'.write : row \in journal.write \/ row[1] = CallId
      BY <1>8 DEF Upserted
    <2>2. Newest(Here) BY <1>1, <1>2, <1>5
    <2> QED BY <1>0, <1>4, <1>7, <1>8, <2>1, <2>2, NewestReturned
  <1>12. \/ Shows(believed) /\ \A id \in replies : Behind(id, Here)
         \/ Pending(Here)
    <2>1. Holds(Here) BY <1>1, <1>2, <1>5
    <2> QED BY <1>7, <2>1, HereIs DEF Holds, Aborting, Over
  <1>13. Shows(b.believed)' /\ \A id \in replies' : Behind(id, b)
    <2>1. CASE Live(word)
      <3>1. /\ Effect(Current, CallId) /\ UNCHANGED faults /\ word = Answer(Current)
        BY <2>1
      <3>2. /\ Shows(b.believed)' /\ \A id \in replies' : Behind(id, Here) \/ id = CallId
        BY <1>0, <1>4, <1>7, <1>12, <3>1, EffectShows
      <3>3. replies' \subseteq replies \cup {CallId} BY <3>1 DEF Effect, add_pending_comment
      <3> QED BY <1>0, <1>4, <1>7, <3>2, <3>3, BehindReturned
    <2>2. CASE Refused(word)
      <3>1. PlaneKept /\ "refused" \in faults' /\ faults \subseteq faults'
        BY <2>2 DEF call_refused, PlaneKept, Note
      <3>2. "died" \notin faults BY <3>1 DEF Unharmed
      <3>3. Shows(believed) /\ \A id \in replies : Behind(id, Here) BY <1>12, <3>2 DEF Pending
      <3>4. Shows(b.believed)' BY <1>7, <2>2, <3>1, <3>3, Silent
      <3> QED BY <1>0, <1>4, <1>7, <3>1, <3>3, <3>4, BehindReturned DEF PlaneKept
    <2> QED BY <1>3, <2>1, <2>2
  <1> QED BY <1>1, <1>6, <1>7, <1>9, <1>10, <1>11, <1>13, Grows DEF Holds

\* The pod dies between the effect of a call and its row.
LEMMA DiesStep ==
  ASSUME Inv, HeldOK, History, Unharmed', [Next]_vars, call_dies PROVE History'
  <1>0. ControlOK /\ PlaneOK /\ AnswerOK /\ JournalOK /\ WorldOK BY DEF Inv, TypeOK
  <1>1. PICK n, s : Chain(n, s) /\ Newest(s[n]) /\ Holds(s[n]) /\ \E m \in 0 .. n : Here = s[m]
    BY DEF History, call_dies, Stepping, Dispatching, LoopPlaces
  <1>2. PICK m \in 0 .. n : Here = s[m] BY <1>1
  <1>3. /\ Stepping /\ ~ Written /\ UNCHANGED journal /\ Effect(Current, CallId) /\ world'.durable = world.durable
        /\ pc' = "start" /\ faults' = faults \cup {"died"}
    BY <1>0, WorldFixed DEF call_dies, Note
  <1>4. m = n BY <1>1, <1>2, <1>3, LiveAtEnd
  <1>5. PICK a : a = Here OBVIOUS
  <1>6. /\ Midway(a) /\ Len(a.results) + 1 \notin a.answer.batch /\ IdAt(a) = CallId /\ CallAt(a) = Current
        /\ a.believed = believed
    BY <1>3, <1>5, HereIs DEF Stepping, Dispatching, Position, Midway, IdAt, CallId, CallAt, Current
  <1>7. \/ Shows(believed) /\ \A id \in replies : Behind(id, Here)
        \/ Pending(Here)
    <2>1. Holds(Here) BY <1>1, <1>2, <1>4
    <2> QED BY <1>5, <1>6, <2>1, HereIs DEF Holds, Aborting, Over
  <1>8. PICK x : x = Told(a.believed, Result(CallAt(a), Answer(CallAt(a)))) OBVIOUS
  <1>9. /\ Shows(x)' /\ \A id \in replies' : Behind(id, a) \/ id = IdAt(a)
        /\ CallAt(a).tool = "reply" => IdAt(a) \in replies'
    <2>1. x = Told(believed, Result(Current, Answer(Current))) BY <1>6, <1>8
    <2>2. "fresh" \in faults' => "fresh" \in faults BY <1>3
    <2> QED BY <1>0, <1>3, <1>5, <1>6, <1>7, <2>1, <2>2, EffectShows
  <1>10. Pending(a)' BY <1>3, <1>6, <1>8, <1>9 DEF Pending
  <1>11. Chain(n, s)'
    <2>1. RowsKept BY <1>3 DEF RowsKept
    <2>2. \A c, d : Link(c, d) => Link(c, d)' BY <2>1, LinkKept
    <2> QED BY <1>1, <1>3, <2>2 DEF Chain
  <1>12. Newest(s[n])' BY <1>1, <1>3 DEF Newest
  <1>13. pc' \notin LoopPlaces /\ pc' \notin EndPlaces BY <1>3 DEF LoopPlaces, EndPlaces
  <1> QED BY <1>2, <1>4, <1>5, <1>10, <1>11, <1>12, <1>13 DEF History, Holds

\* A fresh start.
LEMMA FreshStep ==
  ASSUME world.host = "native", report_running, journal = NoJournal PROVE History'
  <1>1. /\ Here' = First /\ pc' = "turn" /\ journal' = NoJournal /\ buffer' = EmptyBuffer /\ replies' = {}
    BY DEF report_running, Started, FirstStep, is_fresh_attempt, clear_pending_review, Here, First
  <1> DEFINE t == [i \in {0} |-> First]
  <1>2. t[0] = First OBVIOUS
  <1> HIDE DEF t
  <1>3. Chain(0, t)' BY <1>2 DEF Chain
  <1>4. Newest(First)' BY <1>1 DEF Newest, NoJournal
  <1>5. Shows(Nothing)'
    <2>1. IsFiniteSet({}) /\ Cardinality({}) = 0 BY FS_EmptySet
    <2> QED BY <1>1, <2>1 DEF Shows, Nothing, EmptyBuffer
  <1>6. Holds(First)' BY <1>1, <1>5 DEF Holds, First, At
  <1>7. pc' \in LoopPlaces /\ pc' \notin EndPlaces /\ 0 \in 0 .. 0 BY <1>1 DEF LoopPlaces, EndPlaces
  <1> QED BY <1>1, <1>2, <1>3, <1>4, <1>6, <1>7 DEF History

\* A resumed start.
LEMMA ResumeStep ==
  ASSUME world.host = "native", OneRow, History, [Next]_vars, WorldOK, journal # NoJournal,
         report_running \/ report_running_unsure
  PROVE  History'
  <1>1. PICK n, s : Chain(n, s) /\ Newest(s[n]) /\ Holds(s[n]) BY DEF History
  <1>2. world.durable /\ world'.durable = world.durable BY WorldFixed DEF OneRow
  <1>3. Here' = s[0] /\ 0 \in 0 .. n /\ pc' = "turn" /\ UNCHANGED journal
    <2>1. s[0] = First /\ n \in Nat BY <1>1, <1>2 DEF Chain
    <2> QED BY <2>1 DEF report_running, report_running_unsure, Started, FirstStep, Here, First
  <1>4. pc' \in LoopPlaces /\ pc' \notin EndPlaces BY <1>3 DEF LoopPlaces, EndPlaces
  <1>5. CASE report_running
    <2>1. PlaneKept BY <1>5 DEF report_running, is_fresh_attempt, PlaneKept
    <2> QED BY <1>1, <1>2, <1>3, <1>4, <2>1, Walks
  <1>6. CASE report_running_unsure
    <2>1. "fresh" \in faults' /\ buffer' = EmptyBuffer /\ replies' = {}
      BY <1>6 DEF report_running_unsure, Note, clear_pending_review
    <2>2. \A x : Shows(x)'
      <3>1. IsFiniteSet({}) BY FS_EmptySet
      <3> QED BY <2>1, <3>1 DEF Shows, EmptyBuffer
    <2>3. Holds(s[n])' BY <2>1, <2>2 DEF Holds
    <2>4. Chain(n, s)'
      <3>1. RowsKept BY <1>2, <1>3 DEF RowsKept
      <3>2. \A c, d : Link(c, d) => Link(c, d)' BY <3>1, LinkKept
      <3> QED BY <1>1, <1>2, <3>2 DEF Chain
    <2>5. Newest(s[n])' BY <1>1, <1>3 DEF Newest
    <2> QED BY <1>3, <1>4, <2>3, <2>4, <2>5 DEF History
  <1> QED BY <1>5, <1>6

\* The loop ends at the end of the chain.
LEMMA EndStep ==
  ASSUME Inv, History, aborted \/ finished \/ exhausted
  PROVE  History' /\ (outcome' # "aborted" => Shows(believed)')
  <1>0. ControlOK /\ AnswerOK BY DEF Inv, TypeOK
  <1>1. PICK n, s : Chain(n, s) /\ Newest(s[n]) /\ Holds(s[n]) /\ \E m \in 0 .. n : Here = s[m]
    BY DEF History, aborted, finished, exhausted, TurnOver, LoopPlaces
  <1>2. PICK m \in 0 .. n : Here = s[m] BY <1>1
  <1>3. aborted \/ finished => Over(Here)
    <2>1. Len(results) \in Nat /\ Len(script) \in Nat BY <1>0 DEF AnswerOK
    <2> QED BY <2>1, HereIs DEF aborted, finished, TurnOver, Position, Over, Midway
  <1>4. m = n
    <2>1. SUFFICES ASSUME m # n PROVE FALSE OBVIOUS
    <2>2. Link(Here, s[m + 1]) BY <1>1, <1>2, <2>1, NextOf
    <2>3. aborted \/ finished => Turning(Here, s[m + 1]) BY <1>3, <2>2, LinkOf
    <2>4. ~ aborted BY <2>3, HereIs DEF aborted, Turning
    <2>5. ~ finished BY <2>3, HereIs DEF finished, Turning, Judged, AfterTurn
    <2>6. exhausted => ToTurn(Here, s[m + 1]) BY <2>2, LinkOf, HereIs DEF exhausted
    <2>7. ~ exhausted
      <3>1. MaxTurns \in Nat BY LimitAssumption
      <3> QED BY <2>6, <3>1, HereIs DEF exhausted, ToTurn
    <2> QED BY <2>4, <2>5, <2>7
  <1>5. Holds(Here) BY <1>1, <1>2, <1>4
  <1>6. outcome' = "aborted" => Aborting(s[n])
    BY <1>2, <1>3, <1>4, HereIs DEF aborted, finished, exhausted, Settle, Aborting
  <1>7. outcome' # "aborted" => Shows(believed)
    <2>1. CASE aborted BY <2>1 DEF aborted, Settle
    <2>2. CASE finished
      <3>1. ~ Aborting(Here) BY <2>2, HereIs DEF finished, Aborting
      <3>2. ~ Pending(Here) BY <1>3, <2>2 DEF Pending, Over
      <3> QED BY <1>5, <3>1, <3>2, HereIs DEF Holds
    <2>3. CASE exhausted BY <1>5, <2>3, Settles DEF exhausted
    <2> QED BY <2>1, <2>2, <2>3
  <1>8. /\ UNCHANGED <<journal, believed>> /\ world'.durable = world.durable /\ PlaneKept /\ pc' \notin LoopPlaces
    BY DEF aborted, finished, exhausted, Settle, PlaneKept, LoopPlaces
  <1>9. History' BY <1>1, <1>6, <1>8, Walks
  <1>10. Shows(believed) => Shows(believed)' BY <1>8 DEF Shows, PlaneKept
  <1> QED BY <1>7, <1>9, <1>10

\* Steps that leave the plane and the journal, and what the pod knows.
LEMMA QuietStep ==
  ASSUME Inv, History, [Next]_vars, outcome' = outcome,
         UNCHANGED <<journal, buffer, replies>>,
         "fresh" \in faults' <=> "fresh" \in faults, faults \subseteq faults',
         pc' \notin LoopPlaces \/ (Here' = Here /\ pc \in LoopPlaces),
         pc' \in EndPlaces => pc \in EndPlaces
  PROVE  History'
  <1>0. WorldOK BY DEF Inv, TypeOK
  <1>1. PICK n, s : /\ Chain(n, s) /\ Newest(s[n]) /\ Holds(s[n])
                    /\ pc \in LoopPlaces => \E m \in 0 .. n : Here = s[m]
                    /\ pc \in EndPlaces /\ outcome = "aborted" => Aborting(s[n])
    BY DEF History
  <1>2. world'.durable = world.durable /\ PlaneKept BY <1>0, WorldFixed DEF PlaneKept
  <1> QED BY <1>1, <1>2, Walks

\* The findings of an aborted run are dropped.
LEMMA ClearStep ==
  ASSUME Inv, History, clear_findings PROVE History'
  <1>1. PICK n, s : Chain(n, s) /\ Newest(s[n]) /\ Aborting(s[n])
    BY DEF History, clear_findings, EndPlaces
  <1>2. UNCHANGED <<journal, world>> /\ pc' = "summary" BY DEF clear_findings, PostOnly
  <1>3. Chain(n, s)'
    <2>1. RowsKept BY <1>2 DEF RowsKept
    <2>2. \A c, d : Link(c, d) => Link(c, d)' BY <2>1, LinkKept
    <2> QED BY <1>1, <1>2, <2>2 DEF Chain
  <1>4. Newest(s[n])' BY <1>1, <1>2 DEF Newest
  <1>5. Aborting(s[n])' BY <1>1 DEF Aborting, Over, Midway
  <1>6. pc' \notin LoopPlaces BY <1>2 DEF LoopPlaces
  <1> QED BY <1>3, <1>4, <1>5, <1>6 DEF History, Holds

\* The steps of a native run whose host sees everything.
LEMMA NativeFrame ==
  ASSUME Next, HostPlaces, world.host = "native", Unharmed'
  PROVE  \/ report_running \/ report_running_unsure
         \/ before_turn \/ llm_replay \/ llm_live \/ reads_replay \/ reads_live
         \/ call_batched \/ call_replay \/ call_live \/ call_refused \/ call_dies
         \/ aborted \/ finished \/ bounced \/ keeps_going \/ exhausted
         \/ crash \/ job_deadline \/ context_fills \/ post_disclosure \/ post_disclosure_fails
         \/ clear_findings \/ clear_findings_fails \/ set_review_summary \/ set_review_summary_fails
         \/ keep_summary \/ finalize_review \/ finalize_review_fails \/ report_error
  <1>1. Step => report_running \/ NativeStep \/ PostStep
    BY DEF Step, ChildStep, HostPlaces, spawn, prompt, tool_before, tools_call, tool_after, CycleOver,
           on_cycle_aborts, on_cycle_accepts, on_cycle_exhausts, on_cycle_prompts
  <1>2. Fault => \/ report_running_unsure \/ crash \/ job_deadline \/ context_fills \/ call_refused \/ call_dies
                 \/ post_disclosure_fails \/ clear_findings_fails \/ set_review_summary_fails
                 \/ finalize_review_fails
    BY DEF Fault, HostPlaces, Unharmed, Note, JournalFails, llm_unjournaled, llm_transient, llm_overflow,
           llm_fatal, reads_unjournaled, call_unjournaled, call_unanswered, call_unbuffered,
           sweep_durable_steps, spawn_fails, reader_loop_ends, tools_call_refused,
           tools_call_unanswered, tools_call_unbuffered
  <1> QED BY <1>1, <1>2 DEF Next, NativeStep, PostStep

\* A run keeps its chain, whatever step it takes.
LEMMA RememberedStep ==
  ASSUME Inv, OneRow, HeldOK, Remembered, [Next]_vars PROVE Remembered'
  <1> SUFFICES ASSUME Unharmed', world'.host = "native", pc' \notin {"ended", "failed"},
                      pc' = "start" => journal' # NoJournal
               PROVE  History'
    BY DEF Remembered
  <1>0. /\ WorldOK /\ HostPlaces /\ world.host = "native" /\ faults \subseteq faults' /\ Unharmed
    BY WorldFixed, FaultsGrow DEF Inv, TypeOK, Unharmed
  <1>1. CASE UNCHANGED vars
    <2>1. /\ UNCHANGED <<pc, outcome, journal, buffer, replies, faults>> /\ Here' = Here
      BY <1>1 DEF vars, Here
    <2>2. History BY <1>0, <2>1 DEF Remembered
    <2>3. pc' \in LoopPlaces => pc \in LoopPlaces BY <2>1
    <2> QED BY <2>1, <2>2, <2>3, QuietStep
  <1>2. CASE Next /\ pc = "start"
    <2>1. report_running \/ report_running_unsure
      BY <1>0, <1>2, NativeFrame DEF before_turn, llm_replay, llm_live, reads_replay, ReadsReturn, reads_live,
         call_batched, call_replay, call_live, call_refused, call_dies, Stepping, Dispatching,
         aborted, finished, bounced, keeps_going, TurnOver, exhausted, crash, job_deadline, context_fills,
         post_disclosure, post_disclosure_fails, clear_findings, clear_findings_fails,
         Summarising, set_review_summary, set_review_summary_fails, keep_summary, finalize_review,
         finalize_review_fails, report_error
    <2>2. CASE journal = NoJournal
      <3>1. report_running BY <2>1, <2>2 DEF report_running_unsure, is_fresh_attempt
      <3> QED BY <1>0, <2>2, <3>1, FreshStep
    <2>3. CASE journal # NoJournal
      <3>1. History BY <1>0, <1>2, <2>3 DEF Remembered
      <3> QED BY <1>0, <2>1, <2>3, <3>1, ResumeStep
    <2> QED BY <2>2, <2>3
  <1>3. CASE Next /\ pc # "start"
    <2>1. ~ report_running /\ ~ report_running_unsure
      BY <1>3 DEF report_running, report_running_unsure, Started
    <2>2. pc \notin {"ended", "failed"}
      BY <1>0, <1>3, <2>1, NativeFrame DEF before_turn, llm_replay, llm_live, reads_replay, ReadsReturn,
         reads_live, call_batched, call_replay, call_live, call_refused, call_dies, Stepping, Dispatching,
         aborted, finished, bounced, keeps_going, TurnOver, exhausted, crash, job_deadline, context_fills,
         post_disclosure, post_disclosure_fails, clear_findings, clear_findings_fails,
         Summarising, set_review_summary, set_review_summary_fails, keep_summary, finalize_review,
         finalize_review_fails, report_error
    <2>3. History BY <1>0, <1>3, <2>2 DEF Remembered
    <2>4. CASE before_turn BY <2>3, <2>4, TurnStep
    <2>5. CASE llm_replay BY <2>3, <2>5, ReplayStep
    <2>6. CASE llm_live BY <2>3, <2>6, AnswerStep
    <2>7. CASE reads_replay BY <2>3, <2>7, BatchReplayStep
    <2>8. CASE reads_live BY <2>3, <2>8, BatchStep
    <2>9. CASE call_batched BY <2>3, <2>9, BatchedStep
    <2>10. CASE call_replay BY <2>3, <2>10, CallReplayStep
    <2>11. CASE call_live \/ call_refused BY <2>3, <2>11, CallStep
    <2>12. CASE call_dies BY <2>3, <2>12, DiesStep
    <2>13. CASE bounced \/ keeps_going BY <2>3, <2>13, TurningStep
    <2>14. CASE aborted \/ finished \/ exhausted BY <2>3, <2>14, EndStep
    <2>15. CASE clear_findings BY <2>3, <2>15, ClearStep
    <2>16. CASE crash \/ job_deadline \/ finalize_review_fails
      <3>1. /\ UNCHANGED <<outcome, journal, buffer, replies>> /\ pc' \in {"start", "failed"}
            /\ "fresh" \in faults' <=> "fresh" \in faults
        BY <2>16 DEF crash, job_deadline, finalize_review_fails, Note
      <3>2. pc' \notin LoopPlaces /\ pc' \notin EndPlaces BY <3>1 DEF LoopPlaces, EndPlaces
      <3> QED BY <1>0, <2>3, <3>1, <3>2, QuietStep
    <2>17. CASE context_fills
      <3>1. /\ UNCHANGED <<outcome, journal, buffer, replies, faults>> /\ pc' = "turn" /\ pc = "turn"
            /\ Here' = Here
        BY <2>17 DEF context_fills, Here, NativeOnly
      <3>2. pc' \in LoopPlaces /\ pc \in LoopPlaces /\ pc' \notin EndPlaces
        BY <3>1 DEF LoopPlaces, EndPlaces
      <3> QED BY <1>0, <2>3, <3>1, <3>2, QuietStep
    <2>18. CASE \/ post_disclosure \/ post_disclosure_fails \/ clear_findings_fails \/ set_review_summary
                \/ set_review_summary_fails \/ keep_summary
      <3>1. /\ UNCHANGED <<outcome, journal, buffer, replies>> /\ pc' \in {"post", "summary", "finalize"}
            /\ pc \in EndPlaces
            /\ "fresh" \in faults' <=> "fresh" \in faults
        BY <2>18 DEF post_disclosure, post_disclosure_fails, clear_findings_fails, set_review_summary,
           set_review_summary_fails, keep_summary, Summarising, PostOnly, Note, EndPlaces
      <3>2. pc' \notin LoopPlaces BY <3>1 DEF LoopPlaces
      <3> QED BY <1>0, <2>3, <3>1, <3>2, QuietStep
    <2>19. ~ finalize_review /\ ~ report_error BY DEF finalize_review, report_error
    <2> QED BY <1>0, <1>3, <2>1, <2>4, <2>5, <2>6, <2>7, <2>8, <2>9, <2>10, <2>11, <2>12, <2>13,
               <2>14, <2>15, <2>16, <2>17, <2>18, <2>19, NativeFrame
  <1> QED BY <1>1, <1>2, <1>3

\* What a conversation says is a buffer and a number of replies.
LEMMA BelieveFields ==
  ASSUME NEW b, b.said \in Nat, NEW rs, IsFiniteSet(DOMAIN rs)
  PROVE  LET x == Believe(b, rs)
         IN  x = [held |-> [l \in Locs |-> x.held[l]], said |-> x.said] /\ x.said \in Nat
  <1>1. IsFiniteSet({k \in DOMAIN rs : Done(rs, k, "reply")})
    <2>1. {k \in DOMAIN rs : Done(rs, k, "reply")} \subseteq DOMAIN rs OBVIOUS
    <2> QED BY <2>1, FS_Subset
  <1>2. Cardinality({k \in DOMAIN rs : Done(rs, k, "reply")}) \in Nat BY <1>1, FS_CardinalityType
  <1> QED BY <1>2 DEF Believe

\* The steps that add to what the host knows.
LEMMA BelievedFrame ==
  ASSUME Next
  PROVE  \/ UNCHANGED believed
         \/ Started
         \/ \E r : believed' = Believe(believed, <<r>>)
         \/ /\ CycleOver /\ believed' = Believe(believed, cycle_turn_outcome) /\ NextRecorder
            /\ on_cycle_aborts \/ on_cycle_accepts \/ on_cycle_exhausts \/ on_cycle_prompts
  <1>1. NativeStep \/ call_unjournaled \/ call_refused \/ call_unanswered \/ call_unbuffered
          => UNCHANGED believed \/ \E r : believed' = Believe(believed, <<r>>)
    BY DEF NativeStep, before_turn, llm_replay, llm_live, Answered, reads_replay, reads_live, ReadsReturn,
       call_batched, call_replay, call_live, ToolReturns, aborted, finished, bounced, keeps_going, exhausted,
       Settle, NextTurn, post_disclosure, call_unjournaled, call_refused, call_unanswered, call_unbuffered
  <1> QED BY <1>1 DEF Next, Step, ChildStep, PostStep, Fault, report_running, Answered, ReadsReturn,
       spawn, prompt, tool_before, tools_call, tool_after, CycleStep, on_cycle_aborts,
       on_cycle_accepts, on_cycle_exhausts, on_cycle_prompts, Resolve,
       clear_findings, set_review_summary, keep_summary, finalize_review, report_error, PostOnly,
       report_running_unsure, crash, job_deadline, context_fills, llm_unjournaled, llm_transient, llm_overflow,
       llm_fatal, reads_unjournaled, call_dies, sweep_durable_steps, post_disclosure_fails, spawn_fails,
       reader_loop_ends, tools_call_refused, tools_call_unanswered, tools_call_unbuffered,
       clear_findings_fails, set_review_summary_fails, finalize_review_fails

\* What the host knows keeps its form.
LEMMA InvHeld ==
  ASSUME HeldOK, AnswerOK, [Next]_vars PROVE HeldOK'
  <1>1. CASE UNCHANGED believed BY <1>1 DEF HeldOK
  <1>2. CASE Started BY <1>2 DEF Started, Nothing, EmptyBuffer, HeldOK
  <1>3. ASSUME NEW rs, IsFiniteSet(DOMAIN rs), believed' = Believe(believed, rs) PROVE HeldOK'
    BY <1>3, BelieveFields DEF HeldOK
  <1>4. ASSUME NEW r, believed' = Believe(believed, <<r>>) PROVE HeldOK'
    <2>1. DOMAIN <<r>> = {1} OBVIOUS
    <2>2. IsFiniteSet(DOMAIN <<r>>) BY <2>1, FS_Singleton
    <2> QED BY <1>3, <1>4, <2>2
  <1>5. CASE believed' = Believe(believed, cycle_turn_outcome)
    <2>1. DOMAIN cycle_turn_outcome \subseteq DOMAIN script BY DEF cycle_turn_outcome
    <2>2. IsFiniteSet(DOMAIN script)
      <3>1. DOMAIN script = 1 .. Len(script) /\ Len(script) \in Nat BY DEF AnswerOK
      <3> QED BY <3>1, FS_Interval
    <2>3. IsFiniteSet(DOMAIN cycle_turn_outcome) BY <2>1, <2>2, FS_Subset
    <2> QED BY <1>3, <1>5, <2>3
  <1>6. CASE Next BY <1>6, <1>1, <1>2, <1>4, <1>5, BelievedFrame
  <1> QED BY <1>1, <1>6 DEF vars

\* The rows of a step are one row.
LEMMA InvOneRow ==
  ASSUME OneRow, JournalOK, WorldOK, [Next]_vars PROVE OneRow'
  <1>0. DOMAIN journal = {"llm", "reads", "write"} /\ world'.durable = world.durable
    BY WorldFixed DEF JournalOK
  <1>1. CASE UNCHANGED journal BY <1>0, <1>1 DEF OneRow
  <1>2. ASSUME NEW steps \in {"llm", "reads", "write"}, NEW row, KeepStep(steps, row) PROVE OneRow'
    <2>1. CASE UNCHANGED journal BY <1>1, <2>1
    <2>2. CASE /\ world.durable /\ DOMAIN journal' = {"llm", "reads", "write"}
               /\ journal'[steps] = Upserted(journal[steps], row)
               /\ \A other \in {"llm", "reads", "write"} \ {steps} : journal'[other] = journal[other]
      BY <1>0, <2>2 DEF OneRow, Upserted
    <2> QED BY <1>0, <1>2, <2>1, <2>2, KeepStepFields
  <1>3. CASE sweep_durable_steps
    <2>1. world.durable BY <1>3 DEF sweep_durable_steps
    <2> QED BY <1>0, <1>3, <2>1, SweptRows DEF OneRow
  <1>4. CASE finalize_review BY <1>4 DEF finalize_review, NoJournal, OneRow
  <1>5. CASE Next BY <1>5, <1>1, <1>2, <1>3, <1>4, JournalFrame
  <1> QED BY <1>1, <1>5 DEF vars

\* What a run is about to post stays what its last pod knows.
LEMMA InvAgreed ==
  ASSUME Inv, OneRow, Remembered, Agreed, [Next]_vars PROVE Agreed'
  <1> SUFFICES ASSUME Unharmed', world'.host = "native", pc' \in EndPlaces \cup {"ended"},
                      outcome' \in {"finished", "exhausted"}
               PROVE  Shows(believed)'
    BY DEF Agreed
  <1>0. /\ WorldOK /\ HostPlaces /\ world.host = "native" /\ faults \subseteq faults' /\ Unharmed
    BY WorldFixed, FaultsGrow DEF Inv, TypeOK, Unharmed
  <1>1. ASSUME UNCHANGED <<believed, buffer, replies, outcome>>, "fresh" \in faults' <=> "fresh" \in faults,
               pc \in EndPlaces \cup {"ended"}
        PROVE  Shows(believed)'
    BY <1>0, <1>1 DEF Agreed, Shows
  <1>2. CASE UNCHANGED vars BY <1>1, <1>2 DEF vars
  <1>3. CASE aborted \/ finished \/ exhausted
    <2>1. pc \in LoopPlaces /\ pc # "start"
      BY <1>3 DEF LoopPlaces, aborted, finished, exhausted, TurnOver
    <2>2. History BY <1>0, <2>1 DEF Remembered, LoopPlaces
    <2> QED BY <1>3, <2>2, EndStep
  <1>4. CASE \/ post_disclosure \/ post_disclosure_fails \/ clear_findings_fails \/ set_review_summary
             \/ set_review_summary_fails \/ keep_summary \/ finalize_review \/ report_error
    <2>1. /\ UNCHANGED <<believed, buffer, replies, outcome>>
          /\ "fresh" \in faults' <=> "fresh" \in faults
          /\ pc \in EndPlaces
      BY <1>4 DEF post_disclosure, post_disclosure_fails, clear_findings_fails, set_review_summary,
         set_review_summary_fails, keep_summary, Summarising, finalize_review, report_error, PostOnly, Note,
         EndPlaces
    <2> QED BY <1>1, <2>1
  <1>5. ~ clear_findings BY DEF clear_findings, PostOnly
  <1>6. \/ report_running \/ report_running_unsure \/ before_turn \/ llm_replay \/ llm_live
        \/ reads_replay \/ reads_live \/ call_batched \/ call_replay \/ call_live \/ call_refused
        \/ call_dies \/ bounced \/ keeps_going \/ crash \/ job_deadline \/ context_fills \/ finalize_review_fails
        => FALSE
    BY <1>0 DEF EndPlaces, report_running, report_running_unsure, Started, FirstStep, before_turn, llm_replay,
       llm_live, Answered, reads_replay, reads_live, ReadsReturn, call_batched, call_replay, call_live,
       call_refused, call_dies, ToolReturns, Stepping, Dispatching, bounced, keeps_going, NextTurn,
       crash, job_deadline, context_fills, finalize_review_fails
  <1> QED BY <1>0, <1>2, <1>3, <1>4, <1>5, <1>6, NativeFrame

----------------------------------------------------------------------------
(* The OpenCode host.  It learns of a cycle from the recorder, at its end;  *)
(* until then the plane has what the host knows and the calls of the cycle. *)

\* The results the host will make of the calls that have taken effect.
Applied ==
    [i \in {j \in DOMAIN script : stage[j] \notin {"todo", "begun"}} |->
       IF stage[i] = "ended" THEN cycle_result(i, recorder.lines)
       ELSE Result(script[i], IF script[i].tool \in {"finish", "abort"} THEN script[i].tool ELSE stage[i])]

\* Calls that do not overlap are carried out one by one; the recorder is as far as they are.
InOrder ==
    /\ pc \in {"spawn", "prompt"} => recorder.lines = <<>>
    /\ pc = "cycle" =>
         /\ \A i \in DOMAIN stage : stage[i] \in {"todo", "begun", "ok", "error", "ended"}
         /\ ~ world.parallel =>
              \A i, j \in DOMAIN stage : i < j /\ stage[j] # "todo" => stage[i] = "ended"
         /\ \A l \in Range(recorder.lines) : l.kind = "after" => stage[l.at] = "ended"

\* A child leaves no journal: every pod of its run starts over.
ChildStarts == world.host = "opencode" => journal = NoJournal /\ "fresh" \notin faults

\* A blocking finding the host knows of is one the refute gate knows of.
Blocked(b, g, rs) == \A l \in Locs : b.held[l] = "P1" => l \in refute_findings(g, rs)

\* A finish that was let through has nothing left to verify, or was bounced before.
Verified(g) == g.bounced \/ g.findings = {}

\* What the host will know at the end of a cycle, if the cycle ended here.
Known == Believe(believed, Applied)

\* Within a cycle the plane has what b says, and no reply of a call that has not returned.
InCycle(b, g, rs) ==
    /\ Shows(b) /\ Blocked(b, g, rs)
    /\ \A id \in replies : id[1] < turn \/ (id[1] = turn /\ id[3] \in DOMAIN rs)

\* The host of a child knows the plane between two cycles, and at the end.
Followed ==
    Unharmed /\ world.host = "opencode" /\ ~ world.parallel /\ recorder.before <= RecorderCap =>
      /\ pc \in {"spawn", "prompt"} =>
           Shows(believed) /\ Blocked(believed, gates, <<>>) /\ \A id \in replies : id[1] < turn
      /\ pc = "cycle" => InCycle(Known, gates, Applied)
      /\ pc \in EndPlaces \cup {"ended"} /\ outcome \in {"finished", "exhausted"} => Shows(believed)
      /\ pc \in EndPlaces \cup {"ended"} /\ outcome = "finished" =>
           Blocked(believed, gates, <<>>) /\ Verified(gates)

\* On the native host the gate sees the results of the turn when the turn is over.
Watched ==
    world.host = "native" =>
      /\ pc \in {"turn", "asking"} => Blocked(believed, gates, <<>>)
      /\ pc = "reads" => results = <<>>
      /\ pc \in {"reads", "tools"} => Blocked(believed, gates, results)
      /\ pc \in EndPlaces \cup {"ended"} /\ outcome = "finished" =>
           Blocked(believed, gates, <<>>) /\ Verified(gates)

\* The turn after the bounce could look things up, if it was not lost.
Rechecked ==
    world.host = "native" /\ "gap" \notin faults /\ gates.bounced =>
      /\ pc = "turn" => gates.force \/ reverify = "done"
      /\ pc = "asking" => reverify = "done" \/ (reverify = "due" /\ ReadTools \subseteq offered)
      /\ pc \in {"reads", "tools"} => reverify = "done"
      /\ pc \in EndPlaces \cup {"ended"} /\ outcome = "finished" => reverify = "done"

\* A result after those in rs.
Extends(rs, more, i) ==
    /\ i \in Nat /\ DOMAIN rs \subseteq 1 .. i - 1 /\ DOMAIN more = DOMAIN rs \cup {i}
    /\ \A k \in DOMAIN rs : more[k] = rs[k]

\* Places have a last one.
LEMMA LastPlace ==
  ASSUME NEW n \in Nat, NEW S, S \subseteq 1 .. n, S # {}
  PROVE  \E k \in S : \A j \in S : j <= k
  <1> DEFINE R == {ss \in Nat \X Nat : ss[1] < ss[2]}
             T == {x \in Nat : \E j \in S : x = n - j}
  <1>0. IsWellFoundedOn(R, Nat) BY NatLessThanWellFounded DEF OpToRel
  <1>11. T \subseteq Nat OBVIOUS
  <1>12. T # {} 
    <2>1. PICK j \in S : TRUE OBVIOUS
    <2>2. n - j \in T BY <2>1
    <2> QED BY <2>2
  <1> HIDE DEF R
  <1>2. \E x \in T : \A y \in T : ~ (<<y, x>> \in R)
    BY <1>0, <1>11, <1>12, WFMin
  <1>3. PICK x \in T : \A y \in T : ~ (<<y, x>> \in R) BY <1>2
  <1>4. PICK k \in S : x = n - k BY <1>3
  <1>5. ASSUME NEW j \in S PROVE j <= k
    <2>0. j \in Nat /\ k \in Nat /\ j <= n /\ k <= n OBVIOUS
    <2>1. n - j \in T /\ n - j \in Nat /\ n - k \in Nat BY <2>0
    <2>2. ~ (n - j < n - k) BY <1>3, <1>4, <2>1 DEF R
    <2> QED BY <2>0, <2>2
  <1> QED BY <1>5

\* A conversation says what it said, and then one result more.
LEMMA BelieveExtended ==
  ASSUME NEW b, b.said \in Nat, NEW rs, NEW more, NEW i, Extends(rs, more, i)
  PROVE  Believe(b, more) = Told(Believe(b, rs), more[i])
  <1> DEFINE r == more[i]
  <1>0. /\ i \in Nat /\ i \notin DOMAIN rs /\ DOMAIN more = DOMAIN rs \cup {i}
        /\ \A k \in DOMAIN rs : k \in Nat /\ k < i /\ more[k] = rs[k]
    BY DEF Extends
  <1>1. ASSUME NEW l \in Locs
        PROVE  Believe(b, more).held[l] = Told(Believe(b, rs), r).held[l]
    <2> DEFINE own == {k \in DOMAIN rs : rs[k].call.at = l /\ Tells(rs[k])}
               all == {k \in DOMAIN more : more[k].call.at = l /\ Tells(more[k])}
               one == {k \in DOMAIN <<r>> : <<r>>[k].call.at = l /\ Tells(<<r>>[k])}
    <2>1. /\ Believe(b, more).held[l] = IF all = {} THEN b.held[l]
                ELSE Left(more[CHOOSE k \in all : \A j \in all : j <= k].call)
          /\ Believe(b, rs).held[l] = IF own = {} THEN b.held[l]
                ELSE Left(rs[CHOOSE k \in own : \A j \in own : j <= k].call)
          /\ Told(Believe(b, rs), r).held[l] = IF one = {} THEN Believe(b, rs).held[l]
                ELSE Left(<<r>>[CHOOSE k \in one : \A j \in one : j <= k].call)
      BY DEF Believe, Told
    <2>2. CASE r.call.at = l /\ Tells(r)
      <3>1. i \in all /\ \A j \in all : j = i \/ j < i BY <1>0, <2>2 DEF Extends
      <3>2. (CHOOSE k \in all : \A j \in all : j <= k) = i
        <4>1. \A j \in all : j \in Nat /\ (j = i \/ j < i) BY <1>0, <3>1
        <4>2. i \in all BY <3>1
        <4> HIDE DEF all
        <4> DEFINE c == CHOOSE k \in all : \A j \in all : j <= k
        <4>3. \A j \in all : j <= i BY <1>0, <4>1
        <4>4. c \in all /\ \A j \in all : j <= c BY <4>2, <4>3
        <4> HIDE DEF c
        <4>5. c = i BY <1>0, <4>1, <4>2, <4>4
        <4> QED BY <4>5 DEF c
      <3>3. DOMAIN <<r>> = {1} /\ <<r>>[1] = r OBVIOUS
      <3>4. one = {1} BY <2>2, <3>3
      <3>5. (CHOOSE k \in {1} : \A j \in {1} : j <= k) = 1 OBVIOUS
      <3> HIDE DEF own, all, one, r
      <3>6. <<r>>[CHOOSE k \in one : \A j \in one : j <= k] = r BY <3>3, <3>4, <3>5
      <3>7. all # {} /\ one # {} BY <3>1, <3>4
      <3> QED BY <2>1, <3>2, <3>6, <3>7 DEF r
    <2>3. CASE ~ (r.call.at = l /\ Tells(r))
      <3>1. all = own BY <1>0, <2>3 DEF Extends
      <3>2. DOMAIN <<r>> = {1} /\ <<r>>[1] = r OBVIOUS
      <3>3. one = {} BY <2>3, <3>2
      <3>4. own # {} => (CHOOSE k \in own : \A j \in own : j <= k) \in own
        <4>1. own \subseteq 1 .. i BY <1>0 DEF Extends
        <4> HIDE DEF own
        <4>2. own # {} => \E k \in own : \A j \in own : j <= k BY <1>0, <4>1, LastPlace
        <4> QED BY <4>2
      <3>5. own # {} => more[CHOOSE k \in own : \A j \in own : j <= k] = rs[CHOOSE k \in own : \A j \in own : j <= k]
        BY <1>0, <3>4
      <3> HIDE DEF own, all, one
      <3> QED BY <2>1, <3>1, <3>3, <3>5
    <2> QED BY <2>2, <2>3
  <1>2. Believe(b, more).said = Told(Believe(b, rs), r).said
    <2> DEFINE own == {k \in DOMAIN rs : Done(rs, k, "reply")}
               all == {k \in DOMAIN more : Done(more, k, "reply")}
               one == {k \in DOMAIN <<r>> : Done(<<r>>, k, "reply")}
    <2>1. /\ Believe(b, more).said = b.said + Cardinality(all)
          /\ Told(Believe(b, rs), r).said = b.said + Cardinality(own) + Cardinality(one)
      <3>1. \A x, y : Believe(x, y).said = x.said + Cardinality({k \in DOMAIN y : Done(y, k, "reply")})
        BY DEF Believe
      <3> HIDE DEF r
      <3> QED BY <3>1 DEF Told
    <2>2. IsFiniteSet(own) /\ Cardinality(own) \in Nat
      <3>1. own \subseteq 1 .. i BY <1>0 DEF Extends
      <3>2. IsFiniteSet(1 .. i) BY <1>0, FS_Interval
      <3> QED BY <3>1, <3>2, FS_Subset, FS_CardinalityType
    <2>3. DOMAIN <<r>> = {1} /\ <<r>>[1] = r OBVIOUS
    <2>4. Done(<<r>>, 1, "reply") <=> Done(more, i, "reply") BY <2>3 DEF Done
    <2>5. \A k \in DOMAIN rs : Done(rs, k, "reply") <=> Done(more, k, "reply") BY <1>0 DEF Done
    <2>6. CASE Done(more, i, "reply")
      <3>1. one = {1} /\ all = own \cup {i} /\ i \notin own BY <1>0, <2>3, <2>4, <2>5, <2>6 DEF Extends
      <3> HIDE DEF own, all, one
      <3>2. Cardinality(one) = 1 /\ Cardinality(all) = Cardinality(own) + 1
        BY <2>2, <3>1, FS_Singleton, FS_AddElement
      <3> QED BY <2>1, <2>2, <3>2
    <2>7. CASE ~ Done(more, i, "reply")
      <3>1. one = {} /\ all = own BY <1>0, <2>3, <2>4, <2>5, <2>7 DEF Extends
      <3> HIDE DEF own, all, one
      <3>2. Cardinality(one) = 0 BY <3>1, FS_EmptySet
      <3> QED BY <2>1, <2>2, <3>1, <3>2
    <2> QED BY <2>6, <2>7
  <1>3. /\ Believe(b, more) = [held |-> [l \in Locs |-> Believe(b, more).held[l]], said |-> Believe(b, more).said]
        /\ Told(Believe(b, rs), r) = [held |-> [l \in Locs |-> Told(Believe(b, rs), r).held[l]],
                                      said |-> Told(Believe(b, rs), r).said]
    <2>1. \A x, y : Believe(x, y) = [held |-> [l \in Locs |-> Believe(x, y).held[l]], said |-> Believe(x, y).said]
      BY DEF Believe
    <2> HIDE DEF r
    <2> QED BY <2>1 DEF Told
  <1>4. [l \in Locs |-> Believe(b, more).held[l]] = [l \in Locs |-> Told(Believe(b, rs), r).held[l]]
    BY <1>1
  <1> QED BY <1>2, <1>3, <1>4

\* The refute gate keeps up with what the conversation says of blocking findings.
LEMMA BlockedExtended ==
  ASSUME NEW b, NEW g, NEW rs, NEW more, NEW i, Extends(rs, more, i), Blocked(b, g, rs),
         NEW call, NEW word, more[i] = Result(call, word), word = "told" => call.tool = "sast"
  PROVE  Blocked(Told(b, more[i]), g, more)
  <1> DEFINE majors(s)    == {k \in DOMAIN s : Done(s, k, "add") /\ s[k].call.priority = "P1"}
             retracted(s) == {k \in DOMAIN s : Done(s, k, "retract")}
  <1>0. /\ i \in Nat /\ i \notin DOMAIN rs /\ DOMAIN more = DOMAIN rs \cup {i}
        /\ \A k \in DOMAIN rs : k \in Nat /\ k < i /\ more[k] = rs[k]
    BY DEF Extends
  <1>1. /\ more[i].call = call /\ more[i].res = word
    BY DEF Result
  <1>2. /\ i \in majors(more) <=> call.tool = "add" /\ word = "ok" /\ call.priority = "P1"
        /\ i \in retracted(more) <=> call.tool = "retract" /\ word = "ok"
    BY <1>0, <1>1 DEF Done
  <1>3. \A k \in DOMAIN rs : /\ k \in majors(more) <=> k \in majors(rs)
                             /\ k \in retracted(more) <=> k \in retracted(rs)
    BY <1>0 DEF Done
  <1>4. /\ majors(rs) \cup retracted(rs) \subseteq DOMAIN rs
        /\ majors(more) = majors(rs) \/ majors(more) = majors(rs) \cup {i}
        /\ retracted(more) = retracted(rs) \/ retracted(more) = retracted(rs) \cup {i}
    BY <1>0, <1>3
  <1>5. /\ refute_findings(g, rs) = Settled(g.findings, rs, majors(rs), retracted(rs))
        /\ refute_findings(g, more) = Settled(g.findings, more, majors(more), retracted(more))
    BY DEF refute_findings
  <1>7. \A l \in Locs :
          l \in refute_findings(g, more) <=>
            IF call.at = l /\ i \in majors(more) \cup retracted(more) THEN i \in majors(more)
            ELSE l \in refute_findings(g, rs)
    <2>1. PICK m0, m1, r0, r1 : m0 = majors(rs) /\ m1 = majors(more) /\ r0 = retracted(rs) /\ r1 = retracted(more)
      OBVIOUS
    <2>2. /\ m0 \cup r0 \subseteq DOMAIN rs
          /\ m1 = m0 \/ m1 = m0 \cup {i}
          /\ r1 = r0 \/ r1 = r0 \cup {i}
          /\ refute_findings(g, rs) = Settled(g.findings, rs, m0, r0)
          /\ refute_findings(g, more) = Settled(g.findings, more, m1, r1)
      BY <1>4, <1>5, <2>1
    <2> HIDE DEF majors, retracted
    <2>3. ASSUME NEW l \in Locs
          PROVE  l \in refute_findings(g, more) <=>
                   IF call.at = l /\ i \in m1 \cup r1 THEN i \in m1 ELSE l \in refute_findings(g, rs)
      <3> DEFINE own == {k \in m0 \cup r0 : rs[k].call.at = l}
                 all == {k \in m1 \cup r1 : more[k].call.at = l}
      <3>1. /\ l \in refute_findings(g, rs) <=>
                   IF own = {} THEN l \in g.findings ELSE \E k \in own : k \in m0 /\ \A j \in own : j <= k
            /\ l \in refute_findings(g, more) <=>
                   IF all = {} THEN l \in g.findings ELSE \E k \in all : k \in m1 /\ \A j \in all : j <= k
        BY <2>2 DEF Settled
      <3>2. CASE call.at = l /\ i \in m1 \cup r1
        <4>1. i \in all /\ \A j \in all : j = i \/ (j \in Nat /\ j < i) BY <1>0, <1>1, <2>2, <3>2
        <4> HIDE DEF own, all
        <4>2. (\E k \in all : k \in m1 /\ \A j \in all : j <= k) <=> i \in m1
          BY <1>0, <4>1
        <4> QED BY <3>1, <3>2, <4>1, <4>2
      <3>3. CASE ~ (call.at = l /\ i \in m1 \cup r1)
        <4>1. all = own BY <1>0, <1>1, <2>2, <3>3
        <4>2. \A k \in own : k \in m1 <=> k \in m0 BY <1>0, <2>2
        <4> HIDE DEF own, all
        <4> QED BY <3>1, <3>3, <4>1, <4>2
      <3> QED BY <3>2, <3>3
    <2> QED BY <2>1, <2>3
  <1> HIDE DEF majors, retracted
  <1>6. ASSUME NEW l \in Locs, Told(b, more[i]).held[l] = "P1" PROVE l \in refute_findings(g, more)
    <2>1. Told(b, more[i]).held[l] =
            IF l = call.at /\ call.tool \in {"add", "sast", "retract"} /\ word \in {"ok", "told"}
            THEN Left(call) ELSE b.held[l]
      BY ToldFields
    <2>2. l \in refute_findings(g, more) <=>
            IF call.at = l /\ i \in majors(more) \cup retracted(more) THEN i \in majors(more)
            ELSE l \in refute_findings(g, rs)
      BY <1>7
    <2>3. CASE l = call.at /\ call.tool \in {"add", "sast", "retract"} /\ word \in {"ok", "told"}
      <3>1. call.tool = "add" /\ call.priority = "P1" BY <1>6, <2>1, <2>3 DEF Left
      <3>2. word = "ok" BY <2>3, <3>1
      <3> QED BY <1>2, <2>2, <2>3, <3>1, <3>2
    <2>4. CASE ~ (l = call.at /\ call.tool \in {"add", "sast", "retract"} /\ word \in {"ok", "told"})
      <3>1. l \in refute_findings(g, rs) BY <1>6, <2>1, <2>4 DEF Blocked
      <3>2. ~ (call.at = l /\ i \in majors(more) \cup retracted(more)) BY <1>2, <2>4
      <3> QED BY <2>2, <3>1, <3>2
    <2> QED BY <2>3, <2>4
  <1> QED BY <1>6 DEF Blocked

----------------------------------------------------------------------------
(* The refute gate and the turn after its bounce, on the native host.       *)

\* The gates look at the findings of a turn through its results alone.
LEMMA BlockedSame ==
  ASSUME NEW b, NEW g, NEW h, NEW rs, h.findings = g.findings, Blocked(b, g, rs)
  PROVE  Blocked(b, h, rs)
  BY DEF Blocked, refute_findings

\* Before any result, the gate knows what it knew.
LEMMA BlockedBefore ==
  ASSUME NEW b, NEW g, NEW rs, DOMAIN rs = {}
  PROVE  Blocked(b, g, rs) <=> \A l \in Locs : b.held[l] = "P1" => l \in g.findings
  <1>1. \A l \in Locs : l \in refute_findings(g, rs) <=> l \in g.findings
    BY DEF refute_findings, Settled
  <1> QED BY <1>1 DEF Blocked

\* What a step makes of the gates and of what the host knows.
LEMMA WatchFrame ==
  ASSUME Next, HostPlaces, JournalOK, world.host = "native"
  PROVE  \/ Started
         \/ before_turn
         \/ pc = "asking" /\ \E calls, by : Answered(calls, by)
         \/ pc = "asking" /\ pc' = "turn" /\ UNCHANGED <<gates, believed>> /\ "gap" \in faults'
         \/ pc = "reads" /\ \E batch : ReadsReturn(batch)
         \/ \E word \in Words : Dispatching /\ ToolReturns(word) /\ (word = "told" => Current.tool = "sast")
         \/ finished \/ bounced \/ keeps_going
         \/ UNCHANGED <<pc, gates, believed, results, outcome, offered, reverify>>
         \/ pc' \in {"start", "failed"}
         \/ pc' \in EndPlaces \cup {"ended"} /\ outcome' # "finished"
         \/ /\ pc \in EndPlaces /\ pc' \in EndPlaces \cup {"ended"}
            /\ UNCHANGED <<gates, believed, outcome, reverify>>
  <1>1. call_replay => \E word \in Words : Dispatching /\ ToolReturns(word) /\ (word = "told" => Current.tool = "sast")
    <2>1. SUFFICES ASSUME call_replay
                   PROVE  \E word \in Words : Dispatching /\ ToolReturns(word) /\ (word = "told" => Current.tool = "sast")
      OBVIOUS
    <2>2. PICK row \in journal.write : ToolReturns(IF Current.tool = "sast" THEN "told" ELSE row[2])
      BY <2>1 DEF call_replay
    <2>3. row[2] \in Words /\ row[2] # "told" /\ "told" \in Words BY DEF JournalOK, Words
    <2> QED BY <2>1, <2>2, <2>3 DEF call_replay, Stepping
  <1>2. \/ call_batched \/ call_live \/ call_unjournaled \/ call_refused \/ call_unanswered \/ call_unbuffered
        => \E word \in Words : Dispatching /\ ToolReturns(word) /\ (word = "told" => Current.tool = "sast")
    BY DEF call_batched, call_live, call_unjournaled, call_refused, call_unanswered, call_unbuffered, Answer,
           Stepping, Words
  <1>3. llm_replay \/ llm_live \/ llm_unjournaled => pc = "asking" /\ \E calls, by : Answered(calls, by)
    BY DEF llm_replay, llm_live, llm_unjournaled
  <1>4. reads_replay \/ reads_live \/ reads_unjournaled => pc = "reads" /\ \E batch : ReadsReturn(batch)
    BY DEF reads_replay, reads_live, reads_unjournaled, ReadsReturn
  <1>5. llm_transient \/ llm_overflow \/ llm_fatal =>
          \/ pc = "asking" /\ pc' = "turn" /\ UNCHANGED <<gates, believed>> /\ "gap" \in faults'
          \/ pc' \in EndPlaces \cup {"ended"} /\ outcome' # "finished"
    BY DEF llm_transient, llm_overflow, llm_fatal, TurnLost, Note, EndPlaces
  <1>6. context_fills \/ sweep_durable_steps =>
          UNCHANGED <<pc, gates, believed, results, outcome, offered, reverify>>
    BY DEF context_fills, sweep_durable_steps
  <1>7. crash \/ job_deadline \/ call_dies \/ finalize_review_fails => pc' \in {"start", "failed"}
    BY DEF crash, job_deadline, call_dies, finalize_review_fails
  <1>8. aborted \/ exhausted => pc' \in EndPlaces \cup {"ended"} /\ outcome' # "finished"
    BY DEF aborted, exhausted, Settle, EndPlaces
  <1>9. post_disclosure \/ post_disclosure_fails \/ PostStep \/ clear_findings_fails \/ set_review_summary_fails
        => /\ pc \in EndPlaces /\ pc' \in EndPlaces \cup {"ended"}
           /\ UNCHANGED <<gates, believed, outcome, reverify>>
    BY DEF post_disclosure, post_disclosure_fails, PostStep, clear_findings, set_review_summary, keep_summary,
           finalize_review, report_error, clear_findings_fails, set_review_summary_fails, Summarising,
           PostOnly, EndPlaces
  <1>10. ~ ChildStep /\ ~ spawn_fails /\ ~ reader_loop_ends
         /\ ~ \E i \in DOMAIN stage : tools_call_refused(i) \/ tools_call_unanswered(i) \/ tools_call_unbuffered(i)
    BY DEF HostPlaces, ChildStep, spawn, prompt, tool_before, tools_call, tool_after, CycleOver,
           on_cycle_aborts, on_cycle_accepts, on_cycle_exhausts, on_cycle_prompts, spawn_fails,
           reader_loop_ends, tools_call_refused, tools_call_unanswered, tools_call_unbuffered
  <1>11. report_running \/ report_running_unsure => Started
    BY DEF report_running, report_running_unsure
  <1> QED BY <1>1, <1>2, <1>3, <1>4, <1>5, <1>6, <1>7, <1>8, <1>9, <1>10, <1>11
          DEF Next, Step, NativeStep, Fault

\* What the end of a turn leaves with the gates.
LEMMA TurnGates ==
  ASSUME GatesOK
  PROVE  LET g == Ruled(AfterTurn, turn, MaxTurns)
         IN  /\ AfterTurn.findings = refute_findings(gates, results) /\ AfterTurn.bounced = gates.bounced
             /\ g.findings = refute_findings(gates, results)
             /\ g.bounced = (gates.bounced \/ refute_rejects(AfterTurn))
             /\ g.force = refute_rejects(AfterTurn)
             /\ disclose(g).findings = g.findings /\ disclose(g).bounced = g.bounced
  <1>1. /\ DOMAIN Scratchpad(gates, results) = DOMAIN NewGates
        /\ Scratchpad(gates, results).findings = gates.findings
        /\ Scratchpad(gates, results).bounced = gates.bounced
    BY ScratchpadFields DEF GatesOK
  <1>2. /\ DOMAIN AfterTurn = DOMAIN NewGates /\ AfterTurn.bounced = gates.bounced
        /\ AfterTurn.findings = refute_findings(Scratchpad(gates, results), results)
    BY <1>1, ObserveFields DEF AfterTurn
  <1>3. refute_findings(Scratchpad(gates, results), results) = refute_findings(gates, results)
    BY <1>1 DEF refute_findings
  <1> DEFINE g == Ruled(AfterTurn, turn, MaxTurns)
  <1>4. /\ DOMAIN g = DOMAIN NewGates /\ g.findings = AfterTurn.findings
        /\ g.bounced = (AfterTurn.bounced \/ refute_rejects(AfterTurn))
    BY <1>2, RuledFields
  <1>5. g.force = refute_rejects(AfterTurn)
    BY <1>2 DEF Ruled, NewGates
  <1>6. disclose(g).findings = g.findings /\ disclose(g).bounced = g.bounced BY <1>4, DiscloseFields
  <1> QED BY <1>2, <1>3, <1>4, <1>5, <1>6

\* Appending a result extends the results.
LEMMA AppendExtends ==
  ASSUME NEW S, NEW s \in Seq(S), NEW e
  PROVE  Extends(s, Append(s, e), Len(s) + 1) /\ Append(s, e)[Len(s) + 1] = e
  <1>1. /\ Len(s) \in Nat /\ DOMAIN s = 1 .. Len(s) /\ DOMAIN Append(s, e) = 1 .. Len(s) + 1
        /\ \A k \in 1 .. Len(s) : Append(s, e)[k] = s[k]
        /\ Append(s, e)[Len(s) + 1] = e
    OBVIOUS
  <1> HIDE DEF Extends
  <1>2. (1 .. Len(s) + 1) = (1 .. Len(s)) \cup {Len(s) + 1} /\ (Len(s) + 1) - 1 = Len(s) BY <1>1
  <1> QED BY <1>1, <1>2 DEF Extends

\* The gate knows of every blocking finding when it judges a finish.
LEMMA InvWatched ==
  ASSUME Inv, Watched, [Next]_vars PROVE Watched'
  <1> SUFFICES ASSUME world.host = "native"
               PROVE  /\ (pc \in {"turn", "asking"} => Blocked(believed, gates, <<>>))'
                      /\ (pc = "reads" => results = <<>>)'
                      /\ (pc \in {"reads", "tools"} => Blocked(believed, gates, results))'
                      /\ (pc \in EndPlaces \cup {"ended"} /\ outcome = "finished" =>
                            Blocked(believed, gates, <<>>) /\ Verified(gates))'
    BY WorldFixed DEF Watched, Inv, TypeOK
  <1>0. /\ HostPlaces /\ JournalOK /\ GatesOK /\ AnswerOK BY DEF Inv, TypeOK
  <1>1. ASSUME UNCHANGED <<pc, gates, believed, results, outcome>>
        PROVE  /\ (pc \in {"turn", "asking"} => Blocked(believed, gates, <<>>))'
               /\ (pc = "reads" => results = <<>>)'
               /\ (pc \in {"reads", "tools"} => Blocked(believed, gates, results))'
               /\ (pc \in EndPlaces \cup {"ended"} /\ outcome = "finished" =>
                     Blocked(believed, gates, <<>>) /\ Verified(gates))'
    BY <1>1 DEF Watched
  <1>2. CASE UNCHANGED vars BY <1>1, <1>2 DEF vars
  <1>3. CASE Started
    <2>1. /\ pc' = "turn" /\ believed' = Nothing BY <1>3 DEF Started, FirstStep
    <2>2. Blocked(believed', gates', <<>>)
      <3>1. \A l \in Locs : believed'.held[l] # "P1" BY <2>1 DEF Nothing, EmptyBuffer
      <3> QED BY <3>1 DEF Blocked
    <2> QED BY <2>1, <2>2 DEF EndPlaces
  <1>4. CASE before_turn
    <2>1. /\ pc = "turn" /\ pc' = "asking" /\ UNCHANGED believed /\ gates'.findings = gates.findings
      BY <1>0, <1>4 DEF before_turn, GatesOK, NewGates
    <2>2. Blocked(believed', gates', <<>>) BY <2>1, BlockedSame DEF Watched
    <2> QED BY <2>1, <2>2 DEF EndPlaces
  <1>5. CASE pc = "asking" /\ \E calls, by : Answered(calls, by)
    <2>1. /\ results' = <<>> /\ UNCHANGED <<gates, believed>> /\ pc' \in {"turn", "tools", "reads"}
      BY <1>5 DEF Answered
    <2>2. Blocked(believed', gates', <<>>) BY <1>5, <2>1 DEF Watched
    <2> QED BY <2>1, <2>2 DEF EndPlaces
  <1>6. CASE pc = "asking" /\ pc' = "turn" /\ UNCHANGED <<gates, believed>>
    <2>1. Blocked(believed', gates', <<>>) BY <1>6 DEF Watched
    <2> QED BY <1>6, <2>1 DEF EndPlaces
  <1>7. CASE pc = "reads" /\ \E batch : ReadsReturn(batch)
    <2>1. /\ UNCHANGED <<results, gates, believed>> /\ pc' = "tools" BY <1>7 DEF ReadsReturn
    <2> QED BY <1>7, <2>1 DEF Watched, EndPlaces
  <1>8. ASSUME NEW word \in Words, Dispatching, ToolReturns(word), word = "told" => Current.tool = "sast"
        PROVE  /\ pc' = "tools" /\ Blocked(believed', gates', results')
    <2>1. /\ pc = "tools" /\ pc' = "tools" /\ UNCHANGED gates
          /\ results' = Append(results, Result(Current, word))
          /\ believed' = Told(believed, Result(Current, word))
      BY <1>8 DEF Dispatching, ToolReturns, Told
    <2>2. /\ Extends(results, results', Len(results) + 1)
          /\ results'[Len(results) + 1] = Result(Current, word)
      <3>1. results \in Seq([call : Calls, res : Words]) BY <1>0 DEF AnswerOK
      <3> QED BY <2>1, <3>1, AppendExtends
    <2>3. Blocked(believed, gates, results) BY <2>1 DEF Watched
    <2>4. Blocked(Told(believed, results'[Len(results) + 1]), gates, results')
      <3> DEFINE i == Len(results) + 1
      <3>1. Extends(results, results', i) /\ results'[i] = Result(Current, word) BY <2>2
      <3>2. word = "told" => Current.tool = "sast" BY <1>8
      <3> HIDE DEF i
      <3>3. Blocked(Told(believed, results'[i]), gates, results')
        BY <2>3, <3>1, <3>2, BlockedExtended, ZenonT(30)
      <3> QED BY <3>3 DEF i
    <2> QED BY <2>1, <2>2, <2>4
  <1>9. CASE \E word \in Words : Dispatching /\ ToolReturns(word) /\ (word = "told" => Current.tool = "sast")
    <2>1. pc' = "tools" /\ Blocked(believed', gates', results') BY <1>8, <1>9
    <2> QED BY <2>1 DEF EndPlaces
  <1>10. ASSUME pc = "tools", UNCHANGED believed, gates'.findings = refute_findings(gates, results)
         PROVE  Blocked(believed', gates', <<>>)
    <2>1. \A l \in Locs : believed.held[l] = "P1" => l \in refute_findings(gates, results)
      BY <1>10 DEF Watched, Blocked
    <2>2. DOMAIN <<>> = {} OBVIOUS
    <2> QED BY <1>10, <2>1, <2>2, BlockedBefore
  <1>11. CASE finished
    <2>1. /\ pc = "tools" /\ pc' = "disclose" /\ UNCHANGED believed
          /\ gates' = disclose(Ruled(AfterTurn, turn, MaxTurns)) /\ ~ refute_rejects(AfterTurn)
      BY <1>11 DEF finished, TurnOver, Settle, Rejected
    <2>2. /\ gates'.findings = refute_findings(gates, results)
          /\ gates'.bounced \/ gates'.findings = {}
      <3>1. AfterTurn.bounced \/ AfterTurn.findings = {} BY <2>1 DEF refute_rejects
      <3>2. /\ gates'.findings = refute_findings(gates, results)
            /\ gates'.bounced = (gates.bounced \/ refute_rejects(AfterTurn))
            /\ AfterTurn.findings = refute_findings(gates, results) /\ AfterTurn.bounced = gates.bounced
        BY <1>0, <2>1, TurnGates
      <3> QED BY <2>1, <3>1, <3>2
    <2>3. Blocked(believed', gates', <<>>) BY <1>10, <2>1, <2>2
    <2> QED BY <2>1, <2>2, <2>3 DEF Verified
  <1>12. CASE bounced \/ keeps_going
    <2>1. /\ pc = "tools" /\ pc' = "turn" /\ UNCHANGED believed
          /\ gates' = AfterTurn \/ gates' = Ruled(AfterTurn, turn, MaxTurns)
      BY <1>12 DEF bounced, keeps_going, TurnOver, NextTurn
    <2>2. gates'.findings = refute_findings(gates, results) BY <1>0, <2>1, TurnGates
    <2>3. Blocked(believed', gates', <<>>) BY <1>10, <2>1, <2>2
    <2> QED BY <2>1, <2>3 DEF EndPlaces
  <1>13. CASE /\ pc \in EndPlaces /\ pc' \in EndPlaces \cup {"ended"}
              /\ UNCHANGED <<gates, believed, outcome>>
    BY <1>13 DEF Watched, EndPlaces
  <1>14. CASE \/ pc' \in {"start", "failed"}
              \/ pc' \in EndPlaces \cup {"ended"} /\ outcome' # "finished"
    BY <1>14 DEF EndPlaces
  <1>15. CASE Next
    BY <1>0, <1>1, <1>3, <1>4, <1>5, <1>6, <1>7, <1>9, <1>11, <1>12, <1>13, <1>14, <1>15, WatchFrame
  <1> QED BY <1>2, <1>15

\* A bounce for a blocking finding opens the next turn to the tools that look things up.
LEMMA InvRechecked ==
  ASSUME Inv, Rechecked, [Next]_vars PROVE Rechecked'
  <1> SUFFICES ASSUME world.host = "native", "gap" \notin faults', gates'.bounced
               PROVE  /\ pc' = "turn" => gates'.force \/ reverify' = "done"
                      /\ pc' = "asking" => reverify' = "done" \/ (reverify' = "due" /\ ReadTools \subseteq offered')
                      /\ pc' \in {"reads", "tools"} => reverify' = "done"
                      /\ pc' \in EndPlaces \cup {"ended"} /\ outcome' = "finished" => reverify' = "done"
    BY WorldFixed DEF Rechecked, Inv, TypeOK
  <1>0. /\ HostPlaces /\ JournalOK /\ GatesOK /\ AnswerOK /\ "gap" \notin faults
    BY FaultsGrow DEF Inv, TypeOK
  <1>1. CASE UNCHANGED <<pc, gates, outcome, offered, reverify>> BY <1>0, <1>1 DEF Rechecked
  <1>2. CASE UNCHANGED vars BY <1>1, <1>2 DEF vars
  <1>3. CASE Started BY <1>3 DEF Started, NewGates
  <1>4. CASE before_turn
    <2>1. /\ pc = "turn" /\ pc' = "asking" /\ gates'.bounced = gates.bounced
          /\ reverify' = (IF gates.force THEN "due" ELSE reverify)
          /\ gates.force => ReadTools \subseteq offered'
      BY <1>0, <1>4 DEF before_turn, GatesOK, NewGates, Offered, reverify_tool_filter
    <2> QED BY <1>0, <2>1 DEF Rechecked, EndPlaces
  <1>5. CASE pc = "asking" /\ \E calls, by : Answered(calls, by)
    <2>1. /\ UNCHANGED gates /\ pc' \in {"turn", "tools", "reads"}
          /\ reverify' = IF reverify = "due" THEN (IF ReadTools \subseteq offered THEN "done" ELSE "blind")
                         ELSE reverify
      BY <1>5 DEF Answered
    <2>2. reverify' = "done" BY <1>0, <1>5, <2>1 DEF Rechecked
    <2> QED BY <2>1, <2>2
  <1>6. CASE pc = "reads" /\ \E batch : ReadsReturn(batch)
    <2>1. /\ UNCHANGED <<gates, reverify>> /\ pc' = "tools" BY <1>6 DEF ReadsReturn
    <2> QED BY <1>0, <1>6, <2>1 DEF Rechecked
  <1>7. CASE \E word \in Words : Dispatching /\ ToolReturns(word)
    <2>1. /\ UNCHANGED <<pc, gates, reverify>> /\ pc = "tools" BY <1>7 DEF ToolReturns, Dispatching
    <2> QED BY <1>0, <2>1 DEF Rechecked
  <1>8. CASE finished
    <2>1. /\ pc = "tools" /\ UNCHANGED reverify
          /\ gates' = disclose(Ruled(AfterTurn, turn, MaxTurns)) /\ ~ refute_rejects(AfterTurn)
      BY <1>8 DEF finished, TurnOver, Settle, Rejected
    <2>2. gates.bounced BY <1>0, <2>1, TurnGates
    <2>3. reverify' = "done" BY <1>0, <2>1, <2>2 DEF Rechecked
    <2>4. pc' = "disclose" BY <1>8 DEF finished, Settle
    <2> QED BY <2>3, <2>4
  <1>9. CASE bounced \/ keeps_going
    <2>1. /\ pc = "tools" /\ pc' = "turn" /\ UNCHANGED reverify
          /\ gates' = AfterTurn \/ gates' = Ruled(AfterTurn, turn, MaxTurns)
      BY <1>9 DEF bounced, keeps_going, TurnOver, NextTurn
    <2>2. gates'.force \/ gates.bounced BY <1>0, <2>1, TurnGates
    <2>3. gates.bounced => reverify = "done" BY <1>0, <2>1 DEF Rechecked
    <2> QED BY <2>1, <2>2, <2>3 DEF EndPlaces
  <1>10. CASE /\ pc \in EndPlaces /\ pc' \in EndPlaces \cup {"ended"}
              /\ UNCHANGED <<gates, outcome, reverify>>
    BY <1>0, <1>10 DEF Rechecked, EndPlaces
  <1>11. CASE \/ pc' \in {"start", "failed"}
              \/ pc' \in EndPlaces \cup {"ended"} /\ outcome' # "finished"
    BY <1>11 DEF EndPlaces
  <1>12. CASE Next
    BY <1>0, <1>1, <1>3, <1>4, <1>5, <1>6, <1>7, <1>8, <1>9, <1>10, <1>11, <1>12, WatchFrame
  <1> QED BY <1>2, <1>12

----------------------------------------------------------------------------
(* The findings and replies of a cycle, on the OpenCode host.               *)

\* Only a start that could not read its journal counts as fresh without being it.
LEMMA FreshFrame ==
  ASSUME Next, ~ report_running_unsure PROVE "fresh" \in faults' => "fresh" \in faults
  <1>1. report_running \/ NativeStep => faults' = faults \/ faults' = faults \cup {"told"}
    BY DEF report_running, NativeStep, before_turn, llm_replay, llm_live, reads_replay, reads_live,
       call_batched, call_replay, call_live, aborted, finished, bounced, keeps_going, exhausted,
       post_disclosure, Settle, NextTurn
  <1>2. PostStep => faults' = faults
    BY DEF PostStep, clear_findings, set_review_summary, keep_summary, finalize_review, report_error
  <1>3. ChildStep => faults' = faults \/ faults' = faults \cup {"swallow"}
    BY DEF ChildStep, spawn, prompt, tool_before, tools_call, tool_after, record, Note,
       on_cycle_aborts, on_cycle_accepts, on_cycle_exhausts, on_cycle_prompts, Resolve
  <1>4. Fault /\ ~ report_running_unsure => \E f : f # "fresh" /\ faults' \subseteq faults \cup {f}
    <2>1. \/ llm_unjournaled \/ reads_unjournaled \/ call_unjournaled
          => faults' = faults \cup {"journal"}
      BY DEF llm_unjournaled, reads_unjournaled, call_unjournaled, JournalFails, Note
    <2>2. \/ crash \/ job_deadline \/ context_fills \/ llm_transient \/ llm_overflow \/ llm_fatal \/ call_dies
          \/ call_refused \/ call_unanswered \/ call_unbuffered \/ sweep_durable_steps
          => faults' = faults \/ \E f \in {"gap", "died", "refused", "unanswered", "unbuffered", "ttl"} :
                                    faults' = faults \cup {f}
      BY DEF crash, job_deadline, context_fills, llm_transient, llm_overflow, llm_fatal, call_dies, call_refused,
         call_unanswered, call_unbuffered, sweep_durable_steps, Note
    <2>3. \/ post_disclosure_fails \/ spawn_fails \/ reader_loop_ends \/ clear_findings_fails
          \/ set_review_summary_fails \/ finalize_review_fails
          \/ \E i \in DOMAIN stage : tools_call_refused(i) \/ tools_call_unanswered(i) \/ tools_call_unbuffered(i)
          => \E f \in {"undisclosed", "child", "refused", "unanswered", "unbuffered", "uncleared",
                        "unsummarised", "finalize"} : faults' = faults \cup {f}
      BY DEF post_disclosure_fails, spawn_fails, reader_loop_ends, tools_call_refused, tools_call_unanswered,
         tools_call_unbuffered, clear_findings_fails, set_review_summary_fails, finalize_review_fails, Note
    <2> QED BY <2>1, <2>2, <2>3 DEF Fault
  <1> QED BY <1>1, <1>2, <1>3, <1>4 DEF Next, Step

\* The journal of a child stays empty, and its starts are fresh ones.
LEMMA InvChildStarts ==
  ASSUME Inv, ChildStarts, [Next]_vars PROVE ChildStarts'
  <1> SUFFICES ASSUME world.host = "opencode" PROVE (journal = NoJournal /\ "fresh" \notin faults)'
    BY WorldFixed DEF ChildStarts, Inv, TypeOK
  <1>0. journal = NoJournal /\ "fresh" \notin faults /\ HostPlaces BY DEF ChildStarts, Inv
  <1>1. CASE UNCHANGED vars BY <1>0, <1>1 DEF vars
  <1>2. CASE Next
    <2>1. ~ report_running_unsure BY <1>0 DEF report_running_unsure, is_fresh_attempt
    <2>2. ~ sweep_durable_steps BY <1>0 DEF sweep_durable_steps, NoJournal
    <2>3. journal' = NoJournal
      BY <1>0, <1>2, <2>2, JournalFrame DEF HostPlaces, ReadsReturn, Stepping, Dispatching, finalize_review
    <2> QED BY <1>0, <1>2, <2>1, <2>3, FreshFrame
  <1> QED BY <1>1, <1>2

\* A step of a child's call whose effect the host sees.
CallSteps(i) == tool_before(i) \/ tools_call(i) \/ tools_call_refused(i) \/ tool_after(i)

\* The steps of a run under the OpenCode host.
LEMMA ChildFrame ==
  ASSUME Next, HostPlaces, world.host = "opencode", journal = NoJournal
  PROVE  \/ Started /\ clear_pending_review
         \/ pc' \in {"start", "failed"}
         \/ spawn
         \/ prompt
         \/ \E i \in DOMAIN stage : CallSteps(i)
         \/ \E i \in DOMAIN stage : tools_call_unanswered(i) \/ tools_call_unbuffered(i)
         \/ on_cycle_aborts \/ on_cycle_accepts \/ on_cycle_exhausts \/ on_cycle_prompts
         \/ pc' \in EndPlaces \cup {"ended"} /\ outcome' = "error"
         \/ /\ pc \in EndPlaces /\ pc' \in EndPlaces \cup {"ended"}
            /\ UNCHANGED <<gates, believed, outcome, recorder>>
            /\ outcome = "aborted" \/ UNCHANGED <<buffer, replies>>
  <1>1. report_running => Started /\ clear_pending_review BY DEF report_running, is_fresh_attempt
  <1>2. ~ report_running_unsure BY DEF report_running_unsure, is_fresh_attempt
  <1>3. ~ sweep_durable_steps BY DEF sweep_durable_steps, NoJournal
  <1>4. crash \/ job_deadline \/ finalize_review_fails => pc' \in {"start", "failed"} BY DEF crash, job_deadline, finalize_review_fails
  <1>5. spawn_fails \/ reader_loop_ends => pc' \in EndPlaces \cup {"ended"} /\ outcome' = "error"
    BY DEF spawn_fails, reader_loop_ends, EndPlaces
  <1>6. PostStep \/ clear_findings_fails \/ set_review_summary_fails
        => /\ pc \in EndPlaces /\ pc' \in EndPlaces \cup {"ended"}
           /\ UNCHANGED <<gates, believed, outcome, recorder>>
           /\ outcome = "aborted" \/ UNCHANGED <<buffer, replies>>
    BY DEF PostStep, clear_findings, set_review_summary, keep_summary, finalize_review, report_error,
           clear_findings_fails, set_review_summary_fails, Summarising, PostOnly, EndPlaces
  <1>7. /\ ~ NativeStep /\ ~ context_fills /\ ~ llm_unjournaled /\ ~ llm_transient /\ ~ llm_overflow /\ ~ llm_fatal
        /\ ~ reads_unjournaled /\ ~ call_unjournaled /\ ~ call_dies /\ ~ call_refused /\ ~ call_unanswered
        /\ ~ call_unbuffered /\ ~ post_disclosure_fails
    BY DEF HostPlaces, NativeStep, before_turn, llm_replay, llm_live, reads_replay, reads_live, ReadsReturn,
           call_batched, call_replay, call_live, Stepping, Dispatching, aborted, finished, bounced, keeps_going,
           TurnOver, exhausted, post_disclosure, context_fills, llm_unjournaled, llm_transient, llm_overflow,
           llm_fatal, reads_unjournaled, call_unjournaled, call_dies, call_refused, call_unanswered,
           call_unbuffered, post_disclosure_fails
  <1> QED BY <1>1, <1>2, <1>3, <1>4, <1>5, <1>6, <1>7 DEF Next, Step, ChildStep, Fault, CallSteps

\* Calls start in their order, and the recorder has the result of each one that ended.
LEMMA InvInOrder ==
  ASSUME Inv, InOrder, ChildStarts, [Next]_vars PROVE InOrder'
  <1>0. /\ HostPlaces /\ RecorderOK /\ AnswerOK /\ Overheard /\ WorldOK /\ world'.parallel = world.parallel
        /\ world'.host = world.host /\ HostPlaces'
    BY WorldFixed, NextInv DEF Inv, TypeOK
  <1>1. CASE UNCHANGED vars BY <1>1 DEF vars, InOrder
  <1>2. CASE pc' \notin {"spawn", "prompt", "cycle"} BY <1>2 DEF InOrder
  <1>3. CASE Started BY <1>3 DEF Started, FirstStep, InOrder
  <1>4. CASE spawn BY <1>4 DEF spawn, InOrder
  <1>5. CASE on_cycle_prompts BY <1>5 DEF on_cycle_prompts, NextRecorder, InOrder
  <1>6. CASE prompt
    <2>1. /\ \A i \in DOMAIN stage' : stage'[i] = "todo"
          /\ recorder'.lines = <<>> /\ pc' = "cycle"
      BY <1>6 DEF prompt, InOrder
    <2>2. Range(recorder'.lines) = {} BY <2>1 DEF Range
    <2> QED BY <2>1, <2>2 DEF InOrder
  <1>7. ASSUME NEW i \in DOMAIN stage, NEW next \in {"begun", "ok", "error", "ended"}, CycleStep(i, next),
               stage[i] = "todo" => (~ world.parallel => \A j \in DOMAIN stage : j < i => stage[j] = "ended"),
               stage[i] # "ended",
               \A l \in Range(recorder'.lines) :
                  l \in Range(recorder.lines) \/ (l.kind = "after" => l.at = i /\ next = "ended")
        PROVE  InOrder'
    <2>1. /\ pc = "cycle" /\ pc' = "cycle" /\ stage' = [stage EXCEPT ![i] = next] /\ DOMAIN stage' = DOMAIN stage
          /\ stage'[i] = next /\ \A j \in DOMAIN stage : j # i => stage'[j] = stage[j]
      BY <1>7 DEF CycleStep
    <2>2. \A l \in Range(recorder'.lines) : l.kind = "after" => stage'[l.at] = "ended"
      <3>1. SUFFICES ASSUME NEW l \in Range(recorder'.lines), l.kind = "after" PROVE stage'[l.at] = "ended"
        OBVIOUS
      <3>2. CASE l \in Range(recorder.lines)
        <4>1. stage[l.at] = "ended" /\ l.at # i BY <1>7, <2>1, <3>1, <3>2 DEF InOrder
        <4> QED BY <2>1, <4>1
      <3> QED BY <1>7, <2>1, <3>1, <3>2
    <2>3. ~ world.parallel => \A k, j \in DOMAIN stage' : k < j /\ stage'[j] # "todo" => stage'[k] = "ended"
      <3>1. SUFFICES ASSUME ~ world.parallel, NEW k \in DOMAIN stage, NEW j \in DOMAIN stage, k < j,
                            stage'[j] # "todo"
                     PROVE  stage'[k] = "ended"
        BY <2>1
      <3>2. stage[k] = "ended"
        <4>1. CASE j = i BY <1>7, <2>1, <3>1, <4>1 DEF InOrder
        <4>2. CASE j # i BY <2>1, <3>1, <4>2 DEF InOrder
        <4> QED BY <4>1, <4>2
      <3> QED BY <1>7, <2>1, <3>2
    <2>4. \A j \in DOMAIN stage' : stage'[j] \in {"todo", "begun", "ok", "error", "ended"}
      BY <1>7, <2>1 DEF InOrder
    <2> QED BY <1>0, <2>1, <2>2, <2>3, <2>4 DEF InOrder
  <1>8. ASSUME NEW line, record(line), RecorderOK, line \in [kind : {"before", "after"}, at : Nat, res : Words]
        PROVE  \A l \in Range(recorder'.lines) : l \in Range(recorder.lines) \/ l = line
    <2>1. UNCHANGED recorder \/ recorder' = [recorder EXCEPT !.lines = Append(@, line)]
      BY <1>8 DEF record
    <2>2. /\ recorder.lines \in Seq([kind : {"before", "after"}, at : Nat, res : Words])
          /\ DOMAIN recorder = {"lines", "before"}
      BY <1>8 DEF RecorderOK
    <2>3. Range(Append(recorder.lines, line)) \subseteq Range(recorder.lines) \cup {line}
      <3>1. PICK s : s = recorder.lines OBVIOUS
      <3>2. s \in Seq([kind : {"before", "after"}, at : Nat, res : Words]) BY <2>2, <3>1
      <3>3. /\ Len(s) \in Nat /\ DOMAIN s = 1 .. Len(s) /\ DOMAIN Append(s, line) = 1 .. Len(s) + 1
            /\ \A k \in 1 .. Len(s) : Append(s, line)[k] = s[k]
            /\ Append(s, line)[Len(s) + 1] = line
        BY <3>2
      <3> QED BY <3>1, <3>3 DEF Range
    <2> QED BY <2>1, <2>2, <2>3
  <1>9. ASSUME NEW i \in DOMAIN stage, CallSteps(i) \/ tools_call_unanswered(i) \/ tools_call_unbuffered(i)
        PROVE  InOrder'
    <2>0. i \in Nat /\ pc = "cycle" /\ \A j \in DOMAIN stage : j \in Nat
      BY <1>0, <1>9 DEF Overheard, AnswerOK, CallSteps, tool_before, tool_after, tools_call, tools_call_refused,
         tools_call_unanswered, tools_call_unbuffered
    <2>1. CASE tool_before(i)
      <3>1. /\ CycleStep(i, "begun") /\ stage[i] = "todo" /\ record(Line("before", i, "none"))
        BY <2>1 DEF tool_before, MayBegin
      <3>2. ~ world.parallel => \A j \in DOMAIN stage : j < i => stage[j] = "ended"
        <4>1. DOMAIN stage = 1 .. Len(script) BY <1>0, <2>0 DEF Overheard, AnswerOK
        <4>2. \A j \in DOMAIN stage : j < i => j \in 1 .. i - 1 BY <2>0, <4>1
        <4> QED BY <2>1, <4>2 DEF tool_before, MayBegin
      <3>3. Line("before", i, "none") \in [kind : {"before", "after"}, at : Nat, res : Words]
        BY <2>0 DEF Line, Words
      <3>4. \A l \in Range(recorder'.lines) : l \in Range(recorder.lines) \/ l = Line("before", i, "none")
        BY <1>0, <1>8, <3>1, <3>3
      <3>5. Line("before", i, "none").kind # "after" BY DEF Line
      <3> QED BY <1>7, <3>1, <3>2, <3>4, <3>5
    <2>2. CASE tool_after(i)
      <3>1. /\ CycleStep(i, "ended") /\ stage[i] \in {"ok", "error"} /\ record(Line("after", i, stage[i]))
        BY <2>2 DEF tool_after
      <3>2. Line("after", i, stage[i]) \in [kind : {"before", "after"}, at : Nat, res : Words]
        BY <2>0, <3>1 DEF Line, Words
      <3>3. \A l \in Range(recorder'.lines) : l \in Range(recorder.lines) \/ l = Line("after", i, stage[i])
        BY <1>0, <1>8, <3>1, <3>2
      <3>4. Line("after", i, stage[i]).at = i BY DEF Line
      <3>5. /\ stage[i] # "todo" /\ stage[i] # "ended"
            /\ \A l \in Range(recorder'.lines) :
                 l \in Range(recorder.lines) \/ (l.kind = "after" => l.at = i /\ "ended" = "ended")
        BY <3>1, <3>3, <3>4
      <3> QED BY <1>7, <3>1, <3>5
    <2>3. CASE tools_call(i) \/ tools_call_refused(i) \/ tools_call_unanswered(i) \/ tools_call_unbuffered(i)
      <3>1. PICK next \in {"ok", "error"} : CycleStep(i, next) /\ stage[i] = "begun" /\ UNCHANGED recorder
        BY <2>3 DEF tools_call, tools_call_refused, tools_call_unanswered, tools_call_unbuffered
      <3> QED BY <1>7, <3>1
    <2> QED BY <1>9, <2>1, <2>2, <2>3 DEF CallSteps
  <1>10. CASE Next /\ world.host = "opencode"
    <2>1. journal = NoJournal BY <1>10 DEF ChildStarts
    <2>2. on_cycle_aborts \/ on_cycle_accepts \/ on_cycle_exhausts => pc' \notin {"spawn", "prompt", "cycle"}
      BY DEF on_cycle_aborts, on_cycle_accepts, on_cycle_exhausts, Resolve
    <2> QED BY <1>0, <1>2, <1>3, <1>4, <1>5, <1>6, <1>9, <1>10, <2>1, <2>2, ChildFrame DEF EndPlaces
  <1>11. CASE world.host # "opencode"
    <2>1. world'.host = "native" BY <1>0, <1>11 DEF WorldOK
    <2> QED BY <1>0, <1>2, <2>1 DEF HostPlaces
  <1> QED BY <1>1, <1>10, <1>11

\* A conversation without results says what it said.
LEMMA BelieveNothing ==
  ASSUME NEW rs, DOMAIN rs = {}, HeldOK PROVE Believe(believed, rs) = believed
  <1>1. {k \in DOMAIN rs : Done(rs, k, "reply")} = {} OBVIOUS
  <1>2. Cardinality({k \in DOMAIN rs : Done(rs, k, "reply")}) = 0 BY <1>1, FS_EmptySet
  <1>3. Believe(believed, rs) = [held |-> [l \in Locs |-> believed.held[l]], said |-> believed.said + 0]
    BY <1>2 DEF Believe
  <1> QED BY <1>3 DEF HeldOK

\* A call that is answered is the last one so far.
LEMMA AppliedExtends ==
  ASSUME Inv, InOrder, ~ world.parallel, NEW i \in DOMAIN stage, stage[i] = "begun",
         NEW next \in {"ok", "error"}, CycleStep(i, next), UNCHANGED recorder,
         NEW more, more = Applied'
  PROVE  /\ Extends(Applied, more, i)
         /\ more[i] = Result(script[i], IF script[i].tool \in {"finish", "abort"} THEN script[i].tool ELSE next)
  <1>0. /\ pc = "cycle" /\ DOMAIN stage = DOMAIN script /\ i \in Nat /\ \A j \in DOMAIN script : j \in Nat /\ 1 <= j
    <2>1. pc = "cycle" /\ DOMAIN stage = DOMAIN script BY DEF Inv, Overheard, CycleStep
    <2>2. DOMAIN script = 1 .. Len(script) BY DEF Inv, TypeOK, AnswerOK
    <2> QED BY <2>1, <2>2
  <1>1. /\ stage' = [stage EXCEPT ![i] = next] /\ UNCHANGED <<script, recorder>>
    BY DEF CycleStep
  <1>2. DOMAIN Applied = {j \in DOMAIN script : stage[j] \notin {"todo", "begun"}}
        /\ DOMAIN more = {j \in DOMAIN script : stage'[j] \notin {"todo", "begun"}}
    BY <1>1 DEF Applied
  <1>3. DOMAIN more = DOMAIN Applied \cup {i} BY <1>0, <1>1, <1>2
  <1>4. \A j \in DOMAIN Applied : j \in 1 .. i - 1
    <2>1. SUFFICES ASSUME NEW j \in DOMAIN Applied PROVE j < i BY <1>0, <1>2
    <2>2. j # i /\ stage[j] # "todo" /\ j \in DOMAIN stage /\ j \in Nat BY <1>0, <1>2
    <2>3. ~ (i < j) BY <1>0, <2>2 DEF InOrder
    <2> QED BY <1>0, <2>2, <2>3
  <1>5. \A j \in DOMAIN more :
          more[j] = IF stage'[j] = "ended" THEN cycle_result(j, recorder.lines)
                    ELSE Result(script[j], IF script[j].tool \in {"finish", "abort"} THEN script[j].tool ELSE stage'[j])
    BY <1>1, <1>2 DEF Applied, cycle_result
  <1>6. \A j \in DOMAIN Applied :
          Applied[j] = IF stage[j] = "ended" THEN cycle_result(j, recorder.lines)
                       ELSE Result(script[j], IF script[j].tool \in {"finish", "abort"} THEN script[j].tool ELSE stage[j])
    BY <1>2 DEF Applied
  <1>7. \A j \in DOMAIN Applied : more[j] = Applied[j] BY <1>0, <1>1, <1>2, <1>3, <1>4, <1>5, <1>6
  <1>8. more[i] = Result(script[i], IF script[i].tool \in {"finish", "abort"} THEN script[i].tool ELSE next)
    BY <1>0, <1>1, <1>3, <1>5
  <1> QED BY <1>0, <1>3, <1>4, <1>7, <1>8 DEF Extends

\* A line of the recorder changes nothing of what has taken effect.
LEMMA AppliedSame ==
  ASSUME Inv, InOrder, NEW i \in DOMAIN stage, tool_before(i) \/ tool_after(i), "swallow" \notin faults'
  PROVE  Applied' = Applied /\ recorder'.before = recorder.before
  <1> DEFINE Kept == [kind : {"before", "after"}, at : Nat, res : Words]
             After(j, lines) == {l \in Range(lines) : l.kind = "after" /\ l.at = j}
  <1>0. /\ pc = "cycle" /\ DOMAIN stage = DOMAIN script /\ \A j \in DOMAIN stage : j \in Nat
        /\ UNCHANGED script
    BY DEF Inv, TypeOK, AnswerOK, Overheard, tool_before, tool_after, CycleStep
  <1>1. PICK next \in {"begun", "ended"}, line \in Kept :
          /\ stage' = [stage EXCEPT ![i] = next] /\ record(line) /\ line.at = i
          /\ next = "begun" => stage[i] = "todo" /\ line.kind = "before"
          /\ next = "ended" => stage[i] \in {"ok", "error"} /\ line.kind = "after" /\ line.res = stage[i]
    <2>1. CASE tool_before(i)
      <3>1. Line("before", i, "none") \in Kept /\ Line("before", i, "none").at = i
            /\ Line("before", i, "none").kind = "before"
        BY <1>0 DEF Line, Words
      <3>2. stage' = [stage EXCEPT ![i] = "begun"] /\ record(Line("before", i, "none")) /\ stage[i] = "todo"
        BY <2>1 DEF tool_before, CycleStep, MayBegin
      <3> QED BY <3>1, <3>2
    <2>2. CASE tool_after(i)
      <3>1. /\ stage' = [stage EXCEPT ![i] = "ended"] /\ record(Line("after", i, stage[i]))
            /\ stage[i] \in {"ok", "error"}
        BY <2>2 DEF tool_after, CycleStep
      <3>2. /\ Line("after", i, stage[i]) \in Kept /\ Line("after", i, stage[i]).at = i
            /\ Line("after", i, stage[i]).kind = "after" /\ Line("after", i, stage[i]).res = stage[i]
        BY <1>0, <3>1 DEF Line, Words
      <3> QED BY <3>1, <3>2
    <2> QED BY <2>1, <2>2
  <1>2. recorder' = [recorder EXCEPT !.lines = Append(@, line)] BY <1>1 DEF record, Note
  <1>3. recorder'.before = recorder.before /\ Range(recorder'.lines) = Range(recorder.lines) \cup {line}
    <2>1. recorder.lines \in Seq(Kept) /\ DOMAIN recorder = {"lines", "before"} BY DEF Inv, TypeOK, RecorderOK
    <2>2. PICK s : s = recorder.lines OBVIOUS
    <2>3. s \in Seq(Kept) BY <2>1, <2>2
    <2>4. /\ Len(s) \in Nat /\ DOMAIN s = 1 .. Len(s) /\ DOMAIN Append(s, line) = 1 .. Len(s) + 1
          /\ \A k \in 1 .. Len(s) : Append(s, line)[k] = s[k]
          /\ Append(s, line)[Len(s) + 1] = line
      BY <2>3
    <2>5. Range(Append(s, line)) = Range(s) \cup {line} BY <2>4 DEF Range
    <2> QED BY <1>2, <2>1, <2>2, <2>5
  <1>4. \A j : After(j, recorder'.lines) = IF j = i /\ next = "ended" THEN After(i, recorder.lines) \cup {line}
                                            ELSE After(j, recorder.lines)
    BY <1>1, <1>3
  <1>5. stage[i] # "ended" => After(i, recorder.lines) = {} BY <1>0 DEF InOrder
  <1>6. \A j, lines : cycle_result(j, lines) =
          Result(script[j], IF script[j].tool \in {"finish", "abort"} THEN script[j].tool
                            ELSE IF After(j, lines) = {} THEN "none" ELSE (CHOOSE l \in After(j, lines) : TRUE).res)
    BY DEF cycle_result
  <1>7. cycle_result(i, recorder.lines)' = cycle_result(i, recorder'.lines)
        /\ \A j : cycle_result(j, recorder.lines)' = cycle_result(j, recorder'.lines)
    BY <1>0 DEF cycle_result
  <1> HIDE DEF After
  <1>8. \A j : j # i => cycle_result(j, recorder'.lines) = cycle_result(j, recorder.lines)
    BY <1>4, <1>6
  <1>9. next = "ended" => cycle_result(i, recorder'.lines) =
          Result(script[i], IF script[i].tool \in {"finish", "abort"} THEN script[i].tool ELSE stage[i])
    <2>1. SUFFICES ASSUME next = "ended"
                   PROVE  cycle_result(i, recorder'.lines) =
                            Result(script[i], IF script[i].tool \in {"finish", "abort"} THEN script[i].tool ELSE stage[i])
      OBVIOUS
    <2>2. After(i, recorder'.lines) = {line} BY <1>1, <1>4, <1>5, <2>1
    <2>3. (CHOOSE l \in {line} : TRUE) = line OBVIOUS
    <2> QED BY <1>1, <1>6, <2>1, <2>2, <2>3
  <1>10. Applied' = [j \in {k \in DOMAIN script : stage'[k] \notin {"todo", "begun"}} |->
            IF stage'[j] = "ended" THEN cycle_result(j, recorder'.lines)
            ELSE Result(script[j], IF script[j].tool \in {"finish", "abort"} THEN script[j].tool ELSE stage'[j])]
    BY <1>0, <1>7 DEF Applied
  <1>11. {k \in DOMAIN script : stage'[k] \notin {"todo", "begun"}} = {k \in DOMAIN script : stage[k] \notin {"todo", "begun"}}
    BY <1>0, <1>1
  <1>12. \A j \in {k \in DOMAIN script : stage[k] \notin {"todo", "begun"}} :
            (IF stage'[j] = "ended" THEN cycle_result(j, recorder'.lines)
            ELSE Result(script[j], IF script[j].tool \in {"finish", "abort"} THEN script[j].tool ELSE stage'[j]))
            = (IF stage[j] = "ended" THEN cycle_result(j, recorder.lines)
            ELSE Result(script[j], IF script[j].tool \in {"finish", "abort"} THEN script[j].tool ELSE stage[j]))
    BY <1>0, <1>1, <1>8, <1>9
  <1> QED BY <1>3, <1>10, <1>11, <1>12 DEF Applied

\* What the host makes of a cycle it read in full is what took effect.
LEMMA AppliedHeard ==
  ASSUME Inv, CycleOver, "swallow" \notin faults, recorder.before + Len(recorder.lines) <= RecorderCap
  PROVE  cycle_turn_outcome = Applied
  <1>0. /\ DOMAIN stage = DOMAIN script /\ \A i \in DOMAIN script : stage[i] = "ended"
        /\ Range(read_recorder_capped) = Range(recorder.lines)
    BY UncappedRead DEF Inv, TypeOK, Overheard, CycleOver
  <1>1. PICK heard : heard = read_recorder_capped OBVIOUS
  <1>2. {i \in DOMAIN script : Counted(i, heard)} = DOMAIN script
    <2>1. \A i \in DOMAIN script : Heard("before", i, recorder.lines)
      BY <1>0 DEF Inv, Overheard, CycleOver
    <2>2. \A i \in DOMAIN script : Heard("before", i, heard) BY <1>0, <1>1, <2>1 DEF Heard
    <2> QED BY <2>2 DEF Counted
  <1>3. \A i : cycle_result(i, heard) = cycle_result(i, recorder.lines)
    BY <1>0, <1>1 DEF cycle_result
  <1>4. cycle_turn_outcome = [i \in {j \in DOMAIN script : Counted(j, heard)} |-> cycle_result(i, heard)]
    BY <1>1 DEF cycle_turn_outcome
  <1>5. {j \in DOMAIN script : stage[j] \notin {"todo", "begun"}} = DOMAIN script BY <1>0
  <1> QED BY <1>0, <1>2, <1>3, <1>4, <1>5 DEF Applied

\* A call of the child: the plane and what the host will make of it go together.
LEMMA CallFollowed ==
  ASSUME Inv, HeldOK, InOrder, ~ world.parallel, faults \subseteq faults', "fresh" \in faults' => "fresh" \in faults,
         InCycle(Known, gates, Applied), NEW i \in DOMAIN stage, tools_call(i) \/ tools_call_refused(i),
         NEW more, more = Applied'
  PROVE  /\ InCycle(Believe(believed, more), gates, more)' /\ UNCHANGED recorder
         /\ UNCHANGED <<pc, believed, gates, turn>>
  <1>0. /\ pc = "cycle" /\ UNCHANGED <<pc, believed, gates, turn, recorder>>
    BY DEF tools_call, tools_call_refused, CycleStep, ChildOnly
  <1>1. PICK call : call = script[i] OBVIOUS
  <1>2. call \in Calls
    <2>1. script \in Seq(Calls) /\ i \in DOMAIN script BY <1>0 DEF Inv, TypeOK, AnswerOK, Overheard
    <2> QED BY <1>1, <2>1, ElementsOf
  <1>3. PICK next \in {"ok", "error"} :
          /\ stage[i] = "begun" /\ CycleStep(i, next)
          /\ \/ next = "ok" /\ Effect(call, <<turn, attempt, i>>)
             \/ next = "error" /\ UNCHANGED <<buffer, replies>>
    BY <1>1 DEF tools_call, tools_call_refused
  <1>4. /\ Extends(Applied, more, i)
        /\ more[i] = Result(call, IF call.tool \in {"finish", "abort"} THEN call.tool ELSE next)
    BY <1>0, <1>1, <1>3, AppliedExtends
  <1>5. PICK word : word = IF call.tool \in {"finish", "abort"} THEN call.tool ELSE next OBVIOUS
  <1>6. PICK b : b = Known OBVIOUS
  <1>7. /\ Believe(believed, more) = Told(b, Result(call, word)) /\ b.said \in Nat
        /\ b = [held |-> [l \in Locs |-> b.held[l]], said |-> b.said]
    <2>1. believed.said \in Nat BY DEF HeldOK
    <2>2. Believe(believed, more) = Told(Believe(believed, Applied), more[i]) BY <1>4, <2>1, BelieveExtended
    <2>3. IsFiniteSet(DOMAIN Applied)
      <3>1. DOMAIN Applied \subseteq 1 .. i - 1 /\ i \in Nat BY <1>4 DEF Extends
      <3>2. IsFiniteSet(1 .. i - 1) BY <3>1, FS_Interval
      <3> QED BY <3>1, <3>2, FS_Subset
    <2>4. /\ Known = [held |-> [l \in Locs |-> Known.held[l]], said |-> Known.said] /\ Known.said \in Nat
      BY <2>1, <2>3, BelieveFields DEF Known
    <2> QED BY <1>4, <1>5, <1>6, <2>2, <2>4 DEF Known
  <1>8. Blocked(Told(b, Result(call, word)), gates, more)
    <2>1. Blocked(b, gates, Applied) BY <1>6 DEF InCycle
    <2>2. more[i] = Result(call, word) /\ word # "told" BY <1>4, <1>5
    <2> QED BY <1>4, <2>1, <2>2, BlockedExtended
  <1>9. PlaneOK BY DEF Inv, TypeOK
  <1>10. Shows(Told(b, Result(call, word)))' /\ \A id \in replies' : id \in replies \/ id = <<turn, attempt, i>>
    <2>1. CASE next = "ok"
      <3>1. Effect(call, <<turn, attempt, i>>) BY <1>3, <2>1
      <3>2. <<turn, attempt, i>> \notin replies
        <4>1. i \notin DOMAIN Applied /\ turn \in Nat
          BY <1>3 DEF Applied, Inv, TypeOK, ControlOK
        <4> QED BY <4>1 DEF InCycle
      <3>3. word = Answer(call) BY <1>5, <2>1 DEF Answer
      <3>4. Shows(b) BY <1>6 DEF InCycle
      <3>5. /\ Shows(Told(b, Result(call, Answer(call))))'
            /\ replies' = IF call.tool = "reply" THEN replies \cup {<<turn, attempt, i>>} ELSE replies
        BY <1>2, <1>7, <1>9, <3>1, <3>2, <3>4, FirstEffect
      <3> QED BY <3>3, <3>5
    <2>2. CASE next = "error"
      <3>1. word \notin {"ok", "told"} BY <1>5, <2>2
      <3>2. Told(b, Result(call, word)) = b
        <4>1. Told(b, Result(call, word)) = [held |-> [l \in Locs |-> b.held[l]], said |-> b.said + 0]
          BY <3>1, ToldFields
        <4> QED BY <1>7, <4>1
      <3>3. Shows(b)' BY <1>3, <1>6, <2>2 DEF InCycle, Shows
      <3> QED BY <1>3, <2>2, <3>2, <3>3
    <2> QED BY <2>1, <2>2
  <1>11. \A id \in replies' : id[1] < turn \/ (id[1] = turn /\ id[3] \in DOMAIN more)
    <2>1. DOMAIN more = DOMAIN Applied \cup {i} BY <1>4 DEF Extends
    <2> QED BY <1>10, <2>1 DEF InCycle
  <1> QED BY <1>0, <1>7, <1>8, <1>10, <1>11 DEF InCycle

\* The end of a cycle: the host learns what took effect.
LEMMA CycleFollowed ==
  ASSUME Inv, CycleOver, "swallow" \notin faults, NextRecorder, recorder'.before <= RecorderCap,
         UNCHANGED <<buffer, replies>>, "fresh" \in faults <=> "fresh" \in faults',
         InCycle(Known, gates, Applied), believed' = Believe(believed, cycle_turn_outcome),
         turn' = turn + 1, gates'.findings = Observed.findings
  PROVE  /\ Shows(believed)' /\ Blocked(believed', gates', <<>>)
         /\ \A id \in replies' : id[1] < turn'
  <1>1. cycle_turn_outcome = Applied
    BY AppliedHeard DEF NextRecorder
  <1>2. believed' = Known BY <1>1 DEF Known
  <1>3. Shows(believed)' BY <1>2 DEF InCycle, Shows
  <1>4. gates'.findings = refute_findings(gates, Applied)
    BY <1>1, ObserveFields DEF Observed, Inv, TypeOK, GatesOK
  <1>5. Blocked(believed', gates', <<>>)
    <2>1. \A l \in Locs : believed'.held[l] = "P1" => l \in refute_findings(gates, Applied)
      BY <1>2 DEF InCycle, Blocked
    <2>2. DOMAIN <<>> = {} OBVIOUS
    <2> QED BY <1>4, <2>1, <2>2, BlockedBefore
  <1>6. \A id \in replies : id[1] \in Nat BY DEF Inv, TypeOK, PlaneOK
  <1>7. turn \in Nat BY DEF Inv, TypeOK, ControlOK
  <1> QED BY <1>3, <1>5, <1>6, <1>7 DEF InCycle

\* The OpenCode host knows what its review has, as long as it sees everything.
LEMMA InvFollowed ==
  ASSUME Inv, HeldOK, InOrder, ChildStarts, Followed, [Next]_vars PROVE Followed'
  <1> DEFINE Between == Shows(believed) /\ Blocked(believed, gates, <<>>) /\ \A id \in replies : id[1] < turn
             Atend == /\ pc \in EndPlaces \cup {"ended"} /\ outcome \in {"finished", "exhausted"} => Shows(believed)
                      /\ pc \in EndPlaces \cup {"ended"} /\ outcome = "finished" =>
                            Blocked(believed, gates, <<>>) /\ Verified(gates)
  <1> SUFFICES ASSUME Unharmed', world.host = "opencode", ~ world.parallel, recorder'.before <= RecorderCap
               PROVE  /\ pc' \in {"spawn", "prompt"} => Between'
                      /\ (pc = "cycle" => InCycle(Known, gates, Applied))'
                      /\ Atend'
    BY WorldFixed DEF Followed, Inv, TypeOK, InCycle
  <1>0. /\ HostPlaces /\ RecorderOK /\ GatesOK /\ Unharmed /\ faults \subseteq faults'
        /\ journal = NoJournal /\ "fresh" \notin faults /\ "fresh" \notin faults' /\ world'.host = "opencode"
        /\ "swallow" \notin faults'
    BY FaultsGrow, InvChildStarts, WorldFixed DEF ChildStarts, Inv, TypeOK, Unharmed
  <1>1. ASSUME recorder.before <= RecorderCap
        PROVE  /\ pc \in {"spawn", "prompt"} => Between
               /\ pc = "cycle" => InCycle(Known, gates, Applied)
               /\ Atend
    BY <1>0, <1>1 DEF Followed, InCycle
  <1>2. CASE UNCHANGED vars
    <2>1. /\ UNCHANGED <<pc, outcome, believed, buffer, replies, gates, turn, faults, script, stage, recorder>>
      BY <1>2 DEF vars
    <2>2. Applied' = Applied BY <2>1 DEF Applied, cycle_result
    <2>3. Known' = Known BY <2>1, <2>2 DEF Known
    <2>4. \A b : Shows(b) => Shows(b)' BY <2>1 DEF Shows
    <2>5. InCycle(Known, gates, Applied) => InCycle(Known, gates, Applied)'
      BY <2>1, <2>2, <2>3, <2>4 DEF InCycle
    <2> QED BY <1>1, <2>1, <2>4, <2>5
  <1>3. CASE Started /\ clear_pending_review
    <2>1. /\ pc' = "spawn" /\ believed' = Nothing /\ buffer' = EmptyBuffer /\ replies' = {}
      BY <1>0, <1>3 DEF Started, FirstStep, clear_pending_review
    <2>2. Shows(believed)'
      <3>1. IsFiniteSet({}) /\ Cardinality({}) = 0 BY FS_EmptySet
      <3> QED BY <2>1, <3>1 DEF Shows, Nothing, EmptyBuffer
    <2>3. Blocked(believed', gates', <<>>)
      <3>1. \A l \in Locs : believed'.held[l] # "P1" BY <2>1 DEF Nothing, EmptyBuffer
      <3> QED BY <3>1 DEF Blocked
    <2> QED BY <2>1, <2>2, <2>3 DEF EndPlaces
  <1>4. CASE pc' \in {"start", "failed"} BY <1>4 DEF EndPlaces
  <1>5. CASE spawn
    <2>1. /\ pc = "spawn" /\ pc' = "prompt" /\ UNCHANGED <<believed, buffer, replies, gates, turn, faults, recorder>>
      BY <1>5 DEF spawn
    <2>2. \A b : Shows(b) => Shows(b)' BY <2>1 DEF Shows
    <2> QED BY <1>1, <2>1, <2>2 DEF EndPlaces
  <1>6. CASE prompt
    <2>1. /\ pc = "prompt" /\ pc' = "cycle" /\ UNCHANGED <<believed, buffer, replies, gates, turn, faults, recorder>>
          /\ \A i \in DOMAIN stage' : stage'[i] = "todo"
      BY <1>6 DEF prompt
    <2>2. Between BY <1>1, <2>1
    <2>3. Overheard' BY NextInv DEF Inv
    <2>4. PICK rs : rs = Applied' OBVIOUS
    <2>5. DOMAIN rs = {} BY <2>1, <2>3, <2>4 DEF Applied, Overheard
    <2>6. Believe(believed, rs) = believed BY <2>5, BelieveNothing
    <2>7. Known' = believed BY <2>1, <2>4, <2>6 DEF Known
    <2>8. DOMAIN <<>> = {} OBVIOUS
    <2>9. Blocked(believed, gates, rs) BY <2>2, <2>5, <2>8, BlockedBefore
    <2>10. Shows(believed)' BY <2>1, <2>2 DEF Shows
    <2>11. InCycle(Known, gates, Applied)' BY <2>1, <2>2, <2>4, <2>7, <2>9, <2>10 DEF InCycle
    <2> QED BY <2>1, <2>11 DEF EndPlaces
  <1>7. CASE \E i \in DOMAIN stage : CallSteps(i)
    <2>1. PICK i \in DOMAIN stage : CallSteps(i) BY <1>7
    <2>2. pc = "cycle" /\ UNCHANGED <<pc, believed, gates, turn>>
      BY <2>1 DEF CallSteps, tool_before, tools_call, tools_call_refused, tool_after, CycleStep
    <2>3. CASE tool_before(i) \/ tool_after(i)
      <3>1. Applied' = Applied /\ recorder'.before = recorder.before BY <1>0, <2>3, AppliedSame
      <3>2. UNCHANGED <<buffer, replies>> BY <2>3 DEF tool_before, tool_after
      <3>3. Known' = Known BY <2>2, <3>1 DEF Known
      <3>4. InCycle(Known, gates, Applied) BY <1>1, <2>2, <3>1
      <3>5. \A b : Shows(b) => Shows(b)' BY <1>0, <3>2 DEF Shows
      <3>6. InCycle(Known, gates, Applied)' BY <2>2, <3>1, <3>2, <3>3, <3>4, <3>5 DEF InCycle
      <3> QED BY <2>2, <3>6 DEF EndPlaces
    <2>4. CASE tools_call(i) \/ tools_call_refused(i)
      <3>1. UNCHANGED recorder BY <2>4 DEF tools_call, tools_call_refused
      <3>2. InCycle(Known, gates, Applied) BY <1>1, <2>2, <3>1
      <3>3. PICK more : more = Applied' OBVIOUS
      <3>4. InCycle(Believe(believed, more), gates, more)' BY <1>0, <2>4, <3>2, <3>3, CallFollowed
      <3>5. InCycle(Known, gates, Applied)' BY <3>3, <3>4 DEF Known
      <3> QED BY <2>2, <3>5 DEF EndPlaces
    <2> QED BY <2>1, <2>3, <2>4 DEF CallSteps
  <1>8. ~ \E i \in DOMAIN stage : tools_call_unanswered(i) \/ tools_call_unbuffered(i)
    BY DEF tools_call_unanswered, tools_call_unbuffered, Note, Unharmed
  <1>9. CASE on_cycle_accepts \/ on_cycle_exhausts \/ on_cycle_prompts
    <2>1. /\ CycleOver /\ NextRecorder /\ UNCHANGED <<buffer, replies, faults>> /\ turn' = turn + 1
          /\ believed' = Believe(believed, cycle_turn_outcome)
          /\ gates' \in {disclose(Observed), disclose(Unaccepted), Unaccepted}
      BY <1>9 DEF on_cycle_accepts, on_cycle_exhausts, on_cycle_prompts, Resolve
    <2>2. DOMAIN Observed = DOMAIN NewGates BY <1>0, ObserveFields DEF Observed, GatesOK
    <2>3. DOMAIN Unaccepted = DOMAIN NewGates /\ Unaccepted.findings = Observed.findings
      BY <2>2, RuledFields DEF Unaccepted
    <2>4. gates'.findings = Observed.findings BY <2>1, <2>2, <2>3, DiscloseFields
    <2>5. recorder.before <= RecorderCap
      <3>1. /\ recorder'.before = recorder.before + Len(recorder.lines)
            /\ recorder.before \in Nat /\ Len(recorder.lines) \in Nat /\ RecorderCap \in Nat
        BY <1>0, <2>1, LimitAssumption DEF NextRecorder, RecorderOK
      <3> QED BY <3>1
    <2>6. pc = "cycle" /\ InCycle(Known, gates, Applied) BY <1>1, <2>1, <2>5 DEF CycleOver
    <2>7. Between'
      <3>1. "swallow" \notin faults /\ ("fresh" \in faults <=> "fresh" \in faults') BY <1>0, <2>1
      <3>2. /\ Shows(believed)' /\ Blocked(believed', gates', <<>>) /\ \A id \in replies' : id[1] < turn'
        BY <2>1, <2>4, <2>6, <3>1, CycleFollowed
      <3> QED BY <3>2
    <2>8. CASE on_cycle_accepts
      <3>1. /\ gates' = disclose(Observed) /\ ~ refute_rejects(Observed) /\ pc' = "post"
        BY <2>8 DEF on_cycle_accepts, Rejected, Resolve
      <3>2. gates'.bounced = Observed.bounced BY <2>2, <3>1, DiscloseFields
      <3>3. Verified(gates') BY <2>4, <3>1, <3>2 DEF Verified, refute_rejects
      <3> QED BY <2>7, <3>1, <3>3
    <2>9. CASE on_cycle_exhausts
      <3>1. outcome' = "exhausted" /\ pc' = "post" BY <2>9 DEF on_cycle_exhausts, Resolve
      <3> QED BY <2>7, <3>1
    <2>10. CASE on_cycle_prompts
      <3>1. pc' = "prompt" BY <2>10 DEF on_cycle_prompts
      <3> QED BY <2>7, <3>1 DEF EndPlaces
    <2> QED BY <1>9, <2>8, <2>9, <2>10
  <1>10. CASE on_cycle_aborts
    <2>1. outcome' = "aborted" /\ pc' = "post" BY <1>10 DEF on_cycle_aborts, Resolve
    <2> QED BY <2>1
  <1>11. CASE pc' \in EndPlaces \cup {"ended"} /\ outcome' = "error" BY <1>11 DEF EndPlaces
  <1>12. CASE /\ pc \in EndPlaces /\ pc' \in EndPlaces \cup {"ended"}
              /\ UNCHANGED <<gates, believed, outcome, recorder>>
              /\ outcome = "aborted" \/ UNCHANGED <<buffer, replies>>
    <2>1. Atend BY <1>1, <1>12
    <2>2. outcome # "aborted" => (Shows(believed) => Shows(believed)') BY <1>0, <1>12 DEF Shows
    <2>3. Atend' BY <1>12, <2>1, <2>2
    <2> QED BY <1>12, <2>3 DEF EndPlaces
  <1>13. CASE Next
    BY <1>0, <1>3, <1>4, <1>5, <1>6, <1>7, <1>8, <1>9, <1>10, <1>11, <1>12, <1>13, ChildFrame
  <1> QED BY <1>2, <1>13

----------------------------------------------------------------------------
(* What is posted. *)

\* What a run and its host remember, next to what the state holds.
Memory == /\ Inv /\ OneRow /\ HeldOK /\ Remembered /\ Agreed
          /\ InOrder /\ ChildStarts /\ Followed /\ Watched /\ Rechecked

\* A run starts with nothing to remember.
LEMMA InitMemory ==
  ASSUME Init PROVE Memory
  <1>1. Inv BY InitInv
  <1>2. OneRow BY DEF Init, OneRow, NoJournal
  <1>3. HeldOK BY DEF Init, HeldOK, Nothing, EmptyBuffer
  <1>4. Remembered /\ Agreed BY DEF Init, Remembered, Agreed, EndPlaces
  <1>5. InOrder /\ ChildStarts BY DEF Init, InOrder, ChildStarts
  <1>6. Followed BY DEF Init, Followed, EndPlaces
  <1>7. Watched /\ Rechecked BY DEF Init, Watched, Rechecked, EndPlaces
  <1> QED BY <1>1, <1>2, <1>3, <1>4, <1>5, <1>6, <1>7 DEF Memory

\* Every step keeps it.
LEMMA NextMemory ==
  ASSUME Memory, [Next]_vars PROVE Memory'
  <1>0. Inv /\ WorldOK /\ JournalOK /\ AnswerOK BY DEF Memory, Inv, TypeOK
  <1>1. Inv' BY <1>0, NextInv
  <1>2. OneRow' BY <1>0, InvOneRow DEF Memory
  <1>3. HeldOK' BY <1>0, InvHeld DEF Memory
  <1>4. Remembered' BY RememberedStep DEF Memory
  <1>5. Agreed' BY InvAgreed DEF Memory
  <1>6. InOrder' BY InvInOrder DEF Memory
  <1>7. ChildStarts' BY InvChildStarts DEF Memory
  <1>8. Followed' BY InvFollowed DEF Memory
  <1>9. Watched' BY InvWatched DEF Memory
  <1>10. Rechecked' BY InvRechecked DEF Memory
  <1> QED BY <1>1, <1>2, <1>3, <1>4, <1>5, <1>6, <1>7, <1>8, <1>9, <1>10 DEF Memory

\* What a run ends with is what its last pod knows, on either host.
LEMMA ShownAtEnd ==
  ASSUME Memory, SawItAll, Posted, outcome # "aborted" PROVE Shows(believed)
  <1>1. Unharmed /\ pc \in EndPlaces \cup {"ended"} /\ outcome \in {"finished", "exhausted"}
    BY DEF SawItAll, Unharmed, Posted
  <1>2. world.host = "native" \/ world.host = "opencode" BY DEF Memory, Inv, TypeOK, WorldOK
  <1>3. CASE world.host = "native" BY <1>1, <1>3 DEF Memory, Agreed
  <1>4. CASE world.host = "opencode" BY <1>1, <1>4 DEF Memory, Followed, SawItAll
  <1> QED BY <1>2, <1>3, <1>4

\* Whatever crashes, replays, refusals and bounces a run goes through, every pod remembers what
\* the run did from its start, on both hosts (agent-clients/src/checkpoint.rs).
THEOREM ReviewMemory == Spec => []Memory
  <1>1. Init => Memory BY InitMemory
  <1>2. Memory /\ [Next]_vars => Memory' BY NextMemory
  <1> QED BY <1>1, <1>2, PTL DEF Spec

\* A review posts exactly the findings and replies the run recorded: a resumed pod neither
\* loses one of the pod before it nor posts one no step of the run remembers
\* (agent-clients/src/checkpoint.rs, agent-runner/src/run.rs).
THEOREM PostsWhatWasRecorded == Spec => []PostsWhatItRecorded
  <1>1. Memory => PostsWhatItRecorded
    <2>1. SUFFICES ASSUME Memory, SawItAll, "fresh" \notin faults, Posted, outcome # "aborted"
                   PROVE  buffer = believed.held /\ Cardinality(replies) = believed.said
      BY DEF PostsWhatItRecorded, PostsItsOwn
    <2>2. Shows(believed) BY <2>1, ShownAtEnd
    <2>3. buffer \in [Locs -> Priorities \cup {"scan", "none"}] /\ believed.held = [l \in Locs |-> believed.held[l]]
      BY <2>1 DEF Memory, Inv, TypeOK, PlaneOK, HeldOK
    <2>4. \A l \in Locs : buffer[l] = believed.held[l] BY <2>1, <2>2 DEF Shows
    <2> QED BY <2>1, <2>2, <2>3, <2>4 DEF Shows
  <1> QED BY <1>1, ReviewMemory, PTL

\* A blocking finding that a finished run posts went through a re-verification, and on the
\* native host the turn after the bounce could look things up
\* (review-agent/src/policies/refute.rs).
THEOREM BlockingReverified == Spec => []BlockingIsReverified
  <1>1. Memory => BlockingIsReverified
    <2>1. SUFFICES ASSUME Memory, SawItAll, Posted, outcome = "finished", Majors # {}
                   PROVE  gates.bounced /\ (world.host = "native" => reverify = "done")
      BY DEF BlockingIsReverified, MajorsWereChecked
    <2>2. Shows(believed) BY <2>1, ShownAtEnd
    <2>3. PICK l \in Locs : buffer[l] = "P1" BY <2>1 DEF Majors
    <2>4. believed.held[l] = "P1" BY <2>2, <2>3 DEF Shows
    <2>5. Blocked(believed, gates, <<>>) /\ Verified(gates)
      <3>1. Unharmed /\ pc \in EndPlaces \cup {"ended"} BY <2>1 DEF SawItAll, Unharmed, Posted
      <3>2. world.host = "native" \/ world.host = "opencode" BY <2>1 DEF Memory, Inv, TypeOK, WorldOK
      <3>3. CASE world.host = "native" BY <2>1, <3>1, <3>3 DEF Memory, Watched
      <3>4. CASE world.host = "opencode" BY <2>1, <3>1, <3>4 DEF Memory, Followed, SawItAll
      <3> QED BY <3>2, <3>3, <3>4
    <2>6. gates.bounced
      <3>1. DOMAIN <<>> = {} OBVIOUS
      <3>2. l \in gates.findings BY <2>4, <2>5, <3>1, BlockedBefore
      <3> QED BY <2>5, <3>2 DEF Verified
    <2>7. world.host = "native" => reverify = "done"
      <3>1. "gap" \notin faults /\ pc \in EndPlaces \cup {"ended"} BY <2>1 DEF SawItAll, Posted
      <3> QED BY <2>1, <2>6, <3>1 DEF Memory, Rechecked
    <2> QED BY <2>6, <2>7
  <1> QED BY <1>1, ReviewMemory, PTL

=============================================================================
