------------------------------ MODULE ReviewRun ------------------------------
(***************************************************************************)
(* One review run: the agent that reads a pull request, records findings   *)
(* in the buffer of its task, and ends in a finalize call.  Two hosts drive *)
(* it.  The native host (agent-loop) asks a model turn by turn under a list *)
(* of policies, and may journal every step so that a restarted pod resumes  *)
(* from storage; agent-runner keeps it, but sends every review to the other *)
(* host.  The OpenCode host prompts a child process cycle by cycle          *)
(* and rebuilds what the child did from a recorder file.  Both end in the   *)
(* same three quality gates and the same mapping of an outcome to a review. *)
(*                                                                         *)
(* A finding is its location and its priority; a model answer is a script,  *)
(* a short sequence of tool calls.                                          *)
(***************************************************************************)
EXTENDS Integers, Sequences, FiniteSets, Functions

CONSTANTS
    Files,          \* the changed source files of the pull request
    Scripts,        \* per kind of model, the answers it may give: sequences of tool calls
    MaxTurns,       \* review.max_turns
    MaxBatches,     \* review.max_batches
    MaxFilesRead,   \* review.max_files_read
    MaxSearches,    \* review.max_searches
    MaxBounces,     \* review.max_coverage_bounces
    Breaker,        \* resilience.circuit_breaker_threshold, 0 = off
    MaxCycles,      \* review.max_cycles
    RecorderCap,    \* recorder lines below RECORDER_READ_CAP
    MaxAttempts,    \* bound: pods of one run
    Worlds          \* bound: hosts, switches and fault budgets to explore

ASSUME LimitAssumption ==
    /\ MaxTurns \in Nat \ {0} /\ MaxCycles \in Nat \ {0} /\ MaxAttempts \in Nat \ {0}
    /\ {MaxBatches, MaxFilesRead, MaxSearches, MaxBounces, Breaker, RecorderCap} \subseteq Nat

VARIABLES
    world,      \* host, model, durable, entry, parallel; budgets of the faults below
    pc,         \* where the run is
    attempt,    \* the pod that executes it
    turn,       \* native: turn; OpenCode: cycles observed
    stats,      \* LoopStats the policies read, and consecutive model failures
    offered,    \* tools on offer to the model in this turn
    script,     \* the calls of the current answer
    answer,     \* native: the pod that asked for the answer, and the calls its read batch covers
    results,    \* native: results of the calls dispatched so far
    gates,      \* state of the policies that look at results
    journal,    \* durable_step rows of the run: model answers, read batches and other calls
    stage,      \* OpenCode: how far each call of the cycle has come
    recorder,   \* OpenCode: recorder lines of the cycle, and lines before it
    outcome,    \* ReviewOutcome of the run
    buffer,     \* pending_review_actions: priority of the finding at a location
    replies,    \* pending_review_actions: comment rows, by the id of their tool call
    summary,    \* pending_review_actions: the summary row
    believed,   \* history: the findings and replies a reader of the conversation expects
    faults,     \* history: what went wrong
    reverify    \* history: what became of the turn after a refute bounce

vars == <<world, pc, attempt, turn, stats, offered, script, answer, results, gates, journal,
          stage, recorder, outcome, buffer, replies, summary, believed, faults, reverify>>

Lines      == {1, 2}
Locs       == Files \X Lines
NoLoc      == <<"", 0>>
Priorities == {"P1", "P2"}
ReadTools  == {"read", "search"}
Tools      == ReadTools \cup {"progress", "add", "retract", "reply", "sast", "finish", "abort"}

\* A tool call: its target, the priority it records, and whether the text of a finding
\* reads as a verdict on a static-analysis lead.
Calls      == [tool : Tools, at : Locs, priority : Priorities, verdict : BOOLEAN]

\* A fault strikes as often as its budget says.
Budget == {"crash", "lookup", "http", "model", "full", "journal", "ttl", "swallow", "child"}
Switches == {"host", "llm", "durable", "entry", "parallel"}

ASSUME ScriptAssumption == \A m \in DOMAIN Scripts : Scripts[m] \subseteq Seq(Calls)

ASSUME WorldAssumption ==
    \A w \in Worlds :
        /\ DOMAIN w = Switches \cup Budget
        /\ w.host \in {"native", "opencode"} /\ w.llm \in DOMAIN Scripts
        /\ w.durable \in BOOLEAN /\ w.parallel \in BOOLEAN
        /\ \A b \in Budget : w[b] \in Nat

Result(call, res) == [call |-> call, res |-> res]
Bigger(a, b)      == IF a > b THEN a ELSE b
Smaller(a, b)     == IF a < b THEN a ELSE b

----------------------------------------------------------------------------
(* The policies. *)

\* The turn from which the run must converge: at least two turns or a tenth are kept back.
winddown_turn(max) ==
    IF max <= 2 THEN Bigger(max - 1, 1)
    ELSE Smaller(Bigger(max - Bigger(2, max \div 10), 1), max - 1)

convergence_filter == Tools \ (ReadTools \cup {"progress"})

\* Converging starts at the wind-down turn, when the batches are spent, or when trimming
\* old tool output no longer makes the conversation fit.
Converging == turn >= winddown_turn(MaxTurns) \/ stats.batches >= MaxBatches \/ stats.full

wind_down == IF Converging THEN convergence_filter ELSE Tools

read_budgets == Tools \ ((IF stats.files_read >= MaxFilesRead THEN {"read"} ELSE {})
                          \cup (IF stats.searches >= MaxSearches THEN {"search"} ELSE {}))

scratchpad_filter == IF gates.suppress THEN Tools \ {"add"} ELSE Tools

\* Names the refute gate forces onto the turn after its bounce beat every narrowing.
reverify_tool_filter == IF gates.force THEN ReadTools ELSE {}

Offered == (wind_down \cap read_budgets \cap scratchpad_filter) \cup reverify_tool_filter

NewGates ==
    [engaged |-> {}, bounces |-> 0, verdict |-> FALSE, amended |-> FALSE,
     findings |-> {}, bounced |-> FALSE, force |-> FALSE,
     leads |-> {}, outstanding |-> {}, anchored |-> FALSE,
     last |-> NoLoc, repeats |-> 0, suppress |-> FALSE]

\* Each policy looks at the results of a turn in their order.  Results are a function on the
\* places of their calls; a result "ok" is the success message the policies look for.
Done(rs, k, tool) == rs[k].call.tool = tool /\ rs[k].res = "ok"

\* Opening a file or commenting on it engages it, whatever the call returned.
coverage_engaged(g, rs) ==
    g.engaged \cup {rs[k].call.at[1] : k \in {j \in DOMAIN rs : rs[j].call.tool \in {"read", "add"}}}

\* A finish that went through leaves its verdict to amend.
coverage_verdict(g, rs) ==
    g.verdict \/ \E k \in DOMAIN rs : rs[k].call.tool = "finish" /\ rs[k].res = "finish"

\* Locations in a policy's map: the last result that bears on a location, at a place that
\* sets it or clears it, decides.
Settled(before, rs, sets, clears) ==
    {l \in Locs :
        LET own == {k \in sets \cup clears : rs[k].call.at = l}
        IN  IF own = {} THEN l \in before ELSE \E k \in own : k \in sets /\ \A j \in own : j <= k}

\* Recorded P0/P1 findings are outstanding until they are retracted.
refute_findings(g, rs) ==
    LET majors    == {k \in DOMAIN rs : Done(rs, k, "add") /\ rs[k].call.priority = "P1"}
        retracted == {k \in DOMAIN rs : Done(rs, k, "retract")}
    IN  Settled(g.findings, rs, majors, retracted)

\* Leads of every scan of the turn are known before the first verdict is judged.
sync_leads(g, rs) == g.leads \cup {rs[k].call.at : k \in {j \in DOMAIN rs : Done(rs, j, "sast")}}

\* A verdict on a flagged file at a line that was not flagged is outstanding until it is
\* recorded again without the verdict, or retracted.
sast_outstanding(g, rs) ==
    LET leads     == sync_leads(g, rs)
        added     == {k \in DOMAIN rs : Done(rs, k, "add") /\ \E l \in leads : l[1] = rs[k].call.at[1]}
        strays    == {k \in added : rs[k].call.verdict /\ rs[k].call.at \notin leads}
        retracted == {k \in DOMAIN rs : Done(rs, k, "retract")}
    IN  Settled(g.outstanding, rs, strays, (added \ strays) \cup retracted)

Observe(g, rs) ==
    [g EXCEPT !.engaged = coverage_engaged(g, rs), !.verdict = coverage_verdict(g, rs),
              !.findings = refute_findings(g, rs), !.leads = sync_leads(g, rs),
              !.outstanding = sast_outstanding(g, rs)]

Uncovered(g) == Files \ g.engaged

coverage_rejects(g, t, max) ==
    t < winddown_turn(max) /\ g.bounces < MaxBounces /\ Uncovered(g) # {}

\* Wrong variant: the gate also looks at findings only after a bounce has been spent.
refute_rejects_late(g) == ~ g.bounced /\ g.findings # {} /\ g.bounces > 0

refute_rejects(g) == ~ g.bounced /\ g.findings # {}

sast_rejects(g) == ~ g.anchored /\ g.outstanding # {}

\* The gates' own counters after a finish they all looked at.
Ruled(g, t, max) ==
    [g EXCEPT !.bounces  = IF coverage_rejects(g, t, max) THEN @ + 1 ELSE @,
              !.bounced  = @ \/ refute_rejects(g),
              !.force    = refute_rejects(g),
              !.anchored = @ \/ sast_rejects(g)]

Rejected(g, t, max) == coverage_rejects(g, t, max) \/ refute_rejects(g) \/ sast_rejects(g)

\* Wrong variant: only a run that opened nothing at all says so.
disclose_blank(g) == [g EXCEPT !.amended = g.verdict /\ g.engaged = {}]

\* A verdict with files left unopened is amended with a note that says so.
disclose(g) == [g EXCEPT !.amended = g.verdict /\ Uncovered(g) # {}]

Requested(rs, what) == \E k \in DOMAIN rs : rs[k].res = what

----------------------------------------------------------------------------
(* The buffer of the task, on the control plane. *)

EmptyBuffer == [l \in Locs |-> "none"]

\* The finding a call leaves at its location: its own, the one of a scan, or none.
Left(call) == CASE call.tool = "add" -> call.priority [] call.tool = "sast" -> "scan" [] OTHER -> "none"

upsert_pending_inline(call) == buffer' = [buffer EXCEPT ![call.at] = Left(call)]
delete_pending_inline(call) == buffer' = [buffer EXCEPT ![call.at] = Left(call)]

\* A reply carries the id of its call: a row with that id is not inserted again.
add_pending_comment(id) == replies' = replies \cup {id}

clear_pending_review == buffer' = EmptyBuffer /\ replies' = {} /\ summary' = "none"

\* What one call does to the buffer, and the answer of its tool.  A scan buffers its
\* findings itself, whatever the model makes of them.
Effect(call, id) ==
    /\ \/ call.tool \in {"add", "sast"} /\ upsert_pending_inline(call)
       \/ call.tool = "retract" /\ delete_pending_inline(call)
       \/ call.tool \notin {"add", "sast", "retract"} /\ UNCHANGED buffer
    /\ \/ call.tool = "reply" /\ add_pending_comment(id)
       \/ call.tool # "reply" /\ UNCHANGED replies
    /\ summary' = IF call.tool = "finish" THEN "verdict" ELSE summary

Answer(call) == IF call.tool \in {"finish", "abort"} THEN call.tool ELSE "ok"

\* What the conversation says after the results in rs: the last one at a location counts.
\* A scan served from the journal ("told") still says what it recorded.
Tells(r) == r.call.tool \in {"add", "sast", "retract"} /\ r.res \in {"ok", "told"}

Believe(b, rs) ==
    [held |-> [l \in Locs |->
                 LET own == {k \in DOMAIN rs : rs[k].call.at = l /\ Tells(rs[k])}
                 IN  IF own = {} THEN b.held[l]
                     ELSE Left(rs[CHOOSE k \in own : \A j \in own : j <= k].call)],
     said |-> b.said + Cardinality({k \in DOMAIN rs : Done(rs, k, "reply")})]

Nothing == [held |-> EmptyBuffer, said |-> 0]

Spend(what) == world[what] > 0 /\ world' = [world EXCEPT ![what] = @ - 1]
Note(fault) == faults' = faults \cup {fault}

----------------------------------------------------------------------------
(* A pod starts: the report of `running' resets the buffer of a fresh run. *)

NewStats == [batches |-> 0, files_read |-> 0, searches |-> 0, full |-> FALSE, failures |-> 0]
NoJournal == [llm |-> {}, reads |-> {}, write |-> {}]
NoAnswer  == [by |-> 0, batch |-> {}]

\* Wrong variant: every report of `running' starts over.
is_fresh_attempt_always == TRUE

is_fresh_attempt == journal = NoJournal

FirstStep == IF world.host = "native" THEN "turn" ELSE "spawn"

Started ==
    /\ pc = "start"
    /\ pc' = FirstStep
    /\ turn' = 0 /\ stats' = NewStats /\ gates' = NewGates
    /\ script' = <<>> /\ answer' = NoAnswer /\ results' = <<>> /\ stage' = <<>>
    /\ recorder' = [lines |-> <<>>, before |-> 0]
    /\ believed' = Nothing /\ reverify' = "none" /\ outcome' = "none"
    /\ UNCHANGED <<attempt, offered, journal>>

report_running ==
    /\ Started
    /\ IF is_fresh_attempt THEN clear_pending_review ELSE UNCHANGED <<buffer, replies, summary>>
    /\ UNCHANGED <<world, faults>>

\* The lookup of the journal fails: the attempt counts as fresh.
report_running_unsure ==
    /\ Started
    /\ ~ is_fresh_attempt
    /\ Spend("lookup") /\ Note("fresh")
    /\ clear_pending_review

\* The pod dies at any point of the run and the Job starts another.
crash ==
    /\ pc \notin {"start", "ended", "failed"}
    /\ attempt < MaxAttempts
    /\ Spend("crash")
    /\ pc' = "start" /\ attempt' = attempt + 1
    /\ UNCHANGED <<turn, stats, offered, script, answer, results, gates, journal, stage,
                   recorder, outcome, buffer, replies, summary, believed, faults, reverify>>

\* activeDeadlineSeconds: the Job is killed as a whole and not tried again.
job_deadline ==
    /\ pc \notin {"ended", "failed"}
    /\ pc' = "failed"
    /\ UNCHANGED <<world, attempt, turn, stats, offered, script, answer, results, gates, journal,
                   stage, recorder, outcome, buffer, replies, summary, believed, faults, reverify>>

----------------------------------------------------------------------------
(* The native host: AgentLoop::run under CheckpointRuntime or Passthrough. *)

NativeOnly == UNCHANGED <<attempt, stage, recorder>>

\* Policies narrow the tools in their order, the one-turn switches are used up.
before_turn ==
    /\ pc = "turn" /\ turn < MaxTurns
    /\ offered' = Offered
    /\ gates' = [gates EXCEPT !.force = FALSE, !.suppress = FALSE]
    /\ reverify' = IF gates.force THEN "due" ELSE reverify
    /\ pc' = "asking"
    /\ NativeOnly
    /\ UNCHANGED <<world, turn, stats, script, answer, results, journal, outcome, buffer,
                   replies, summary, believed, faults>>

\* The conversation outgrows its window even after trimming.
context_fills ==
    /\ pc = "turn" /\ turn < MaxTurns /\ ~ stats.full
    /\ Spend("full")
    /\ stats' = [stats EXCEPT !.full = TRUE]
    /\ NativeOnly
    /\ UNCHANGED <<pc, turn, offered, script, answer, results, gates, journal, outcome, buffer,
                   replies, summary, believed, faults, reverify>>

Places(calls, tools) == {i \in DOMAIN calls : calls[i].tool \in tools}

\* An answer and the pod that asked for it: its calls carry ids no other answer has.
Answered(calls, by) ==
    /\ script' = calls /\ answer' = [by |-> by, batch |-> {}] /\ results' = <<>>
    /\ pc' = IF calls = <<>> THEN "turn"
             ELSE IF Places(calls, ReadTools) = {} THEN "tools" ELSE "reads"
    /\ turn' = IF calls = <<>> THEN turn + 1 ELSE turn
    /\ stats' = [stats EXCEPT !.failures = 0,
                   !.batches = @ + (IF Places(calls, ReadTools) = {} THEN 0 ELSE 1),
                   !.files_read = @ + Cardinality(Places(calls, {"read"})),
                   !.searches = @ + Cardinality(Places(calls, {"search"}))]
    /\ reverify' = IF reverify = "due"
                   THEN (IF ReadTools \subseteq offered THEN "done" ELSE "blind") ELSE reverify
    /\ NativeOnly
    /\ UNCHANGED <<offered, gates, outcome, buffer, replies, summary, believed>>

\* upsert_durable_step: a row replaces the one of the same step.
Upserted(rows, row) == {r \in rows : r[1] # row[1]} \cup {row}

KeepStep(steps, row) ==
    journal' = IF world.durable THEN [journal EXCEPT ![steps] = Upserted(@, row)] ELSE journal

Stored(steps, key) == world.durable /\ \E row \in journal[steps] : row[1] = key

\* The journal does not answer, or does not take the row: the step runs live either way.
JournalFails(steps, row) ==
    /\ world.durable
    /\ Spend("journal") /\ Note("journal")
    /\ UNCHANGED journal \/ KeepStep(steps, row)

\* CheckpointRuntime::step: the answer of an earlier pod is served, the model is not asked.
llm_replay ==
    /\ pc = "asking" /\ Stored("llm", turn)
    /\ \E row \in journal.llm : row[1] = turn /\ Answered(row[2], row[3])
    /\ UNCHANGED <<world, journal, faults>>

\* The model is asked; it uses tools that are on offer.
MayAnswer(calls) == calls \in Scripts[world.llm] /\ \A c \in Range(calls) : c.tool \in offered

llm_live ==
    /\ pc = "asking" /\ ~ Stored("llm", turn)
    /\ \E calls \in Scripts[world.llm] :
         MayAnswer(calls) /\ Answered(calls, attempt) /\ KeepStep("llm", <<turn, calls, attempt>>)
    /\ UNCHANGED <<world, faults>>

llm_unjournaled ==
    /\ pc = "asking"
    /\ \E calls \in Scripts[world.llm] :
         /\ MayAnswer(calls) /\ Answered(calls, attempt)
         /\ JournalFails("llm", <<turn, calls, attempt>>)

\* The age sweep removes the older rows of a run that is still alive.
sweep_durable_steps ==
    /\ world.durable /\ pc \notin {"ended", "failed"}
    /\ Spend("ttl") /\ Note("ttl")
    /\ \E t \in 0 .. MaxTurns, cut \in 0 .. 2 :
         journal' = [llm   |-> {row \in journal.llm : row[1] > t \/ (row[1] = t /\ cut = 0)},
                     reads |-> {row \in journal.reads : row[1] > t \/ (row[1] = t /\ cut < 2)},
                     write |-> {row \in journal.write : row[1][1] >= t}]
    /\ journal' # journal
    /\ UNCHANGED <<pc, attempt, turn, stats, offered, script, answer, results, gates, stage,
                   recorder, outcome, buffer, replies, summary, believed, reverify>>

TurnLost ==
    /\ pc' = "turn" /\ turn' = turn + 1
    /\ reverify' = IF reverify = "due" THEN "lost" ELSE reverify

\* A transient failure of the model costs the turn; enough in a row end the run.
llm_transient ==
    /\ pc = "asking" /\ ~ Stored("llm", turn)
    /\ Spend("model") /\ Note("gap")
    /\ stats' = [stats EXCEPT !.failures = @ + 1]
    /\ IF Breaker > 0 /\ stats.failures + 1 >= Breaker
       THEN pc' = "post" /\ outcome' = "error" /\ UNCHANGED <<turn, reverify>>
       ELSE TurnLost /\ UNCHANGED outcome
    /\ NativeOnly
    /\ UNCHANGED <<offered, script, answer, results, gates, journal, buffer, replies, summary,
                   believed>>

\* The provider says the context is too long: the loop stops as exhausted.
llm_overflow ==
    /\ pc = "asking" /\ ~ Stored("llm", turn)
    /\ Spend("model") /\ Note("gap")
    /\ turn' = MaxTurns /\ pc' = "turn"
    /\ NativeOnly
    /\ UNCHANGED <<stats, offered, script, answer, results, gates, journal, outcome, buffer,
                   replies, summary, believed, reverify>>

\* Any other error ends the run.
llm_fatal ==
    /\ pc = "asking" /\ ~ Stored("llm", turn)
    /\ Spend("model") /\ Note("gap")
    /\ outcome' = "error" /\ pc' = "post"
    /\ NativeOnly
    /\ UNCHANGED <<turn, stats, offered, script, answer, results, gates, journal, buffer,
                   replies, summary, believed, reverify>>

----------------------------------------------------------------------------
(* Native tool calls: the reads of an answer as one step, then call by call. *)

ReadsReturn(batch) ==
    /\ pc = "reads" /\ pc' = "tools"
    /\ answer' = [answer EXCEPT !.batch = batch]
    /\ NativeOnly
    /\ UNCHANGED <<turn, stats, offered, script, results, gates, outcome, buffer, replies,
                   summary, believed, reverify>>

\* The step of a batch is named by its turn alone: a batch of another answer is served too.
reads_replay ==
    /\ Stored("reads", turn)
    /\ \E row \in journal.reads : row[1] = turn /\ ReadsReturn(row[2])
    /\ UNCHANGED <<world, journal, faults>>

reads_live ==
    /\ ~ Stored("reads", turn)
    /\ ReadsReturn(Places(script, ReadTools))
    /\ KeepStep("reads", <<turn, Places(script, ReadTools)>>)
    /\ UNCHANGED <<world, faults>>

reads_unjournaled ==
    /\ ReadsReturn(Places(script, ReadTools))
    /\ JournalFails("reads", <<turn, Places(script, ReadTools)>>)

Position == Len(results) + 1
Current  == script[Position]
CallId   == <<turn, answer.by, Position>>

Dispatching == pc = "tools" /\ Position <= Len(script)
Stepping    == Dispatching /\ Position \notin answer.batch
Written     == Stored("write", CallId)

ToolReturns(res) ==
    /\ results' = Append(results, Result(Current, res))
    /\ believed' = Believe(believed, <<Result(Current, res)>>)
    /\ NativeOnly
    /\ UNCHANGED <<pc, turn, stats, offered, script, answer, gates, outcome, reverify>>

\* A place of the batch gets what was read there, whatever its call asks for.
call_batched ==
    /\ Dispatching /\ Position \in answer.batch
    /\ ToolReturns("read")
    /\ UNCHANGED <<world, journal, buffer, replies, summary, faults>>

\* A scan that is served does not run, and leaves no leads with the gate.
call_replay ==
    /\ Stepping /\ Written
    /\ \E row \in journal.write :
         row[1] = CallId /\ ToolReturns(IF Current.tool = "sast" THEN "told" ELSE row[2])
    /\ faults' = IF Current.tool = "sast" THEN faults \cup {"told"} ELSE faults
    /\ UNCHANGED <<world, journal, buffer, replies, summary>>

call_live ==
    /\ Stepping /\ ~ Written
    /\ Effect(Current, CallId)
    /\ ToolReturns(Answer(Current)) /\ KeepStep("write", <<CallId, Answer(Current)>>)
    /\ UNCHANGED <<world, faults>>

\* The row of the step is not found, or not written: the call is carried out again.
call_unjournaled ==
    /\ Stepping
    /\ Effect(Current, CallId)
    /\ ToolReturns(Answer(Current)) /\ JournalFails("write", <<CallId, Answer(Current)>>)

\* The pod dies after the effect and before the row of the step.
call_dies ==
    /\ Stepping /\ ~ Written /\ attempt < MaxAttempts
    /\ Spend("crash") /\ Note("died")
    /\ Effect(Current, CallId)
    /\ pc' = "start" /\ attempt' = attempt + 1
    /\ UNCHANGED <<turn, stats, offered, script, answer, results, gates, journal, stage,
                   recorder, outcome, believed, reverify>>

OnPlane(call) == call.tool \in {"add", "retract", "reply", "finish"}

\* The control plane refuses the call.
call_refused ==
    /\ Stepping /\ ~ Written /\ OnPlane(Current)
    /\ Spend("http") /\ Note("refused")
    /\ ToolReturns("error") /\ KeepStep("write", <<CallId, "error">>)
    /\ UNCHANGED <<buffer, replies, summary>>

\* The control plane carries the call out and its answer is lost.
call_unanswered ==
    /\ Stepping /\ ~ Written /\ OnPlane(Current)
    /\ Spend("http") /\ Note("unanswered")
    /\ Effect(Current, CallId)
    /\ ToolReturns("error") /\ KeepStep("write", <<CallId, "error">>)

\* The control plane refuses the finding of a scan: the scan reports it all the same.
call_unbuffered ==
    /\ Stepping /\ ~ Written /\ Current.tool = "sast"
    /\ Spend("http") /\ Note("unbuffered")
    /\ ToolReturns("ok") /\ KeepStep("write", <<CallId, "ok">>)
    /\ UNCHANGED <<buffer, replies, summary>>

----------------------------------------------------------------------------
(* The end of a native turn. *)

Settle(what, next) ==
    /\ outcome' = what /\ pc' = next
    /\ NativeOnly
    /\ UNCHANGED <<world, turn, stats, offered, script, answer, results, journal, buffer,
                   replies, summary, believed, faults, reverify>>

\* Three findings in a row at one line suppress the recording tool for one turn.
Scratchpad(g, rs) ==
    LET seen[k \in 0 .. Len(rs)] ==
          IF k = 0 THEN [last |-> g.last, repeats |-> g.repeats]
          ELSE IF ~ Done(rs, k, "add") THEN seen[k - 1]
          ELSE [last    |-> rs[k].call.at,
                repeats |-> IF seen[k - 1].last = rs[k].call.at
                            THEN seen[k - 1].repeats + 1 ELSE 0]
        end  == seen[Len(rs)]
        loop == end.repeats >= 2
    IN  [g EXCEPT !.last = end.last, !.repeats = IF loop THEN 0 ELSE end.repeats,
                  !.suppress = loop \/ @]

AfterTurn == Observe(Scratchpad(gates, results), results)
TurnOver  == pc = "tools" /\ Position > Len(script)

\* An abort wins over a finish of the same turn.
aborted ==
    /\ TurnOver /\ Requested(results, "abort")
    /\ gates' = AfterTurn
    /\ Settle("aborted", "post")

finished ==
    /\ TurnOver /\ ~ Requested(results, "abort") /\ Requested(results, "finish")
    /\ ~ Rejected(AfterTurn, turn, MaxTurns)
    /\ gates' = disclose(Ruled(AfterTurn, turn, MaxTurns))
    /\ Settle("finished", "disclose")

\* Wrong variant: a turn that ends without a finish is not counted.
NextTurn_uncounted(g) ==
    /\ gates' = g /\ turn' = (IF Requested(results, "finish") THEN turn + 1 ELSE turn)
    /\ pc' = "turn"
    /\ NativeOnly
    /\ UNCHANGED <<world, stats, offered, script, answer, results, journal, outcome, buffer,
                   replies, summary, believed, faults, reverify>>

NextTurn(g) ==
    /\ gates' = g /\ turn' = turn + 1 /\ pc' = "turn"
    /\ NativeOnly
    /\ UNCHANGED <<world, stats, offered, script, answer, results, journal, outcome, buffer,
                   replies, summary, believed, faults, reverify>>

\* A gate rejects the finish: the loop goes on with its nudge.
bounced ==
    /\ TurnOver /\ ~ Requested(results, "abort") /\ Requested(results, "finish")
    /\ Rejected(AfterTurn, turn, MaxTurns)
    /\ NextTurn(Ruled(AfterTurn, turn, MaxTurns))

keeps_going ==
    /\ TurnOver /\ ~ Requested(results, "abort") /\ ~ Requested(results, "finish")
    /\ NextTurn(AfterTurn)

\* The turns are used up.
exhausted ==
    /\ pc = "turn" /\ turn = MaxTurns
    /\ gates' = disclose(gates)
    /\ Settle("exhausted", "disclose")

\* The amended verdict is posted after the loop; a failure keeps the model's own.
post_disclosure ==
    /\ pc = "disclose"
    /\ summary' = IF gates.amended THEN "disclosed" ELSE summary
    /\ pc' = "post"
    /\ NativeOnly
    /\ UNCHANGED <<world, turn, stats, offered, script, answer, results, gates, journal, outcome,
                   buffer, replies, believed, faults, reverify>>

post_disclosure_fails ==
    /\ pc = "disclose" /\ gates.amended
    /\ Spend("http") /\ Note("undisclosed")
    /\ pc' = "post"
    /\ NativeOnly
    /\ UNCHANGED <<turn, stats, offered, script, answer, results, gates, journal, outcome,
                   buffer, replies, summary, believed, reverify>>

----------------------------------------------------------------------------
(* The OpenCode host: a child process works through one prompt at a time. *)

ChildOnly == UNCHANGED <<attempt, offered, answer, results, journal, reverify>>

\* Rendering the configuration, resolving the tools, spawning, the handshake.
spawn ==
    /\ pc = "spawn" /\ pc' = "prompt"
    /\ ChildOnly
    /\ UNCHANGED <<world, turn, stats, script, gates, stage, recorder, outcome, buffer, replies,
                   summary, believed, faults>>

spawn_fails ==
    /\ pc = "spawn" /\ Spend("child") /\ Note("child")
    /\ outcome' = "error" /\ pc' = "post"
    /\ ChildOnly
    /\ UNCHANGED <<turn, stats, script, gates, stage, recorder, buffer, replies, summary, believed>>

\* session/prompt: the child's model decides what to do with the text.  Nothing bounds how
\* long it takes: the request has no timeout, and no step limit holds in the child.
prompt ==
    /\ pc = "prompt" /\ pc' = "cycle"
    /\ \E calls \in Scripts[world.llm] :
         script' = calls /\ stage' = [i \in 1 .. Len(calls) |-> "todo"]
    /\ ChildOnly
    /\ UNCHANGED <<world, turn, stats, gates, recorder, outcome, buffer, replies, summary,
                   believed, faults>>

\* Calls of one message start in order; they may overlap.
MayBegin(i) ==
    /\ stage[i] = "todo"
    /\ \A j \in 1 .. i - 1 :
         stage[j] \in (IF world.parallel THEN {"begun", "ok", "error", "ended"} ELSE {"ended"})

Line(kind, i, res) == [kind |-> kind, at |-> i, res |-> res]

\* appendFileSync of the recorder plugin; a failed append is swallowed.
record(line) ==
    \/ recorder' = [recorder EXCEPT !.lines = Append(@, line)] /\ UNCHANGED <<world, faults>>
    \/ Spend("swallow") /\ Note("swallow") /\ UNCHANGED recorder

CycleStep(i, next) ==
    /\ pc = "cycle" /\ stage' = [stage EXCEPT ![i] = next]
    /\ ChildOnly
    /\ UNCHANGED <<pc, turn, stats, script, gates, outcome, believed>>

tool_before(i) ==
    /\ pc = "cycle" /\ MayBegin(i)
    /\ CycleStep(i, "begun")
    /\ record(Line("before", i, "none"))
    /\ UNCHANGED <<buffer, replies, summary>>

\* tools/call of lci-review-mcp, which dispatches every request in a task of its own, under
\* an id of its own.
tools_call(i) ==
    /\ pc = "cycle" /\ stage[i] = "begun"
    /\ CycleStep(i, "ok")
    /\ Effect(script[i], <<turn, attempt, i>>)
    /\ UNCHANGED <<world, recorder, faults>>

tools_call_refused(i) ==
    /\ pc = "cycle" /\ stage[i] = "begun" /\ OnPlane(script[i])
    /\ Spend("http") /\ Note("refused")
    /\ CycleStep(i, "error")
    /\ UNCHANGED <<recorder, buffer, replies, summary>>

tools_call_unanswered(i) ==
    /\ pc = "cycle" /\ stage[i] = "begun" /\ OnPlane(script[i])
    /\ Spend("http") /\ Note("unanswered")
    /\ CycleStep(i, "error")
    /\ Effect(script[i], <<turn, attempt, i>>)
    /\ UNCHANGED recorder

tools_call_unbuffered(i) ==
    /\ pc = "cycle" /\ stage[i] = "begun" /\ script[i].tool = "sast"
    /\ Spend("http") /\ Note("unbuffered")
    /\ CycleStep(i, "ok")
    /\ UNCHANGED <<recorder, buffer, replies, summary>>

tool_after(i) ==
    /\ pc = "cycle" /\ stage[i] \in {"ok", "error"}
    /\ CycleStep(i, "ended")
    /\ record(Line("after", i, stage[i]))
    /\ UNCHANGED <<buffer, replies, summary>>

----------------------------------------------------------------------------
(* What the host makes of a cycle. *)

\* The lines a capped read of the recorder shows: the file grows, the cap does not.
read_recorder_capped ==
    SubSeq(recorder.lines, 1, Smaller(Len(recorder.lines), Bigger(RecorderCap - recorder.before, 0)))

Heard(kind, i, lines) == \E l \in Range(lines) : l.kind = kind /\ l.at = i

\* Wrong variant: a call counts once it is answered, and the answer of a finish never comes.
Counted_answered(i, lines) ==
    Heard("before", i, lines) /\ Heard("after", i, lines) /\ script[i].tool # "finish"

\* A call without a result, or a result without a call, still counts as a call; but the
\* target of a call is only in its first line.
Counted(i, lines) ==
    \/ Heard("before", i, lines)
    \/ Heard("after", i, lines) /\ script[i].tool \in {"finish", "abort", "sast"}

\* A finish counts whatever it returned.
cycle_result(i, lines) ==
    LET ended == {l \in Range(lines) : l.kind = "after" /\ l.at = i}
    IN  Result(script[i], IF script[i].tool \in {"finish", "abort"} THEN script[i].tool
                          ELSE IF ended = {} THEN "none" ELSE (CHOOSE l \in ended : TRUE).res)

cycle_turn_outcome ==
    LET lines == read_recorder_capped
    IN  [i \in {j \in DOMAIN script : Counted(j, lines)} |-> cycle_result(i, lines)]

\* ReviewDriver::on_cycle: the abort first, an accepted finish always, the budget of
\* cycles before any further prompt.
CycleOver == pc = "cycle" /\ \A i \in DOMAIN stage : stage[i] = "ended"

Resolve(what) ==
    /\ outcome' = what /\ pc' = "post"
    /\ ChildOnly
    /\ UNCHANGED <<world, stats, script, stage, buffer, replies, summary, faults>>

NextRecorder ==
    recorder' = [lines |-> <<>>, before |-> recorder.before + Len(recorder.lines)]

on_cycle_aborts ==
    /\ CycleOver /\ Requested(cycle_turn_outcome, "abort")
    /\ turn' = turn + 1 /\ NextRecorder /\ UNCHANGED gates
    /\ believed' = Believe(believed, cycle_turn_outcome)
    /\ Resolve("aborted")

Observed == Observe(gates, cycle_turn_outcome)
Asked    == Requested(cycle_turn_outcome, "finish")

on_cycle_accepts ==
    /\ CycleOver /\ ~ Requested(cycle_turn_outcome, "abort") /\ Asked
    /\ ~ Rejected(Observed, turn, MaxTurns)
    /\ gates' = disclose(Observed)
    /\ believed' = Believe(believed, cycle_turn_outcome)
    /\ turn' = turn + 1 /\ NextRecorder
    /\ Resolve("finished")

\* A bounce, or a cycle that stopped short: the next prompt while the budget lasts.
Unaccepted == IF Asked THEN Ruled(Observed, turn, MaxTurns) ELSE Observed

on_cycle_exhausts ==
    /\ CycleOver /\ ~ Requested(cycle_turn_outcome, "abort")
    /\ Asked => Rejected(Observed, turn, MaxTurns)
    /\ turn + 1 >= MaxCycles
    /\ gates' = disclose(Unaccepted)
    /\ believed' = Believe(believed, cycle_turn_outcome)
    /\ turn' = turn + 1 /\ NextRecorder
    /\ Resolve("exhausted")

on_cycle_prompts ==
    /\ CycleOver /\ ~ Requested(cycle_turn_outcome, "abort")
    /\ Asked => Rejected(Observed, turn, MaxTurns)
    /\ turn + 1 < MaxCycles
    /\ gates' = Unaccepted
    /\ believed' = Believe(believed, cycle_turn_outcome)
    /\ turn' = turn + 1 /\ pc' = "prompt" /\ NextRecorder
    /\ ChildOnly
    /\ UNCHANGED <<world, stats, script, stage, outcome, buffer, replies, summary, faults>>

\* The child exits: its output ends, and the reader drops every waiting request.
reader_loop_ends ==
    /\ pc = "cycle"
    /\ Spend("child") /\ Note("child")
    /\ outcome' = "error" /\ pc' = "post"
    /\ ChildOnly
    /\ UNCHANGED <<turn, stats, script, gates, stage, recorder, buffer, replies, summary, believed>>

----------------------------------------------------------------------------
(* finalize_review_outcome: from the outcome to a review on the platform. *)

PostOnly == UNCHANGED <<attempt, turn, stats, offered, script, answer, results, gates, stage,
                        recorder, outcome, believed, reverify>>

\* An aborted run drops its findings first.
clear_findings ==
    /\ pc = "post" /\ outcome = "aborted"
    /\ pc' = "summary" /\ buffer' = EmptyBuffer
    /\ PostOnly /\ UNCHANGED <<world, journal, replies, summary, faults>>

clear_findings_fails ==
    /\ pc = "post" /\ outcome = "aborted"
    /\ Spend("http") /\ Note("uncleared")
    /\ pc' = "summary"
    /\ PostOnly /\ UNCHANGED <<journal, buffer, replies, summary>>

\* The runner writes a summary of its own for an abort, and for a run out of budget
\* unless the control plane frames it (a pass started by the opening of the request).
OwnSummary == outcome = "aborted" \/ (outcome = "exhausted" /\ world.entry # "pr_open")

Summarising == IF outcome = "aborted" THEN pc = "summary" ELSE pc = "post"

set_review_summary ==
    /\ Summarising /\ OwnSummary
    /\ summary' = outcome /\ pc' = "finalize"
    /\ PostOnly /\ UNCHANGED <<world, journal, buffer, replies, faults>>

set_review_summary_fails ==
    /\ Summarising /\ OwnSummary
    /\ Spend("http") /\ Note("unsummarised")
    /\ pc' = "finalize"
    /\ PostOnly /\ UNCHANGED <<journal, buffer, replies, summary>>

keep_summary ==
    /\ pc = "post" /\ outcome \in {"finished", "exhausted"} /\ ~ OwnSummary
    /\ pc' = "finalize"
    /\ PostOnly /\ UNCHANGED <<world, journal, buffer, replies, summary, faults>>

\* The buffer becomes the review; the journal of the run is dropped.
finalize_review ==
    /\ pc = "finalize" /\ pc' = "ended"
    /\ journal' = NoJournal
    /\ PostOnly /\ UNCHANGED <<world, buffer, replies, summary, faults>>

\* The one failure that fails the task: the Job may try again.
finalize_review_fails ==
    /\ pc = "finalize"
    /\ Spend("http") /\ Note("finalize")
    /\ IF attempt < MaxAttempts
       THEN pc' = "start" /\ attempt' = attempt + 1
       ELSE pc' = "failed" /\ UNCHANGED attempt
    /\ UNCHANGED <<turn, stats, offered, script, answer, results, gates, journal, stage,
                   recorder, outcome, buffer, replies, summary, believed, reverify>>

\* A failed run posts nothing and the task succeeds with a detail.
report_error ==
    /\ pc = "post" /\ outcome = "error"
    /\ pc' = "ended"
    /\ PostOnly /\ UNCHANGED <<world, journal, buffer, replies, summary, faults>>

----------------------------------------------------------------------------

Init ==
    /\ world \in Worlds
    /\ pc = "start" /\ attempt = 1 /\ turn = 0
    /\ stats = NewStats /\ offered = {} /\ script = <<>> /\ answer = NoAnswer /\ results = <<>>
    /\ gates = NewGates /\ journal = NoJournal /\ stage = <<>>
    /\ recorder = [lines |-> <<>>, before |-> 0]
    /\ outcome = "none" /\ buffer = EmptyBuffer /\ replies = {} /\ summary = "none"
    /\ believed = Nothing /\ faults = {} /\ reverify = "none"

NativeStep ==
    \/ before_turn \/ llm_replay \/ llm_live \/ reads_replay \/ reads_live
    \/ call_batched \/ call_replay \/ call_live
    \/ aborted \/ finished \/ bounced \/ keeps_going \/ exhausted \/ post_disclosure

ChildStep ==
    \/ spawn \/ prompt
    \/ \E i \in DOMAIN stage : tool_before(i) \/ tools_call(i) \/ tool_after(i)
    \/ on_cycle_aborts \/ on_cycle_accepts \/ on_cycle_exhausts \/ on_cycle_prompts

PostStep ==
    \/ clear_findings \/ set_review_summary \/ keep_summary \/ finalize_review \/ report_error

Fault ==
    \/ report_running_unsure \/ crash \/ job_deadline \/ context_fills
    \/ llm_unjournaled \/ llm_transient \/ llm_overflow \/ llm_fatal
    \/ reads_unjournaled \/ call_unjournaled \/ call_dies
    \/ call_refused \/ call_unanswered \/ call_unbuffered
    \/ sweep_durable_steps \/ post_disclosure_fails
    \/ spawn_fails \/ reader_loop_ends
    \/ \E i \in DOMAIN stage : tools_call_refused(i) \/ tools_call_unanswered(i)
                               \/ tools_call_unbuffered(i)
    \/ clear_findings_fails \/ set_review_summary_fails \/ finalize_review_fails

Step == report_running \/ NativeStep \/ ChildStep \/ PostStep

Next == Step \/ Fault

Spec == Init /\ [][Next]_vars

\* The host and its provider make progress; every fault has a finite budget.  Its child need
\* not: a prompt may never come to its end, and the deadline of the Job cuts it off.
FairSpec ==
    /\ Spec
    /\ WF_vars(pc # "cycle" /\ Step)
    /\ WF_vars(pc = "cycle" /\ job_deadline)

----------------------------------------------------------------------------
(* Properties. *)

Words == {"ok", "error", "none", "read", "told", "finish", "abort"}

WorldOK ==
    /\ DOMAIN world = Switches \cup Budget
    /\ world.host \in {"native", "opencode"} /\ world.llm \in DOMAIN Scripts
    /\ \A b \in Budget : world[b] \in Nat

ControlOK ==
    /\ pc \in {"start", "turn", "asking", "reads", "tools", "disclose", "spawn", "prompt",
               "cycle", "post", "summary", "finalize", "ended", "failed"}
    /\ attempt \in 1 .. MaxAttempts
    /\ turn \in 0 .. Bigger(MaxTurns, MaxCycles)

AnswerOK ==
    /\ offered \subseteq Tools
    /\ script \in Seq(Calls)
    /\ answer \in [by : 0 .. MaxAttempts, batch : SUBSET Nat]
    /\ results \in Seq([call : Calls, res : Words])

GatesOK ==
    /\ DOMAIN gates = DOMAIN NewGates
    /\ gates.engaged \subseteq Files /\ gates.bounces \in 0 .. MaxBounces
    /\ gates.findings \subseteq Locs /\ gates.outstanding \subseteq Locs

JournalOK ==
    /\ DOMAIN journal = {"llm", "reads", "write"}
    /\ journal.llm \subseteq Nat \X Seq(Calls) \X (1 .. MaxAttempts)
    /\ journal.reads \subseteq Nat \X SUBSET Nat
    /\ journal.write \subseteq (Nat \X Nat \X Nat) \X {"ok", "error", "finish", "abort"}

RecorderOK ==
    recorder \in [lines : Seq([kind : {"before", "after"}, at : Nat, res : Words]), before : Nat]

PlaneOK ==
    /\ buffer \in [Locs -> Priorities \cup {"scan", "none"}]
    /\ replies \subseteq Nat \X Nat \X Nat
    /\ summary \in {"none", "verdict", "disclosed", "exhausted", "aborted"}

\* Every variable holds a value the code could hold.
TypeOK ==
    /\ WorldOK /\ ControlOK /\ AnswerOK /\ GatesOK /\ JournalOK /\ RecorderOK /\ PlaneOK
    /\ outcome \in {"none", "finished", "exhausted", "aborted", "error"}

Ended    == pc \in {"ended", "failed"}
Posted   == pc = "ended" /\ outcome \in {"finished", "exhausted", "aborted"}

\* The host saw every effect of the run, in order: no model turn was skipped, the journal
\* kept its rows, no write went through unanswered, every scan of the pod ran in it and
\* got its findings buffered, the recorder lost nothing.
SawItAll ==
    /\ faults \cap {"gap", "journal", "ttl", "unanswered", "told", "unbuffered", "swallow"} = {}
    /\ ~ ({"died", "refused"} \subseteq faults)
    /\ ~ world.parallel /\ recorder.before <= RecorderCap

Majors   == {l \in Locs : buffer[l] = "P1"}

\* The findings and replies of the review are the ones its last pod knows of.
PostsItsOwn ==
    Posted /\ outcome # "aborted" => buffer = believed.held /\ Cardinality(replies) = believed.said

\* What is posted is what the run recorded: whatever the crashes, a resumed run neither
\* loses a finding or a reply of the pod before it nor posts one that no step of the run
\* remembers, as long as the host saw every effect (agent-clients/src/checkpoint.rs).
PostsWhatItRecorded == SawItAll /\ "fresh" \notin faults => PostsItsOwn

\* A finished review with a blocking finding was bounced once to re-verify it, and on the
\* native host the turn after the bounce could look things up.
MajorsWereChecked ==
    Posted /\ outcome = "finished" /\ Majors # {} =>
        gates.bounced /\ (world.host = "native" => reverify = "done")

\* A blocking finding that a finished run posts went through a re-verification, even when
\* the run was already winding down (review-agent/src/policies/refute.rs).  The exceptions
\* are what the host did not see.
BlockingIsReverified == SawItAll => MajorsWereChecked

\* A finished review that leaves a changed file unopened says so in its summary.
GapsAreNamed ==
    Posted /\ outcome = "finished" /\ Uncovered(gates) # {} => summary = "disclosed"

\* On the native host it does, across crashes and replays, unless the control plane refused
\* the note (review-agent/src/policies/coverage.rs).
GapsAreDisclosed ==
    world.host = "native" /\ "undisclosed" \notin faults => GapsAreNamed

\* A finished review has the verdict of its model.
FinishedIsSummarised ==
    Posted /\ outcome = "finished" => summary \in {"verdict", "disclosed"}

\* An aborted review carries its reason and none of its findings.
AbortIsClean ==
    Posted /\ outcome = "aborted" => summary = "aborted" /\ buffer = EmptyBuffer

\* An aborted run posts its reason and none of its unverified findings, when the two calls
\* that see to it get through (agent-runner/src/run.rs finalize_review_outcome).
AbortPostsOnlyReason == faults \cap {"uncleared", "unsummarised"} = {} => AbortIsClean

\* A finish the child made is heard before the budget of cycles runs out, unless the
\* recorder outgrew its cap: the host never goes on prompting a model that finished with
\* everything covered and nothing to re-verify.
FinishIsHeard ==
    pc = "prompt" /\ turn > 0 /\ faults = {} /\ recorder.before <= RecorderCap
        /\ (\E i \in DOMAIN script : script[i].tool = "finish") =>
        gates.bounces > 0 \/ gates.bounced \/ gates.anchored

\* Every run ends, whatever the model answers and the faults do: of the deadline it needs no
\* more than that it cuts off a child that never comes to the end of a prompt.
RunEnds == <>Ended
=============================================================================
