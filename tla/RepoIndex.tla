----------------------------- MODULE RepoIndex -----------------------------
(***************************************************************************)
(* One repository and its index: the approval status, the index runs that  *)
(* write a snapshot page by page into Neo4j (structural graph) and pgvector*)
(* (`code_chunks`), the marker that makes a snapshot readable, the reviews *)
(* that read it, the sweeper that prunes old snapshots, and the purge of a *)
(* denied or removed repository.                                           *)
(*                                                                         *)
(* Each SQL statement, Neo4j transaction and HTTP request is one step.     *)
(* The queue itself is TaskQueue; here a row keeps the status the index    *)
(* code reads, and a queued row starts at any later time.                  *)
(***************************************************************************)
EXTENDS Naturals, FiniteSetsExt

CONSTANTS
    IndexTasks,     \* rows with command_text 'index' (head_sha NULL)
    ReviewTasks,    \* rows of pull request reviews
    Heads,          \* number of commits the default branch goes through
    MaxRetries,     \* pods of one Job after the first (backoffLimit)
    MaxEnqueues,    \* model bound on index tasks about to be inserted
    Budgets,        \* model bounds: see left
    None            \* SQL NULL

ASSUME TaskSets == IndexTasks \cap ReviewTasks = {}
ASSUME Bounds == Heads \in Nat \ {0} /\ {MaxRetries, MaxEnqueues} \subseteq Nat
ASSUME BudgetSet ==
    Budgets \subseteq [changes : Nat, pushes : Nat, reviews : Nat, faults : Nat]

Tasks == IndexTasks \cup ReviewTasks

\* Commits of the default branch, and the pull request's head (commit 0).
PrHead == 0
Commits == 0 .. Heads

\* Every snapshot has a page of nodes and one of edges, and two batches of
\* chunks: enough for a sequence to stop partway.
Pages   == {"nodes", "edges"}
Batches == {1, 2}
Chunks  == Commits \X Batches

ASSUME NullAssumption == None \notin Commits

Terminal == {"succeeded", "failed", "cancelled"}
Active   == {"queued", "running"}
Status   == {"absent", "waiting_for_index"} \cup Active \cup Terminal

\* Where the pod of a task is.  "discard" follows a page that failed.
Phase == {"none", "boot", "nodes", "edges", "discard", "chunk1", "chunk2",
          "ok", "fail", "dead"}

PurgePC == {"idle", "check", "cancel", "graph", "chunks", "snapshots"}
SweepPC == {"idle", "keep", "chunks", "graph"}
Purgers == {"spawned", "backstop"}

VARIABLES
    repo,           \* repositories.status
    left,           \* what the environment may still do (model bound)
    head,           \* tip of the default branch
    enq,            \* index tasks about to be inserted by a spawned handler
    row,            \* tasks.status
    indexed,        \* tasks.indexed_sha
    pod,            \* phase of the task's pod
    tree,           \* the commit the pod has checked out
    retries,        \* pods started after the first
    recorded,       \* history: tasks whose attempt has recorded its commit
    graph,          \* pages of each commit's graph in Neo4j
    chunks,         \* created_at of the code_chunks rows, 0 = no row
    old,            \* the rows older than the sweeper's ten minutes of grace
    snaps,          \* completed_at of the index_snapshots rows, 0 = no row
    purge,          \* position of each purger
    sweep, keep,    \* position of the sweeper and its keep-set
    pruned          \* history: commits that lost chunks to a sweep or purge

repoVars  == <<repo, head, enq>>
rowVars   == <<row, indexed>>
podVars   == <<pod, tree, retries, recorded>>
storeVars == <<graph, chunks, old, snaps>>
gcVars    == <<purge, sweep, keep>>
vars == <<repoVars, rowVars, podVars, storeVars, gcVars, pruned, left>>

TypeOK ==
    /\ repo \in {"pending", "approved", "disabled"}
    /\ left \in [changes : Nat, pushes : Nat, reviews : Nat, faults : Nat]
    /\ head \in 1 .. Heads
    /\ enq \in 0 .. MaxEnqueues
    /\ row \in [Tasks -> Status]
    /\ indexed \in [Tasks -> Commits \cup {None}]
    /\ pod \in [Tasks -> Phase]
    /\ tree \in [Tasks -> Commits]
    /\ retries \in [Tasks -> 0 .. MaxRetries]
    /\ recorded \subseteq Tasks
    /\ graph \in [Commits -> SUBSET Pages]
    /\ chunks \in [Chunks -> Nat] /\ old \subseteq Chunks
    /\ snaps \in [Commits -> Nat]
    /\ purge \in [Purgers -> PurgePC]
    /\ sweep \in SweepPC
    /\ keep \subseteq Commits
    /\ pruned \subseteq Commits

Init ==
    /\ left \in Budgets
    /\ repo = "pending" /\ head = 1 /\ enq = 0
    /\ row = [t \in Tasks |-> "absent"]
    /\ indexed = [t \in Tasks |-> None]
    /\ pod = [t \in Tasks |-> "none"]
    /\ tree = [t \in Tasks |-> PrHead]
    /\ retries = [t \in Tasks |-> 0] /\ recorded = {}
    /\ graph = [c \in Commits |-> {}]
    /\ chunks = [r \in Chunks |-> 0] /\ old = {}
    /\ snaps = [c \in Commits |-> 0]
    /\ purge = [p \in Purgers |-> "idle"]
    /\ sweep = "idle" /\ keep = {}
    /\ pruned = {}

\* The environment spends a unit of its budget.
Spend(what) == left[what] > 0 /\ left' = [left EXCEPT ![what] = @ - 1]
Fault == Spend("faults")

-----------------------------------------------------------------------------
(* Reads of the two stores (db/code_chunks.rs).                            *)

Stored == {r \in Chunks : chunks[r] > 0}
Marked == {c \in Commits : snaps[c] > 0}

ChunksOf(c) == {b \in Batches : <<c, b>> \in Stored}
Indexed == {c \in Commits : ChunksOf(c) # {}}

\* now(), later than every stamp so far; and the row with the latest stamp.
Now(stamps) == 1 + Max({stamps[x] : x \in DOMAIN stamps})
Newest(stamps, S) == CHOOSE x \in S : \A y \in S : stamps[y] <= stamps[x]

\* latest_indexed_commit: the last completed snapshot that has chunks, or
\* else the commit of the newest row of a repository without any.
latest_indexed_commit ==
    LET done == Marked \cap Indexed
    IN  IF done # {} THEN Newest(snaps, done)
        ELSE IF Stored # {} THEN Newest(chunks, Stored)[1]
        ELSE None

\* task_scope pins every read of a task to that commit, or to the head of the
\* task while there is no index; search returns what is stored under it.
task_scope == IF latest_indexed_commit # None THEN latest_indexed_commit ELSE PrHead
search == ChunksOf(task_scope)

has_active_index_task ==
    \E t \in IndexTasks : row[t] \notin Terminal \cup {"absent"}

\* in_use_commits: the head of a pull request under review.
in_use_commits ==
    IF \E t \in ReviewTasks : row[t] \notin Terminal \cup {"absent"}
    THEN {PrHead} ELSE {}

\* repos_with_stale_snapshots and list_disabled_repos_needing_purge; the
\* repo_index table has no writer, so only code_chunks can hold a marker.
HasStaleSnapshots == \E c, d \in Indexed : c # d
\* Wrong variant: the completion markers are what is listed.
needing_purge_by_marker == repo = "disabled" /\ Marked # {}
needing_purge == repo = "disabled" /\ Stored # {}

-----------------------------------------------------------------------------
(* Approval, denial, pushes (http/admin.rs, http/webhook.rs).              *)

set_repository_status(to) == Spend("changes") /\ repo' = to

\* set_status("approved"): the base index is enqueued by a spawned task.
approve ==
    /\ enq < MaxEnqueues /\ enq' = enq + 1
    /\ set_repository_status("approved")
    /\ UNCHANGED <<head, rowVars, podVars, storeVars, gcVars, pruned>>

spawn_purge ==
    /\ purge["spawned"] = "idle"
    /\ purge' = [purge EXCEPT !["spawned"] = "check"]

\* deny, and a repository or its installation removed: the purge is spawned.
disable_repos ==
    /\ set_repository_status("disabled")
    /\ spawn_purge
    /\ UNCHANGED <<head, enq, rowVars, podVars, storeVars, sweep, keep, pruned>>

\* register_pending_repository: a removed repository comes back.
register_pending ==
    /\ repo = "disabled"
    /\ set_repository_status("pending")
    /\ UNCHANGED <<head, enq, rowVars, podVars, storeVars, gcVars, pruned>>

\* A push to the default branch: the approval is read, the index task is
\* inserted by a later statement of the same handler.
handle_push ==
    /\ head < Heads /\ Spend("pushes") /\ enq < MaxEnqueues
    /\ head' = head + 1
    /\ enq' = IF repo = "approved" THEN enq + 1 ELSE enq
    /\ UNCHANGED <<repo, rowVars, podVars, storeVars, gcVars, pruned>>

\* create_index_task: nothing is inserted while an index task is active.
create_index_task ==
    /\ enq > 0 /\ enq' = enq - 1
    /\ IF \E t \in IndexTasks : row[t] \in Active
       THEN UNCHANGED row
       ELSE \E t \in IndexTasks :
                row[t] = "absent" /\ row' = [row EXCEPT ![t] = "queued"]
    /\ UNCHANGED <<repo, head, indexed, podVars, storeVars, gcVars, pruned, left>>

\* enqueue_index_on_approve gives up: no installation, no token, no branch.
enqueue_index_on_approve_skips ==
    /\ Fault /\ enq > 0 /\ enq' = enq - 1
    /\ UNCHANGED <<repo, head, rowVars, podVars, storeVars, gcVars, pruned>>

\* create_task: a review waits behind an index task that is in flight.
create_review_task(t) ==
    /\ row[t] = "absent" /\ repo = "approved" /\ Spend("reviews")
    /\ row' = [row EXCEPT ![t] = IF has_active_index_task
                                 THEN "waiting_for_index" ELSE "queued"]
    /\ UNCHANGED <<repoVars, indexed, podVars, storeVars, gcVars, pruned>>

-----------------------------------------------------------------------------
(* The runner (agent-runner run.rs, indexer/) and the ingest endpoints.    *)

\* A claimed row gets a pod; the pod's first report makes it `running`.
launch(t) ==
    /\ row[t] = "queued" /\ pod[t] = "none"
    /\ row' = [row EXCEPT ![t] = "running"]
    /\ pod' = [pod EXCEPT ![t] = "boot"]
    /\ UNCHANGED <<repoVars, indexed, tree, retries, recorded, storeVars, gcVars, pruned, left>>

\* checkout: the head of the pull request, or the default branch by name.
checkout(t) == IF t \in IndexTasks THEN head ELSE PrHead

\* perform_indexing: a review of a repository that has an index reuses it.
needs_index(t) == t \in IndexTasks \/ latest_indexed_commit = None

\* run: report `running`, fetch the context, check the tree out.
start(t) ==
    /\ pod[t] = "boot"
    /\ row' = [row EXCEPT ![t] = "running"]
    /\ tree' = [tree EXCEPT ![t] = checkout(t)]
    /\ pod' = [pod EXCEPT ![t] = IF needs_index(t) THEN "nodes" ELSE "ok"]
    /\ recorded' = recorded \ {t}
    /\ UNCHANGED <<repoVars, indexed, retries, storeVars, gcVars, pruned, left>>

\* get_context answers an error (no token, no platform client, no database).
get_context_fails(t) ==
    /\ Fault /\ pod[t] = "boot"
    /\ row' = [row EXCEPT ![t] = "running"]
    /\ pod' = [pod EXCEPT ![t] = "fail"]
    /\ UNCHANGED <<repoVars, indexed, tree, retries, recorded, storeVars, gcVars, pruned>>

\* Wrong variant: the commit of the first attempt is kept.
record_indexed_commit_once(t) ==
    /\ indexed' = [indexed EXCEPT ![t] = IF @ = None THEN tree[t] ELSE @]
    /\ recorded' = recorded \cup {t}

record_indexed_commit(t) ==
    /\ indexed' = [indexed EXCEPT ![t] = tree[t]]
    /\ recorded' = recorded \cup {t}

\* Both ingest endpoints record the commit before they write, best effort: a
\* failure is a warning, and the page or batch is written and answered 204.
NotRecorded == UNCHANGED <<indexed, recorded>>
try_record(t) ==
    \/ record_indexed_commit(t) /\ UNCHANGED left
    \/ Fault /\ NotRecorded

\* submit_graph_paged: every page of nodes before any page of edges.
AfterPage(page) == IF page = "nodes" THEN "edges" ELSE "chunk1"

\* upsert_graph: an edge whose end points are missing is dropped silently.
upsert_graph(pages, page) ==
    IF page = "edges" /\ "nodes" \notin pages THEN pages ELSE pages \cup {page}

ingest_graph(t) ==
    \E page \in Pages :
      /\ pod[t] = page
      /\ try_record(t)
      /\ graph' = [graph EXCEPT ![tree[t]] = upsert_graph(@, page)]
      /\ pod' = [pod EXCEPT ![t] = AfterPage(page)]
      /\ UNCHANGED <<repoVars, row, tree, retries, chunks, old, snaps, gcVars, pruned>>

\* A page is refused or times out; the commit may be recorded already.
index_graph_fails(t) ==
    /\ Fault /\ pod[t] \in Pages
    /\ record_indexed_commit(t) \/ NotRecorded
    /\ pod' = [pod EXCEPT ![t] = "discard"]
    /\ UNCHANGED <<repoVars, row, tree, retries, storeVars, gcVars, pruned>>

delete_commit_graph(c) == [graph EXCEPT ![c] = {}]

\* discard_graph deletes what is stored under head_sha, or under the name of
\* the default branch for a task without one: no commit has that name.
discard_graph(t) ==
    /\ pod[t] = "discard"
    /\ graph' = IF t \in ReviewTasks THEN delete_commit_graph(PrHead) ELSE graph
    /\ pod' = [pod EXCEPT ![t] = "chunk1"]
    /\ UNCHANGED <<repoVars, rowVars, tree, retries, recorded, chunks, old, snaps, gcVars, pruned, left>>

\* The discard itself is best effort.
discard_graph_fails(t) ==
    /\ Fault /\ pod[t] = "discard"
    /\ pod' = [pod EXCEPT ![t] = "chunk1"]
    /\ UNCHANGED <<repoVars, rowVars, tree, retries, recorded, storeVars, gcVars, pruned>>

\* upsert_code_chunks: a row that exists keeps its created_at.
upsert_code_chunks(r) ==
    IF r \in Stored THEN chunks ELSE [chunks EXCEPT ![r] = Now(chunks)]

ingest_chunks(t) ==
    \E b \in Batches :
      /\ pod[t] = IF b = 1 THEN "chunk1" ELSE "chunk2"
      /\ try_record(t)
      /\ chunks' = upsert_code_chunks(<<tree[t], b>>)
      /\ pod' = [pod EXCEPT ![t] = IF b = 1 THEN "chunk2" ELSE "ok"]
      /\ UNCHANGED <<repoVars, row, tree, retries, graph, old, snaps, gcVars, pruned>>

\* A failed embedding or batch fails the run; the record precedes the upsert.
index_chunks_fails(t) ==
    /\ Fault /\ pod[t] \in {"chunk1", "chunk2"}
    /\ record_indexed_commit(t) \/ NotRecorded
    /\ pod' = [pod EXCEPT ![t] = "fail"]
    /\ UNCHANGED <<repoVars, row, tree, retries, storeVars, gcVars, pruned>>

\* release_reviews_waiting_on_index, after an index row became terminal.
Released(rows, t) ==
    IF t \in IndexTasks
    THEN [u \in Tasks |-> IF rows[u] = "waiting_for_index" THEN "queued" ELSE rows[u]]
    ELSE rows

\* The marker of a commit, with completed_at = now().
Completed(c) == [snaps EXCEPT ![c] = Now(snaps)]

\* set_task_status("succeeded"): the marker is written with the status,
\* whatever the status was.
report_succeeded(t) ==
    /\ pod[t] = "ok"
    /\ row' = Released([row EXCEPT ![t] = "succeeded"], t)
    /\ snaps' = IF indexed[t] = None THEN snaps ELSE Completed(indexed[t])
    /\ pod' = [pod EXCEPT ![t] = "none"]
    /\ UNCHANGED <<repoVars, indexed, tree, retries, recorded, graph, chunks, old, gcVars, pruned, left>>

\* set_task_status("failed"); the Job starts another pod within its limit.
report_failed(t) ==
    /\ pod[t] = "fail"
    /\ row' = Released([row EXCEPT ![t] = "failed"], t)
    /\ pod' = [pod EXCEPT ![t] = "dead"]
    /\ UNCHANGED <<repoVars, indexed, tree, retries, recorded, storeVars, gcVars, pruned, left>>

pod_dies(t) ==
    /\ Fault /\ pod[t] \notin {"none", "dead"}
    /\ pod' = [pod EXCEPT ![t] = "dead"]
    /\ UNCHANGED <<repoVars, rowVars, tree, retries, recorded, storeVars, gcVars, pruned>>

\* The Job replaces a failed pod, or gives up; then the reaper fails the row.
job_retries(t) ==
    /\ pod[t] = "dead"
    /\ IF retries[t] < MaxRetries
       THEN /\ pod' = [pod EXCEPT ![t] = "boot"]
            /\ retries' = [retries EXCEPT ![t] = @ + 1]
            /\ UNCHANGED row
       ELSE /\ pod' = [pod EXCEPT ![t] = "none"]
            /\ row' = IF row[t] = "running"
                      THEN Released([row EXCEPT ![t] = "failed"], t) ELSE row
            /\ UNCHANGED retries
    /\ UNCHANGED <<repoVars, indexed, tree, recorded, storeVars, gcVars, pruned, left>>

\* cancelled_upstream / SIGTERM: the pod of a cancelled task stops.
self_cancel(t) ==
    /\ pod[t] # "none" /\ row[t] = "cancelled"
    /\ pod' = [pod EXCEPT ![t] = "none"]
    /\ UNCHANGED <<repoVars, rowVars, tree, retries, recorded, storeVars, gcVars, pruned, left>>

-----------------------------------------------------------------------------
(* The purge (queue/lifecycle.rs), spawned by a denial or by the backstop. *)

\* reconcile_purges: the dispatcher's slow tick lists what is left over.
reconcile_purges ==
    /\ purge["backstop"] = "idle" /\ needing_purge
    /\ purge' = [purge EXCEPT !["backstop"] = "check"]
    /\ UNCHANGED <<repoVars, rowVars, podVars, storeVars, sweep, keep, pruned, left>>

PurgeStep(p, from, to) == purge[p] = from /\ purge' = [purge EXCEPT ![p] = to]

purge_check(p) ==
    /\ PurgeStep(p, "check", IF repo = "disabled" THEN "cancel" ELSE "idle")
    /\ UNCHANGED <<repoVars, rowVars, podVars, storeVars, sweep, keep, pruned, left>>

\* A waiting row is left alone.
cancel_active_tasks_for_repo ==
    [t \in Tasks |-> IF row[t] \in Active THEN "cancelled" ELSE row[t]]

purge_cancel(p) ==
    /\ PurgeStep(p, "cancel", "graph")
    /\ row' = cancel_active_tasks_for_repo
    /\ UNCHANGED <<repoVars, indexed, podVars, storeVars, sweep, keep, pruned, left>>

\* delete_repo_graph; a failure keeps the Postgres markers.
purge_graph(p) ==
    /\ PurgeStep(p, "graph", "chunks")
    /\ graph' = [c \in Commits |-> {}]
    /\ UNCHANGED <<repoVars, rowVars, podVars, chunks, old, snaps, sweep, keep, pruned, left>>

purge_graph_fails(p) ==
    /\ Fault
    /\ PurgeStep(p, "graph", "idle")
    /\ UNCHANGED <<repoVars, rowVars, podVars, storeVars, sweep, keep, pruned>>

purge_chunks(p) ==
    /\ PurgeStep(p, "chunks", "snapshots")
    /\ chunks' = [r \in Chunks |-> 0] /\ old' = {} /\ pruned' = pruned \cup Indexed
    /\ UNCHANGED <<repoVars, rowVars, podVars, graph, snaps, sweep, keep, left>>

purge_snapshots(p) ==
    /\ PurgeStep(p, "snapshots", "idle")
    /\ snaps' = [c \in Commits |-> 0]
    /\ UNCHANGED <<repoVars, rowVars, podVars, graph, chunks, old, sweep, keep, pruned, left>>

\* The status check that fails aborts the purge; a failing cancel or Postgres
\* delete is a warning, and the purge goes on without it.
AfterFailing == [check |-> "idle", cancel |-> "graph", chunks |-> "snapshots",
                 snapshots |-> "idle"]
purge_skips(p) ==
    /\ Fault /\ purge[p] \in DOMAIN AfterFailing
    /\ purge' = [purge EXCEPT ![p] = AfterFailing[@]]
    /\ UNCHANGED <<repoVars, rowVars, podVars, storeVars, sweep, keep, pruned>>

\* A restart loses the spawned purge and the spawned inserts.
restart ==
    /\ Fault /\ (purge["spawned"] # "idle" \/ enq > 0)
    /\ purge' = [purge EXCEPT !["spawned"] = "idle"] /\ enq' = 0
    /\ UNCHANGED <<repo, head, rowVars, podVars, storeVars, sweep, keep, pruned>>

-----------------------------------------------------------------------------
(* The index sweeper (queue/index_sweeper.rs).                             *)

\* The grace is minutes, a sweep's statements are not: no row leaves the
\* grace while a sweep is between its check and its deletes.
age ==
    /\ sweep = "idle" /\ old # Stored
    /\ old' = Stored
    /\ UNCHANGED <<repoVars, rowVars, podVars, graph, chunks, snaps, gcVars, pruned, left>>

sweep_check ==
    /\ sweep = "idle" /\ HasStaleSnapshots /\ ~has_active_index_task
    /\ sweep' = "keep"
    /\ UNCHANGED <<repoVars, rowVars, podVars, storeVars, purge, keep, pruned, left>>

\* Wrong variant: only the commits that tasks pin are kept.
sweep_keep_in_use ==
    /\ sweep = "keep"
    /\ keep' = in_use_commits /\ sweep' = "chunks"
    /\ UNCHANGED <<repoVars, rowVars, podVars, storeVars, purge, pruned, left>>

sweep_keep ==
    /\ sweep = "keep"
    /\ keep' = in_use_commits \cup ({latest_indexed_commit} \ {None})
    /\ sweep' = IF keep' = {} THEN "idle" ELSE "chunks"
    /\ UNCHANGED <<repoVars, rowVars, podVars, storeVars, purge, pruned, left>>

\* prune_code_chunks spares the rows in their grace.
sweep_chunks ==
    /\ sweep = "chunks" /\ sweep' = "graph"
    /\ LET gone == {r \in old : r[1] \notin keep}
       IN  /\ chunks' = [r \in Chunks |-> IF r \in gone THEN 0 ELSE chunks[r]]
           /\ old' = old \ gone
           /\ pruned' = pruned \cup {r[1] : r \in gone}
    /\ UNCHANGED <<repoVars, rowVars, podVars, graph, snaps, purge, keep, left>>

\* prune_graph has no grace.
sweep_graph ==
    /\ sweep = "graph" /\ sweep' = "idle" /\ keep' = {}
    /\ graph' = [c \in Commits |-> IF c \in keep THEN graph[c] ELSE {}]
    /\ UNCHANGED <<repoVars, rowVars, podVars, chunks, old, snaps, purge, pruned, left>>

-----------------------------------------------------------------------------
RunStep(t) ==
    \/ start(t) \/ ingest_graph(t) \/ discard_graph(t) \/ ingest_chunks(t)
    \/ report_succeeded(t) \/ report_failed(t) \/ job_retries(t) \/ self_cancel(t)

PurgeSteps(p) ==
    purge_check(p) \/ purge_cancel(p) \/ purge_graph(p) \/ purge_chunks(p)
    \/ purge_snapshots(p)

SweepStep == sweep_keep \/ sweep_chunks \/ sweep_graph

Next ==
    \/ approve \/ disable_repos \/ register_pending \/ handle_push
    \/ create_index_task \/ enqueue_index_on_approve_skips
    \/ \E t \in ReviewTasks : create_review_task(t)
    \/ \E t \in Tasks :
          \/ launch(t) \/ RunStep(t)
          \/ index_graph_fails(t) \/ get_context_fails(t) \/ discard_graph_fails(t)
          \/ index_chunks_fails(t) \/ pod_dies(t)
    \/ reconcile_purges
    \/ \E p \in Purgers : PurgeSteps(p) \/ purge_graph_fails(p) \/ purge_skips(p)
    \/ restart
    \/ age \/ sweep_check \/ SweepStep

Spec == Init /\ [][Next]_vars

(***************************************************************************)
(* Fairness.  The dispatcher ticks the backstop for ever and runs a purge  *)
(* it has begun (a restart repeats both), a pod makes progress or dies and *)
(* is polled for cancellation.  Neo4j is strongly fair: a purge that is    *)
(* repeated finds it up some time.                                         *)
(***************************************************************************)
Fairness ==
    /\ WF_vars(reconcile_purges)
    /\ WF_vars(create_index_task)
    /\ \A p \in Purgers :
          /\ WF_vars(purge_check(p)) /\ WF_vars(purge_cancel(p))
          /\ SF_vars(purge_graph(p))
          /\ WF_vars(purge_chunks(p)) /\ WF_vars(purge_snapshots(p))
    /\ \A t \in Tasks : WF_vars(RunStep(t))

FairSpec == Spec /\ Fairness

-----------------------------------------------------------------------------
(* When a run succeeds and one of its batches or pages got its commit recorded,
   the commit its marker names has every chunk, unless a sweep or a purge
   removed some meanwhile: an earlier attempt of the same task may have died
   halfway through another commit, any of the records may have failed, and what
   set_task_status marks is what the attempt that succeeded wrote
   (record_indexed_commit). *)
IndexRunMarksWhole ==
    [][\A t \in Tasks : report_succeeded(t) /\ t \in recorded
         => indexed[t] \in pruned \/ ChunksOf(indexed[t]) = Batches]_vars

(* The sweeper never takes the last index of a repository away: what it read
   as the latest snapshot outlives its two deletes, whatever runs and purges
   did between its check and them. *)
SweepKeepsAnIndex ==
    [][SweepStep /\ latest_indexed_commit # None
         => latest_indexed_commit' # None]_vars

(* A repository that stays denied ends up without chunks, although its spawned
   purge may be lost to a restart, the graph store may fail, and cancelled
   index runs go on writing until they notice. *)
DeniedIsPurged ==
    <>[](repo = "disabled") => <>[](Stored = {})

(* What the comment of set_task_status says of every run: a snapshot becomes
   readable when the run that wrote it succeeds, so a half-written one is
   never marked complete. *)
MarkedIsWhole ==
    \A c \in Marked : c \in pruned \/ ChunksOf(c) = Batches

(* And what it concludes: retrieval is pinned to completed snapshots, so a
   review never searches a half-written one. *)
HalfWrittenNeverServed ==
    \A t \in ReviewTasks :
        pod[t] = "ok" /\ task_scope \notin pruned => search \in {{}, Batches}

(* What the comment of discard_graph says: a page sequence that stopped
   partway leaves no subset behind that reads as complete. *)
GraphWholeOrAbsent ==
    \A c \in Marked \ pruned :
        (\A t \in Tasks : pod[t] = "none") => graph[c] \in {{}, Pages}

(* What the comment of purge_repository_data says: a purge never wipes the
   index of a repository that was approved again. *)
ReapprovedKeepsIndex ==
    [][repo = "approved" /\ Marked # {} => Stored' # {} \/ Stored = {}]_vars

(* What the comment of list_disabled_repos_needing_purge says: graph data left
   over comes with code_chunks, so the backstop finds it. *)
LeftoversAreFound ==
    /\ repo = "disabled" /\ \A p \in Purgers : purge[p] = "idle"
    /\ \A t \in Tasks : pod[t] = "none" /\ row[t] \notin Active
    /\ \E c \in Commits : graph[c] # {}
    => Stored # {}
=============================================================================
