-------------------------- MODULE RepoIndexProofs --------------------------
(***************************************************************************)
(* Proofs about RepoIndex: its types, that an index run marks the commit   *)
(* it recorded only once it has written all of it, and that the sweeper    *)
(* never takes the last index away.  They hold for any number of index and review      *)
(* tasks, commits, retries and faults.                                     *)
(***************************************************************************)
EXTENDS RepoIndex, NaturalsInduction, WellFoundedInduction, TLAPS

-----------------------------------------------------------------------------
(* Stamps: now() is later than each of them, and one of a set is latest.   *)

\* A non-empty set of naturals has a least element: induction, as a fact
\* about sets.
LEMMA LeastNatural ==
    ASSUME NEW T, T \subseteq Nat, T # {}
    PROVE  \E x \in T : \A y \in T : x <= y
<1>. DEFINE R == {p \in Nat \X Nat : p[1] < p[2]}
<1>1. IsWellFoundedOn(R, Nat)
  BY NatLessThanWellFounded DEF OpToRel
<1>. HIDE DEF R
<1>2. PICK x \in T : \A y \in T : ~(<<y, x>> \in R)
  BY <1>1, WFMin
<1>3. ASSUME NEW y \in T PROVE x <= y
  <2>1. ~(<<y, x>> \in R)
    BY <1>2
  <2>. QED
    BY <2>1 DEF R
<1>. QED
  BY <1>3

\* The stamps of the commits 0 .. Heads have an upper bound.
LEMMA CommitsBounded ==
    ASSUME NEW f \in [Commits -> Nat]
    PROVE  \E b \in Nat : \A c \in Commits : f[c] <= b
<1>. DEFINE Bounded(n) == \E b \in Nat : \A c \in 0 .. n : f[c] <= b
            T == {n \in 0 .. Heads : ~Bounded(n)}
<1>h. Heads \in Nat
  BY Bounds
<1>1. T = {}
  <2>1. SUFFICES ASSUME T # {} PROVE FALSE
    OBVIOUS
  <2>2. T \subseteq Nat
    BY <1>h
  <2>3. PICK n \in T : \A m \in T : n <= m
    BY <2>1, <2>2, LeastNatural
  <2>4. n \in 0 .. Heads /\ ~Bounded(n)
    OBVIOUS
  <2>5. CASE n = 0
    <3>1. f[0] \in Nat /\ \A c \in 0 .. 0 : f[c] <= f[0]
      BY <1>h DEF Commits
    <3>. QED
      BY <2>4, <2>5, <3>1
  <2>6. CASE n # 0
    <3>1. n - 1 \in 0 .. Heads /\ ~(n <= n - 1)
      BY <1>h, <2>4, <2>6
    <3>2. Bounded(n - 1)
      BY <2>3, <3>1
    <3>3. PICK b \in Nat : \A c \in 0 .. n - 1 : f[c] <= b
      BY <3>2
    <3>4. f[n] \in Nat
      BY <2>4, <1>h DEF Commits
    <3>5. \A c \in 0 .. n : f[c] <= b + f[n]
      BY <1>h, <2>4, <2>6, <3>3, <3>4 DEF Commits
    <3>. QED
      BY <2>4, <3>4, <3>5
  <2>. QED
    BY <2>5, <2>6
<1>2. Heads \in 0 .. Heads
  BY <1>h
<1>. HIDE DEF Bounded
<1>3. Bounded(Heads)
  BY <1>1, <1>2
<1>. QED
  BY <1>3 DEF Commits, Bounded

\* And so have the stamps of the chunks.
LEMMA ChunksBounded ==
    ASSUME NEW f \in [Chunks -> Nat]
    PROVE  \E b \in Nat : \A r \in Chunks : f[r] <= b
<1>1. PICK g \in [Commits -> Nat] : \A c \in Commits : g[c] = f[<<c, 1>>]
  <2>1. [c \in Commits |-> f[<<c, 1>>]] \in [Commits -> Nat]
    BY DEF Chunks, Batches
  <2>. QED
    BY <2>1
<1>2. PICK h \in [Commits -> Nat] : \A c \in Commits : h[c] = f[<<c, 2>>]
  <2>1. [c \in Commits |-> f[<<c, 2>>]] \in [Commits -> Nat]
    BY DEF Chunks, Batches
  <2>. QED
    BY <2>1
<1>3. PICK a \in Nat : \A c \in Commits : g[c] <= a
  BY CommitsBounded
<1>4. PICK b \in Nat : \A c \in Commits : h[c] <= b
  BY CommitsBounded
<1>5. ASSUME NEW r \in Chunks PROVE f[r] <= a + b
  <2>1. PICK c \in Commits, i \in Batches : r = <<c, i>>
    BY DEF Chunks
  <2>2. g[c] \in Nat /\ h[c] \in Nat /\ g[c] <= a /\ h[c] <= b
    BY <1>3, <1>4
  <2>3. f[r] = g[c] \/ f[r] = h[c]
    BY <1>1, <1>2, <2>1 DEF Batches
  <2>. QED
    BY <2>2, <2>3
<1>. QED
  BY <1>5

\* Bounded stamps have a newest among any of them.
LEMMA NewestExists ==
    ASSUME NEW D, NEW f \in [D -> Nat], NEW b \in Nat, \A x \in D : f[x] <= b,
           NEW S, S \subseteq D, S # {}
    PROVE  \E x \in S : \A y \in S : f[y] <= f[x]
<1>. DEFINE T == {b - f[x] : x \in S}
<1>1. \A x \in S : f[x] \in Nat /\ b - f[x] \in Nat
  OBVIOUS
<1>2. T \subseteq Nat /\ T # {}
  BY <1>1
<1>3. PICK m \in T : \A k \in T : m <= k
  BY <1>2, LeastNatural
<1>4. PICK x \in S : m = b - f[x]
  OBVIOUS
<1>5. ASSUME NEW y \in S PROVE f[y] <= f[x]
  <2>1. m <= b - f[y]
    BY <1>3
  <2>. QED
    BY <1>1, <1>4, <2>1
<1>. QED
  BY <1>5

\* Newest(f, S) is one of S.
LEMMA NewestIsOne ==
    ASSUME NEW D, NEW f \in [D -> Nat], NEW b \in Nat, \A x \in D : f[x] <= b,
           NEW S, S \subseteq D, S # {}
    PROVE  Newest(f, S) \in S
  BY NewestExists DEF Newest

\* now() is a stamp, and never 0.
LEMMA NowIsAStamp ==
    ASSUME NEW D, D # {}, NEW f \in [D -> Nat], NEW b \in Nat, \A x \in D : f[x] <= b
    PROVE  Now(f) \in Nat /\ Now(f) > 0
<1>1. PICK x \in D : \A y \in D : f[y] <= f[x]
  BY NewestExists
<1>2. \E m \in {f[y] : y \in D} : \A k \in {f[y] : y \in D} : m >= k
  BY <1>1
<1>3. Max({f[y] : y \in D}) \in {f[y] : y \in D}
  BY <1>2 DEF Max
<1>4. DOMAIN f = D
  OBVIOUS
<1>. QED
  BY <1>3, <1>4 DEF Now

-----------------------------------------------------------------------------
(* The inductive invariant.                                                *)

\* Batch b of the commit a run has checked out is stored, or a sweep or a
\* purge has taken chunks of that commit since.
HasWritten(t, b) == <<tree[t], b>> \in Stored \/ tree[t] \in pruned

\* A run that is past its first batch has written it; what an attempt has
\* recorded is the commit it has checked out; and when an attempt that has
\* recorded anything is through, both batches of that commit are written.
RunWrites ==
    \A t \in Tasks :
        /\ pod[t] = "chunk2" => HasWritten(t, 1)
        /\ t \in recorded => indexed[t] = tree[t]
        /\ pod[t] = "ok" /\ t \in recorded => HasWritten(t, 1) /\ HasWritten(t, 2)

\* What a sweep is about to delete leaves something: a row of the commits it
\* keeps, or one in its grace.
Spared == {r \in Stored : r[1] \in keep \/ r \notin old}
SweepSpares == sweep = "chunks" => Stored = {} \/ Spared # {}

IndexInv == TypeOK /\ old \subseteq Stored /\ RunWrites /\ SweepSpares

-----------------------------------------------------------------------------
(* Lemmas about the stores.                                                *)

\* now() for a row of code_chunks and for a marker.
LEMMA NowOfStores ==
    ASSUME TypeOK
    PROVE  /\ Now(chunks) \in Nat /\ Now(chunks) > 0
           /\ Now(snaps) \in Nat
<1>1. chunks \in [Chunks -> Nat] /\ snaps \in [Commits -> Nat]
  BY DEF TypeOK
<1>2. Chunks # {} /\ Commits # {}
  <2>1. 0 \in Commits
    BY Bounds DEF Commits
  <2>2. <<0, 1>> \in Chunks
    BY <2>1 DEF Chunks, Batches
  <2>. QED
    BY <2>1, <2>2
<1>3. PICK b \in Nat : \A r \in Chunks : chunks[r] <= b
  BY <1>1, ChunksBounded
<1>4. PICK d \in Nat : \A c \in Commits : snaps[c] <= d
  BY <1>1, CommitsBounded
<1>5. Now(chunks) \in Nat /\ Now(chunks) > 0
  BY <1>1, <1>2, <1>3, NowIsAStamp
<1>6. Now(snaps) \in Nat
  BY <1>1, <1>2, <1>4, NowIsAStamp
<1>. QED
  BY <1>5, <1>6

\* A batch that is ingested is stored, beside what was.
LEMMA UpsertStores ==
    ASSUME TypeOK, NEW r \in Chunks, chunks' = upsert_code_chunks(r)
    PROVE  chunks' \in [Chunks -> Nat] /\ Stored' = Stored \cup {r}
<1>1. chunks \in [Chunks -> Nat]
  BY DEF TypeOK
<1>2. PICK n \in Nat : n = Now(chunks) /\ n > 0
  BY NowOfStores
<1>3. CASE r \in Stored
  BY <1>1, <1>3 DEF upsert_code_chunks, Stored
<1>4. CASE r \notin Stored
  <2>1. chunks' = [chunks EXCEPT ![r] = n]
    BY <1>2, <1>4 DEF upsert_code_chunks
  <2>. QED
    BY <1>1, <1>2, <2>1 DEF Stored
<1>. QED
  BY <1>3, <1>4

\* latest_indexed_commit is a commit with a stored row, if there is one.
LEMMA LatestIsStored ==
    ASSUME TypeOK
    PROVE  /\ Stored = {} => latest_indexed_commit = None
           /\ Stored # {} => /\ latest_indexed_commit \in Commits
                             /\ \E r \in Stored : r[1] = latest_indexed_commit
<1>1. chunks \in [Chunks -> Nat] /\ snaps \in [Commits -> Nat]
  BY DEF TypeOK
<1>2. PICK b \in Nat : \A r \in Chunks : chunks[r] <= b
  BY <1>1, ChunksBounded
<1>3. PICK d \in Nat : \A c \in Commits : snaps[c] <= d
  BY <1>1, CommitsBounded
<1>4. \A c \in Indexed : c \in Commits /\ \E r \in Stored : r[1] = c
  BY DEF Indexed, ChunksOf
<1>5. PICK done : done = Marked \cap Indexed
  OBVIOUS
<1>6. done \subseteq Commits /\ done \subseteq Indexed
  BY <1>4, <1>5
<1>7. /\ done # {} => latest_indexed_commit = Newest(snaps, done)
      /\ done = {} /\ Stored # {} => latest_indexed_commit = Newest(chunks, Stored)[1]
      /\ done = {} /\ Stored = {} => latest_indexed_commit = None
  BY <1>5 DEF latest_indexed_commit
<1>8. CASE done # {}
  <2>1. Newest(snaps, done) \in done
    BY <1>1, <1>3, <1>6, <1>8, NewestIsOne
  <2>. QED
    BY <1>4, <1>6, <1>7, <1>8, <2>1
<1>9. CASE done = {} /\ Stored # {}
  <2>1. Stored \subseteq Chunks
    BY DEF Stored
  <2>2. Newest(chunks, Stored) \in Stored
    BY <1>1, <1>2, <1>9, <2>1, NewestIsOne
  <2>3. Newest(chunks, Stored)[1] \in Commits
    BY <2>1, <2>2 DEF Chunks
  <2>. QED
    BY <1>7, <1>9, <2>2, <2>3
<1>. QED
  BY <1>7, <1>8, <1>9

\* The budget stays a budget.
LEMMA SpendTypes ==
    ASSUME TypeOK, NEW w \in {"changes", "pushes", "reviews", "faults"}, Spend(w)
    PROVE  left' \in [changes : Nat, pushes : Nat, reviews : Nat, faults : Nat]
<1>1. PICK l \in [changes : Nat, pushes : Nat, reviews : Nat, faults : Nat] : l = left
  BY DEF TypeOK
<1>2. left' = [l EXCEPT ![w] = l[w] - 1] /\ l[w] > 0
  BY <1>1 DEF Spend
<1>. QED
  BY <1>2

\* Recording a commit, or failing to, keeps the types it touches.
LEMMA RecordTypes ==
    ASSUME TypeOK, NEW t \in Tasks,
           try_record(t) \/ record_indexed_commit(t) \/ NotRecorded
    PROVE  indexed' \in [Tasks -> Commits \cup {None}] /\ recorded' \subseteq Tasks
  BY DEF TypeOK, try_record, record_indexed_commit, NotRecorded

LEMMA TryRecordSpends ==
    ASSUME TypeOK, NEW t \in Tasks, try_record(t)
    PROVE  left' \in [changes : Nat, pushes : Nat, reviews : Nat, faults : Nat]
<1>1. CASE UNCHANGED left
  BY <1>1 DEF TypeOK
<1>2. CASE Fault
  BY <1>2, SpendTypes DEF Fault
<1>. QED
  BY <1>1, <1>2 DEF try_record

\* A record of rows stays one when the waiting reviews are released.
LEMMA ReleasedTypes ==
    ASSUME NEW rows \in [Tasks -> Status], NEW t \in Tasks
    PROVE  Released(rows, t) \in [Tasks -> Status]
  BY DEF Released, Status, Active

\* Every step keeps the types.
LEMMA StepTypes ==
    ASSUME TypeOK, [Next]_vars
    PROVE  TypeOK'
<1>. USE DEF repoVars, rowVars, podVars, storeVars, gcVars
<1>s. \A w \in {"changes", "pushes", "reviews", "faults"} :
        Spend(w) => left' \in [changes : Nat, pushes : Nat, reviews : Nat, faults : Nat]
  BY SpendTypes
<1>b. Heads \in Nat \ {0} /\ MaxRetries \in Nat /\ MaxEnqueues \in Nat
  BY Bounds
<1>t. TypeOK
  OBVIOUS
<1>1. ASSUME approve PROVE TypeOK'
  BY <1>1, <1>s, <1>b, <1>t DEF TypeOK, approve, set_repository_status
<1>2. ASSUME disable_repos PROVE TypeOK'
  BY <1>2, <1>s, <1>b, <1>t DEF TypeOK, disable_repos, set_repository_status, spawn_purge, PurgePC
<1>3. ASSUME register_pending PROVE TypeOK'
  BY <1>3, <1>s, <1>b, <1>t DEF TypeOK, register_pending, set_repository_status
<1>4. ASSUME handle_push PROVE TypeOK'
  BY <1>4, <1>s, <1>b, <1>t DEF TypeOK, handle_push
<1>5. ASSUME create_index_task PROVE TypeOK'
  <2>1. row' \in [Tasks -> Status]
    BY <1>5, <1>t DEF TypeOK, create_index_task, Status, Active
  <2>. QED
    BY <1>5, <1>b, <1>t, <2>1 DEF TypeOK, create_index_task
<1>6. ASSUME enqueue_index_on_approve_skips PROVE TypeOK'
  BY <1>6, <1>s, <1>b, <1>t DEF TypeOK, enqueue_index_on_approve_skips, Fault
<1>7. ASSUME NEW t \in ReviewTasks, create_review_task(t) PROVE TypeOK'
  <2>1. row' \in [Tasks -> Status]
    BY <1>7, <1>t DEF TypeOK, create_review_task, Status, Active
  <2>. QED
    BY <1>7, <1>s, <1>t, <2>1 DEF TypeOK, create_review_task
<1>8. ASSUME NEW t \in Tasks, launch(t) PROVE TypeOK'
  BY <1>8, <1>t DEF TypeOK, launch, Status, Active, Phase
<1>9. ASSUME NEW t \in Tasks, start(t) PROVE TypeOK'
  <2>1. checkout(t) \in Commits
    BY <1>b, <1>t DEF TypeOK, checkout, Commits, PrHead
  <2>2. row' \in [Tasks -> Status] /\ pod' \in [Tasks -> Phase] /\ tree' \in [Tasks -> Commits]
    BY <1>9, <1>t, <2>1 DEF TypeOK, start, Status, Active, Phase
  <2>. QED
    BY <1>9, <1>t, <2>2 DEF TypeOK, start
<1>10. ASSUME NEW t \in Tasks, ingest_graph(t) PROVE TypeOK'
  <2>1. PICK page \in Pages : /\ graph' = [graph EXCEPT ![tree[t]] = upsert_graph(graph[tree[t]], page)]
                              /\ pod' = [pod EXCEPT ![t] = AfterPage(page)]
    BY <1>10 DEF ingest_graph
  <2>2. indexed' \in [Tasks -> Commits \cup {None}] /\ recorded' \subseteq Tasks
    BY <1>10, <1>t, RecordTypes DEF ingest_graph
  <2>5. left' \in [changes : Nat, pushes : Nat, reviews : Nat, faults : Nat]
    BY <1>10, <1>t, TryRecordSpends DEF ingest_graph
  <2>3. graph' \in [Commits -> SUBSET Pages]
    BY <1>t, <2>1 DEF TypeOK, upsert_graph
  <2>4. pod' \in [Tasks -> Phase]
    BY <1>t, <2>1 DEF TypeOK, AfterPage, Phase
  <2>. QED
    BY <1>10, <1>t, <2>2, <2>3, <2>4, <2>5 DEF TypeOK, ingest_graph
<1>11. ASSUME NEW t \in Tasks, discard_graph(t) PROVE TypeOK'
  <2>1. graph' \in [Commits -> SUBSET Pages] /\ pod' \in [Tasks -> Phase]
    BY <1>11, <1>t DEF TypeOK, discard_graph, delete_commit_graph, Phase
  <2>. QED
    BY <1>11, <1>t, <2>1 DEF TypeOK, discard_graph
<1>12. ASSUME NEW t \in Tasks, ingest_chunks(t) PROVE TypeOK'
  <2>1. PICK b \in Batches : /\ chunks' = upsert_code_chunks(<<tree[t], b>>)
                             /\ pod' = [pod EXCEPT ![t] = IF b = 1 THEN "chunk2" ELSE "ok"]
    BY <1>12 DEF ingest_chunks
  <2>2. <<tree[t], b>> \in Chunks
    BY <1>t DEF TypeOK, Chunks
  <2>3. chunks' \in [Chunks -> Nat]
    BY <1>t, <2>1, <2>2, UpsertStores
  <2>4. indexed' \in [Tasks -> Commits \cup {None}] /\ recorded' \subseteq Tasks
    BY <1>12, <1>t, RecordTypes DEF ingest_chunks
  <2>6. left' \in [changes : Nat, pushes : Nat, reviews : Nat, faults : Nat]
    BY <1>12, <1>t, TryRecordSpends DEF ingest_chunks
  <2>5. pod' \in [Tasks -> Phase]
    BY <1>t, <2>1 DEF TypeOK, Phase
  <2>. QED
    BY <1>12, <1>t, <2>3, <2>4, <2>5, <2>6 DEF TypeOK, ingest_chunks
<1>13. ASSUME NEW t \in Tasks, report_succeeded(t) PROVE TypeOK'
  <2>1. [row EXCEPT ![t] = "succeeded"] \in [Tasks -> Status]
    BY <1>t DEF TypeOK, Status, Terminal
  <2>2. row' \in [Tasks -> Status]
    BY <1>13, <2>1, ReleasedTypes DEF report_succeeded
  <2>3. snaps' \in [Commits -> Nat]
    <3>1. PICK n \in Nat : n = Now(snaps)
      BY <1>t, NowOfStores
    <3>. QED
      BY <1>13, <1>t, <3>1 DEF TypeOK, report_succeeded, Completed
  <2>4. pod' \in [Tasks -> Phase]
    BY <1>13, <1>t DEF TypeOK, report_succeeded, Phase
  <2>. QED
    BY <1>13, <1>t, <2>2, <2>3, <2>4 DEF TypeOK, report_succeeded
<1>14. ASSUME NEW t \in Tasks, report_failed(t) PROVE TypeOK'
  <2>1. [row EXCEPT ![t] = "failed"] \in [Tasks -> Status]
    BY <1>t DEF TypeOK, Status, Terminal
  <2>2. row' \in [Tasks -> Status]
    BY <1>14, <2>1, ReleasedTypes DEF report_failed
  <2>3. pod' \in [Tasks -> Phase]
    BY <1>14, <1>t DEF TypeOK, report_failed, Phase
  <2>. QED
    BY <1>14, <1>t, <2>2, <2>3 DEF TypeOK, report_failed
<1>15. ASSUME NEW t \in Tasks, job_retries(t) PROVE TypeOK'
  <2>1. [row EXCEPT ![t] = "failed"] \in [Tasks -> Status]
    BY <1>t DEF TypeOK, Status, Terminal
  <2>2. Released([row EXCEPT ![t] = "failed"], t) \in [Tasks -> Status]
    BY <2>1, ReleasedTypes
  <2>3. row' \in [Tasks -> Status]
    BY <1>15, <1>t, <2>2 DEF TypeOK, job_retries
  <2>4. pod' \in [Tasks -> Phase] /\ retries' \in [Tasks -> 0 .. MaxRetries]
    BY <1>15, <1>b, <1>t DEF TypeOK, job_retries, Phase
  <2>. QED
    BY <1>15, <1>t, <2>3, <2>4 DEF TypeOK, job_retries
<1>16. ASSUME NEW t \in Tasks, self_cancel(t) PROVE TypeOK'
  BY <1>16, <1>t DEF TypeOK, self_cancel, Phase
<1>17. ASSUME NEW t \in Tasks, index_graph_fails(t) PROVE TypeOK'
  <2>1. indexed' \in [Tasks -> Commits \cup {None}] /\ recorded' \subseteq Tasks
    BY <1>17, <1>t, RecordTypes DEF index_graph_fails
  <2>. QED
    BY <1>17, <1>s, <1>t, <2>1 DEF TypeOK, index_graph_fails, Fault, Phase
<1>18. ASSUME NEW t \in Tasks, get_context_fails(t) PROVE TypeOK'
  BY <1>18, <1>s, <1>t DEF TypeOK, get_context_fails, Fault, Phase, Status, Active
<1>19. ASSUME NEW t \in Tasks, discard_graph_fails(t) PROVE TypeOK'
  BY <1>19, <1>s, <1>t DEF TypeOK, discard_graph_fails, Fault, Phase
<1>20. ASSUME NEW t \in Tasks, index_chunks_fails(t) PROVE TypeOK'
  <2>1. indexed' \in [Tasks -> Commits \cup {None}] /\ recorded' \subseteq Tasks
    BY <1>20, <1>t, RecordTypes DEF index_chunks_fails
  <2>. QED
    BY <1>20, <1>s, <1>t, <2>1 DEF TypeOK, index_chunks_fails, Fault, Phase
<1>21. ASSUME NEW t \in Tasks, pod_dies(t) PROVE TypeOK'
  BY <1>21, <1>s, <1>t DEF TypeOK, pod_dies, Fault, Phase
<1>22. ASSUME reconcile_purges PROVE TypeOK'
  BY <1>22, <1>t DEF TypeOK, reconcile_purges, PurgePC
<1>23. ASSUME NEW p \in Purgers, purge_check(p) PROVE TypeOK'
  BY <1>23, <1>t DEF TypeOK, purge_check, PurgeStep, PurgePC
<1>24. ASSUME NEW p \in Purgers, purge_cancel(p) PROVE TypeOK'
  <2>1. row' \in [Tasks -> Status]
    BY <1>24, <1>t DEF TypeOK, purge_cancel, cancel_active_tasks_for_repo, Status, Terminal
  <2>. QED
    BY <1>24, <1>t, <2>1 DEF TypeOK, purge_cancel, PurgeStep, PurgePC
<1>25. ASSUME NEW p \in Purgers, purge_graph(p) PROVE TypeOK'
  BY <1>25, <1>t DEF TypeOK, purge_graph, PurgeStep, PurgePC
<1>26. ASSUME NEW p \in Purgers, purge_graph_fails(p) PROVE TypeOK'
  BY <1>26, <1>s, <1>t DEF TypeOK, purge_graph_fails, PurgeStep, PurgePC, Fault
<1>27. ASSUME NEW p \in Purgers, purge_chunks(p) PROVE TypeOK'
  <2>1. chunks' \in [Chunks -> Nat] /\ old' \subseteq Chunks /\ pruned' \subseteq Commits
    BY <1>27, <1>t DEF TypeOK, purge_chunks, Indexed
  <2>. QED
    BY <1>27, <1>t, <2>1 DEF TypeOK, purge_chunks, PurgeStep, PurgePC
<1>28. ASSUME NEW p \in Purgers, purge_snapshots(p) PROVE TypeOK'
  BY <1>28, <1>t DEF TypeOK, purge_snapshots, PurgeStep, PurgePC
<1>29. ASSUME restart PROVE TypeOK'
  <2>1. enq' \in 0 .. MaxEnqueues
    BY <1>29, <1>b DEF restart
  <2>3. purge' \in [Purgers -> PurgePC]
    BY <1>29, <1>t DEF TypeOK, restart, PurgePC
  <2>2. left' \in [changes : Nat, pushes : Nat, reviews : Nat, faults : Nat]
    BY <1>29, <1>s DEF restart, Fault
  <2>. QED
    BY <1>29, <1>t, <2>1, <2>2, <2>3 DEF TypeOK, restart
<1>30. ASSUME age PROVE TypeOK'
  <2>1. old' \subseteq Chunks
    BY <1>30 DEF age, Stored
  <2>. QED
    BY <1>30, <1>t, <2>1 DEF TypeOK, age
<1>31. ASSUME sweep_check PROVE TypeOK'
  BY <1>31, <1>t DEF TypeOK, sweep_check, SweepPC
<1>32. ASSUME sweep_keep PROVE TypeOK'
  <2>1. keep' \subseteq Commits
    <3>1. in_use_commits \subseteq Commits
      BY <1>b DEF in_use_commits, Commits, PrHead
    <3>2. {latest_indexed_commit} \ {None} \subseteq Commits
      BY <1>t, LatestIsStored
    <3>. QED
      BY <1>32, <3>1, <3>2 DEF sweep_keep
  <2>. QED
    BY <1>32, <1>t, <2>1 DEF TypeOK, sweep_keep, SweepPC
<1>33. ASSUME sweep_chunks PROVE TypeOK'
  <2>1. chunks' \in [Chunks -> Nat] /\ old' \subseteq Chunks
    BY <1>33, <1>t DEF TypeOK, sweep_chunks
  <2>2. pruned' \subseteq Commits
    <3>1. \A r \in old : r[1] \in Commits
      BY <1>t DEF TypeOK, Chunks
    <3>. QED
      BY <1>33, <1>t, <3>1 DEF TypeOK, sweep_chunks
  <2>. QED
    BY <1>33, <1>t, <2>1, <2>2 DEF TypeOK, sweep_chunks, SweepPC
<1>34. ASSUME sweep_graph PROVE TypeOK'
  <2>1. graph' \in [Commits -> SUBSET Pages]
    BY <1>34, <1>t DEF TypeOK, sweep_graph
  <2>. QED
    BY <1>34, <1>t, <2>1 DEF TypeOK, sweep_graph, SweepPC
<1>35. ASSUME NEW p \in Purgers, purge_skips(p) PROVE TypeOK'
  <2>1. purge' \in [Purgers -> PurgePC]
    BY <1>35, <1>t DEF TypeOK, purge_skips, AfterFailing, PurgePC
  <2>. QED
    BY <1>35, <1>s, <1>t, <2>1 DEF TypeOK, purge_skips, Fault
<1>36. ASSUME UNCHANGED vars PROVE TypeOK'
  BY <1>36, <1>t DEF TypeOK, vars
<1>. QED
  BY <1>1, <1>2, <1>3, <1>4, <1>5, <1>6, <1>7, <1>8, <1>9, <1>10, <1>11,
     <1>12, <1>13, <1>14, <1>15, <1>16, <1>17, <1>18, <1>19, <1>20, <1>21,
     <1>22, <1>23, <1>24, <1>25, <1>26, <1>27, <1>28, <1>29, <1>30, <1>31,
     <1>32, <1>33, <1>34, <1>35, <1>36
     DEF Next, RunStep, PurgeSteps, SweepStep

\* A row that is gone after a step was taken by a sweep or a purge, which is
\* remembered.
LEMMA StoresKept ==
    ASSUME IndexInv, [Next]_vars
    PROVE  /\ pruned \subseteq pruned'
           /\ \A r \in Stored : r \in Stored' \/ r[1] \in pruned'
<1>. USE DEF repoVars, rowVars, podVars, storeVars, gcVars
<1>t. TypeOK /\ chunks \in [Chunks -> Nat] /\ old \subseteq Stored
  BY DEF IndexInv, TypeOK
<1>1. ASSUME NEW t \in Tasks, ingest_chunks(t)
      PROVE  pruned' = pruned /\ Stored \subseteq Stored'
  <2>1. PICK b \in Batches : chunks' = upsert_code_chunks(<<tree[t], b>>)
    BY <1>1 DEF ingest_chunks
  <2>2. <<tree[t], b>> \in Chunks
    BY <1>t DEF TypeOK, Chunks
  <2>. QED
    BY <1>1, <1>t, <2>1, <2>2, UpsertStores DEF ingest_chunks
<1>2. ASSUME NEW p \in Purgers, purge_chunks(p)
      PROVE  pruned \subseteq pruned' /\ \A r \in Stored : r[1] \in pruned'
  <2>1. \A r \in Stored : r[1] \in Indexed
    BY DEF Stored, Indexed, ChunksOf, Chunks
  <2>. QED
    BY <1>2, <2>1 DEF purge_chunks
<1>3. ASSUME sweep_chunks
      PROVE  pruned \subseteq pruned' /\ \A r \in Stored : r \in Stored' \/ r[1] \in pruned'
  <2>1. PICK gone : gone = {r \in old : r[1] \notin keep}
    OBVIOUS
  <2>2. /\ chunks' = [r \in Chunks |-> IF r \in gone THEN 0 ELSE chunks[r]]
        /\ pruned' = pruned \cup {r[1] : r \in gone}
    BY <1>3, <2>1 DEF sweep_chunks
  <2>3. \A r \in Stored : r \in gone \/ r \in Stored'
    BY <2>2 DEF Stored
  <2>. QED
    BY <2>2, <2>3
<1>4. ASSUME UNCHANGED <<chunks, pruned>>
      PROVE  pruned' = pruned /\ Stored' = Stored
  BY <1>4 DEF Stored
<1>5. \/ \E t \in Tasks : ingest_chunks(t)
      \/ \E p \in Purgers : purge_chunks(p)
      \/ sweep_chunks
      \/ UNCHANGED <<chunks, pruned>>
  <2>1. CASE \E t \in Tasks : RunStep(t)
    BY <2>1 DEF RunStep, start, ingest_graph, discard_graph, report_succeeded, report_failed,
       job_retries, self_cancel
  <2>2. CASE \E p \in Purgers : PurgeSteps(p)
    BY <2>2 DEF PurgeSteps, purge_check, purge_cancel, purge_graph, purge_snapshots
  <2>3. CASE SweepStep
    BY <2>3 DEF SweepStep, sweep_keep, sweep_graph
  <2>. QED
    BY <2>1, <2>2, <2>3 DEF Next, vars, approve, disable_repos, register_pending, handle_push,
       create_index_task, enqueue_index_on_approve_skips, create_review_task, launch,
       index_graph_fails, get_context_fails, discard_graph_fails, index_chunks_fails, pod_dies,
       reconcile_purges, purge_graph_fails, purge_skips, restart, age, sweep_check
<1>. QED
  BY <1>1, <1>2, <1>3, <1>4, <1>5

\* What happens to a run in a step: it stays where it is, or it moves to where
\* no batch is due (it may have recorded its commit), or it starts and has not
\* recorded anything, or it writes a batch.
Stays(t) ==
    tree'[t] = tree[t] /\ indexed'[t] = indexed[t] /\ (t \in recorded' => t \in recorded)
Records(t) == tree'[t] = tree[t] /\ indexed'[t] = tree[t]

RunMoves(t) ==
    \/ pod'[t] = pod[t] /\ Stays(t)
    \/ pod'[t] \notin {"chunk2", "ok"} /\ (Stays(t) \/ Records(t))
    \/ pod'[t] # "chunk2" /\ t \notin recorded'
    \/ ingest_chunks(t)

\* An endpoint that tries to record the commit of u does nothing to others.
LEMMA RecordMoves ==
    ASSUME TypeOK, NEW t \in Tasks, NEW u \in Tasks, tree' = tree,
           try_record(u) \/ record_indexed_commit(u) \/ NotRecorded
    PROVE  Stays(t) \/ (u = t /\ Records(t))
  BY DEF TypeOK, try_record, record_indexed_commit, NotRecorded, Stays, Records

LEMMA PodSteps ==
    ASSUME TypeOK, [Next]_vars, NEW t \in Tasks
    PROVE  RunMoves(t)
<1>. USE DEF repoVars, rowVars, podVars, storeVars, gcVars
<1>t. /\ TypeOK /\ pod \in [Tasks -> Phase] /\ tree \in [Tasks -> Commits]
      /\ indexed \in [Tasks -> Commits \cup {None}]
  BY DEF TypeOK
<1>1. ASSUME NEW u \in Tasks, launch(u) PROVE RunMoves(t)
  BY <1>1, <1>t DEF launch, RunMoves, Stays
<1>2. ASSUME NEW u \in Tasks, start(u) PROVE RunMoves(t)
  BY <1>2, <1>t DEF start, needs_index, RunMoves, Stays
<1>3. ASSUME NEW u \in Tasks, ingest_graph(u) PROVE RunMoves(t)
  <2>1. Stays(t) \/ (u = t /\ Records(t))
    BY <1>3, <1>t, RecordMoves DEF ingest_graph
  <2>2. pod'[t] = pod[t] \/ (u = t /\ pod'[t] \notin {"chunk2", "ok"})
    BY <1>3, <1>t DEF ingest_graph, AfterPage
  <2>3. u = t => pod'[t] \notin {"chunk2", "ok"}
    BY <1>3, <1>t DEF ingest_graph, AfterPage
  <2>. QED
    BY <2>1, <2>2, <2>3 DEF RunMoves
<1>4. ASSUME NEW u \in Tasks, discard_graph(u) \/ discard_graph_fails(u) PROVE RunMoves(t)
  BY <1>4, <1>t DEF discard_graph, discard_graph_fails, RunMoves, Stays
<1>5. ASSUME NEW u \in Tasks, ingest_chunks(u) PROVE RunMoves(t)
  <2>1. CASE u = t
    BY <1>5, <2>1 DEF RunMoves
  <2>2. CASE u # t
    <3>1. Stays(t)
      BY <1>5, <1>t, <2>2, RecordMoves DEF ingest_chunks
    <3>2. pod'[t] = pod[t]
      BY <1>5, <1>t, <2>2 DEF ingest_chunks
    <3>. QED
      BY <3>1, <3>2 DEF RunMoves
  <2>. QED
    BY <2>1, <2>2
<1>6. ASSUME NEW u \in Tasks, report_succeeded(u) \/ report_failed(u) PROVE RunMoves(t)
  BY <1>6, <1>t DEF report_succeeded, report_failed, RunMoves, Stays
<1>7. ASSUME NEW u \in Tasks, job_retries(u) PROVE RunMoves(t)
  BY <1>7, <1>t DEF job_retries, RunMoves, Stays
<1>8. ASSUME NEW u \in Tasks, self_cancel(u) \/ pod_dies(u) PROVE RunMoves(t)
  BY <1>8, <1>t DEF self_cancel, pod_dies, RunMoves, Stays
<1>9. ASSUME NEW u \in Tasks, index_graph_fails(u) \/ index_chunks_fails(u) PROVE RunMoves(t)
  <2>1. Stays(t) \/ (u = t /\ Records(t))
    BY <1>9, <1>t, RecordMoves DEF index_graph_fails, index_chunks_fails
  <2>2. /\ u = t => pod'[t] \notin {"chunk2", "ok"}
        /\ u # t => pod'[t] = pod[t]
    BY <1>9, <1>t DEF index_graph_fails, index_chunks_fails
  <2>. QED
    BY <2>1, <2>2 DEF RunMoves
<1>10. ASSUME NEW u \in Tasks, get_context_fails(u) PROVE RunMoves(t)
  BY <1>10, <1>t DEF get_context_fails, RunMoves, Stays
<1>11. \/ \E u \in Tasks : \/ launch(u) \/ RunStep(u) \/ index_graph_fails(u)
                           \/ get_context_fails(u) \/ discard_graph_fails(u)
                           \/ index_chunks_fails(u) \/ pod_dies(u)
       \/ UNCHANGED <<pod, tree, indexed, recorded>>
  BY DEF Next, vars, approve, disable_repos, register_pending, handle_push,
     create_index_task, enqueue_index_on_approve_skips, create_review_task,
     reconcile_purges, PurgeSteps, purge_check, purge_cancel, purge_graph, purge_chunks,
     purge_snapshots, purge_graph_fails, purge_skips, restart, age, sweep_check, SweepStep,
     sweep_keep, sweep_chunks, sweep_graph
<1>12. ASSUME UNCHANGED <<pod, tree, indexed, recorded>> PROVE RunMoves(t)
  BY <1>12 DEF RunMoves, Stays
<1>. QED
  BY <1>1, <1>2, <1>3, <1>4, <1>5, <1>6, <1>7, <1>8, <1>9, <1>10, <1>11, <1>12 DEF RunStep

\* Every step keeps RunWrites.
LEMMA StepRuns ==
    ASSUME IndexInv, [Next]_vars
    PROVE  RunWrites'
<1>1. SUFFICES ASSUME NEW t \in Tasks
               PROVE  /\ pod'[t] = "chunk2" => HasWritten(t, 1)'
                      /\ t \in recorded' => indexed'[t] = tree'[t]
                      /\ pod'[t] = "ok" /\ t \in recorded'
                           => HasWritten(t, 1)' /\ HasWritten(t, 2)'
  BY DEF RunWrites
<1>t. TypeOK /\ tree[t] \in Commits /\ pod \in [Tasks -> Phase]
      /\ indexed \in [Tasks -> Commits \cup {None}]
  BY DEF IndexInv, TypeOK
<1>i. /\ pod[t] = "chunk2" => HasWritten(t, 1)
      /\ t \in recorded => indexed[t] = tree[t]
      /\ pod[t] = "ok" /\ t \in recorded => HasWritten(t, 1) /\ HasWritten(t, 2)
  BY DEF IndexInv, RunWrites
<1>2. ASSUME NEW b \in Batches, HasWritten(t, b), tree'[t] = tree[t]
      PROVE  HasWritten(t, b)'
  <2>1. <<tree[t], b>>[1] = tree[t]
    OBVIOUS
  <2>. QED
    BY <1>2, <2>1, StoresKept DEF HasWritten
<1>3. CASE pod'[t] = pod[t] /\ Stays(t)
  BY <1>2, <1>3, <1>i DEF Stays, Batches
<1>4. CASE pod'[t] \notin {"chunk2", "ok"} /\ (Stays(t) \/ Records(t))
  BY <1>4, <1>i DEF Stays, Records
<1>5. CASE pod'[t] # "chunk2" /\ t \notin recorded'
  BY <1>5
<1>6. CASE ingest_chunks(t)
  <2>1. PICK b \in Batches :
          /\ pod[t] = IF b = 1 THEN "chunk1" ELSE "chunk2"
          /\ try_record(t)
          /\ chunks' = upsert_code_chunks(<<tree[t], b>>)
          /\ pod' = [pod EXCEPT ![t] = IF b = 1 THEN "chunk2" ELSE "ok"]
          /\ tree' = tree
    BY <1>6 DEF ingest_chunks
  <2>2. <<tree[t], b>> \in Chunks
    BY <1>t DEF Chunks
  <2>3. HasWritten(t, b)'
    BY <1>t, <2>1, <2>2, UpsertStores DEF HasWritten
  <2>4. t \in recorded' => indexed'[t] = tree'[t]
    BY <1>t, <1>i, <2>1, RecordMoves DEF Stays, Records
  <2>5. CASE b = 1
    BY <1>t, <2>1, <2>3, <2>4, <2>5
  <2>6. CASE b = 2
    <3>1. HasWritten(t, 1)'
      BY <1>2, <1>i, <2>1, <2>6 DEF Batches
    <3>. QED
      BY <1>t, <2>1, <2>3, <2>4, <2>6, <3>1
  <2>. QED
    BY <2>5, <2>6 DEF Batches
<1>. QED
  BY <1>t, <1>3, <1>4, <1>5, <1>6, PodSteps DEF RunMoves

\* Every step keeps the rows in their grace stored, and SweepSpares.
LEMMA StepSweeps ==
    ASSUME IndexInv, [Next]_vars
    PROVE  (old \subseteq Stored)' /\ SweepSpares'
<1>. USE DEF repoVars, rowVars, podVars, storeVars, gcVars
<1>t. TypeOK /\ chunks \in [Chunks -> Nat] /\ old \subseteq Stored /\ Stored \subseteq Chunks
  BY DEF IndexInv, TypeOK, Stored
<1>. DEFINE Same == UNCHANGED <<chunks, old, sweep, keep>>
<1>1. CASE Same
  <2>1. Stored' = Stored /\ Spared' = Spared
    BY <1>1 DEF Stored, Spared
  <2>. QED
    BY <1>1, <2>1 DEF IndexInv, SweepSpares
<1>2. ASSUME NEW t \in Tasks, ingest_chunks(t)
      PROVE  (old \subseteq Stored)' /\ SweepSpares'
  <2>1. PICK b \in Batches : chunks' = upsert_code_chunks(<<tree[t], b>>)
    BY <1>2 DEF ingest_chunks
  <2>2. <<tree[t], b>> \in Chunks
    BY <1>t DEF TypeOK, Chunks
  <2>3. PICK r \in Chunks : Stored' = Stored \cup {r}
    BY <1>t, <2>1, <2>2, UpsertStores
  <2>4. UNCHANGED <<old, sweep, keep>>
    BY <1>2 DEF ingest_chunks
  <2>5. Spared \subseteq Spared' /\ (r \notin Stored => r \in Spared')
    BY <1>t, <2>3, <2>4 DEF Spared
  <2>. QED
    BY <1>t, <2>3, <2>4, <2>5 DEF IndexInv, SweepSpares
<1>3. ASSUME NEW p \in Purgers, purge_chunks(p)
      PROVE  (old \subseteq Stored)' /\ SweepSpares'
  BY <1>3 DEF purge_chunks, Stored, SweepSpares
<1>4. CASE age
  BY <1>4 DEF age, Stored, SweepSpares
<1>5. CASE sweep_check \/ sweep_graph
  BY <1>5, <1>t DEF sweep_check, sweep_graph, Stored, SweepSpares
<1>6. CASE sweep_keep
  <2>1. UNCHANGED <<chunks, old>> /\ Stored' = Stored
    BY <1>6 DEF sweep_keep, Stored
  <2>2. ASSUME Stored # {} PROVE Spared' # {}
    <3>1. PICK r \in Stored : r[1] = latest_indexed_commit /\ latest_indexed_commit \in Commits
      BY <1>t, <2>2, LatestIsStored
    <3>2. r[1] \in keep'
      BY <1>6, <3>1, NullAssumption DEF sweep_keep
    <3>. QED
      BY <2>1, <3>1, <3>2 DEF Spared
  <2>. QED
    BY <1>t, <2>1, <2>2 DEF SweepSpares
<1>7. CASE sweep_chunks
  BY <1>7, <1>t DEF sweep_chunks, Stored, SweepSpares
<1>8. \/ Same \/ age \/ sweep_check \/ SweepStep
      \/ \E t \in Tasks : ingest_chunks(t)
      \/ \E p \in Purgers : purge_chunks(p)
  <2>1. CASE \E t \in Tasks : RunStep(t)
    BY <2>1 DEF RunStep, start, ingest_graph, discard_graph, report_succeeded, report_failed,
       job_retries, self_cancel
  <2>2. CASE \E p \in Purgers : PurgeSteps(p)
    BY <2>2 DEF PurgeSteps, purge_check, purge_cancel, purge_graph, purge_snapshots
  <2>. QED
    BY <2>1, <2>2 DEF Next, vars, approve, disable_repos, register_pending, handle_push,
       create_index_task, enqueue_index_on_approve_skips, create_review_task, launch,
       index_graph_fails, get_context_fails, discard_graph_fails, index_chunks_fails, pod_dies,
       reconcile_purges, purge_graph_fails, purge_skips, restart
<1>. QED
  BY <1>1, <1>2, <1>3, <1>4, <1>5, <1>6, <1>7, <1>8 DEF SweepStep

\* The invariant holds at first.
LEMMA InitIndex ==
    ASSUME Init
    PROVE  IndexInv
<1>1. TypeOK
  <2>1. left \in [changes : Nat, pushes : Nat, reviews : Nat, faults : Nat]
    BY BudgetSet DEF Init
  <2>2. /\ head \in 1 .. Heads /\ enq \in 0 .. MaxEnqueues
        /\ retries \in [Tasks -> 0 .. MaxRetries] /\ tree \in [Tasks -> Commits]
    BY Bounds DEF Init, Commits, PrHead
  <2>. QED
    BY <2>1, <2>2 DEF Init, TypeOK, Status, Phase, PurgePC, SweepPC
<1>2. old \subseteq Stored /\ RunWrites /\ SweepSpares
  <2>1. \A t \in Tasks : pod[t] = "none" /\ t \notin recorded
    BY DEF Init
  <2>. QED
    BY <2>1 DEF Init, RunWrites, SweepSpares
<1>. QED
  BY <1>1, <1>2 DEF IndexInv

\* IndexInv is inductive: the index of a repository is written, marked, swept
\* and purged as RepoIndex has it, for any number of runs, commits and faults.
THEOREM IndexInvariant == Spec => []IndexInv
<1>1. Init => IndexInv
  BY InitIndex
<1>2. IndexInv /\ [Next]_vars => IndexInv'
  <2>1. SUFFICES ASSUME IndexInv, [Next]_vars PROVE IndexInv'
    OBVIOUS
  <2>2. TypeOK
    BY <2>1 DEF IndexInv
  <2>. QED
    BY <2>1, <2>2, StepTypes, StepRuns, StepSweeps DEF IndexInv
<1>. QED
  BY <1>1, <1>2, PTL DEF Spec

\* What a run that recorded its commit marks is whole, whatever died, was purged
\* or swept, and whichever records failed (record_indexed_commit, which is best
\* effort, and set_task_status).
THEOREM IndexRunsMarkWhole == Spec => IndexRunMarksWhole
<1>. DEFINE Whole == \A t \in Tasks : report_succeeded(t) /\ t \in recorded
                       => indexed[t] \in pruned \/ ChunksOf(indexed[t]) = Batches
<1>1. IndexInv => Whole
  BY DEF IndexInv, RunWrites, HasWritten, report_succeeded, ChunksOf, Batches
<1>2. IndexInv /\ [Next]_vars => [Whole]_vars
  BY <1>1
<1>. QED
  BY <1>2, IndexInvariant, PTL DEF Spec, IndexRunMarksWhole

\* A sweep leaves an index where there was one (queue/index_sweeper.rs).
THEOREM SweepsKeepAnIndex == Spec => SweepKeepsAnIndex
<1>. DEFINE Keeps == SweepStep /\ latest_indexed_commit # None => latest_indexed_commit' # None
<1>1. ASSUME IndexInv, [Next]_vars PROVE Keeps
  <2>1. SUFFICES ASSUME SweepStep, latest_indexed_commit # None
                 PROVE  latest_indexed_commit' # None
    OBVIOUS
  <2>2. TypeOK /\ TypeOK'
    BY <1>1, StepTypes DEF IndexInv
  <2>3. Stored # {}
    BY <2>1, <2>2, LatestIsStored
  <2>4. Stored' # {}
    <3>1. CASE sweep_keep \/ sweep_graph
      BY <2>3, <3>1 DEF sweep_keep, sweep_graph, Stored, storeVars
    <3>2. CASE sweep_chunks
      <4>1. PICK r \in Stored : r[1] \in keep \/ r \notin old
        BY <1>1, <2>3, <3>2 DEF IndexInv, SweepSpares, Spared, sweep_chunks
      <4>2. r \in Chunks /\ chunks'[r] = chunks[r] /\ chunks[r] > 0
        BY <3>2, <4>1 DEF sweep_chunks, Stored
      <4>. QED
        BY <4>2 DEF Stored
    <3>. QED
      BY <2>1, <3>1, <3>2 DEF SweepStep
  <2>5. (Stored # {} => latest_indexed_commit \in Commits)'
    BY <2>2, LatestIsStored, PTL
  <2>. QED
    BY <2>4, <2>5, NullAssumption
<1>2. IndexInv /\ [Next]_vars => [Keeps]_vars
  BY <1>1
<1>. QED
  BY <1>2, IndexInvariant, PTL DEF Spec, SweepKeepsAnIndex
=============================================================================
