--------------------------- MODULE PlatformCalls ---------------------------
(***************************************************************************)
(* What the control plane writes on a code platform and reads back from    *)
(* it: the review of a pull request, from the findings of a run (dedup     *)
(* against what is posted, validation against the diff, rendering) through *)
(* the platform's calls to the comment ids and the reactions kept for      *)
(* later reviews; and the one file it commits, the review configuration.   *)
(*                                                                         *)
(* The three platforms differ where a property can tell: GitHub takes a    *)
(* review in one call, GitLab and Bitbucket one comment at a time; GitHub  *)
(* lists one review's comments, the others all inline comments of the pull *)
(* request.  Egress models how intents come to be; here one intent per     *)
(* task, the review, is delivered call by call.                            *)
(***************************************************************************)
EXTENDS Naturals, Sequences, FiniteSets, FiniteSetsExt

CONSTANTS
    NTasks,         \* reviews of the pull request
    MaxAttempts,    \* OUTBOX_MAX_ATTEMPTS
    ClampMaxDelta,  \* CLAMP_MAX_DELTA
    Patches,        \* Patches[h][file]: the unified diff of a file at head h
    Worlds,         \* model bounds: the cases of a run (see world)
    Admins          \* administrators who set the preset

Tasks == 1 .. NTasks
Heads == DOMAIN Patches
Platforms == {"github", "gitlab", "bitbucket"}

ASSUME Sizes == {NTasks, MaxAttempts, ClampMaxDelta} \subseteq Nat \ {0}

\* A line of a patch: a hunk header with the first line it shows of the new
\* file, an added, unchanged or deleted line, or another one.  The platforms'
\* own patches begin with a hunk header.
PatchLine == {"@@"} \X Nat \cup {"+", " ", "-", "other"} \X {0}
ASSUME PatchLines ==
    /\ 1 \in Heads
    /\ \A h \in Heads : \A file_ \in DOMAIN Patches[h] :
          /\ Patches[h][file_] \in Seq(PatchLine)
          /\ Patches[h][file_] # <<>> => Patches[h][file_][1][1] = "@@"

\* What runs may find, and the shape of a finding.
Found == UNION {UNION w.finds : w \in Worlds}
Finding == [file : {f.file : f \in Found}, line : Nat, title : {f.title : f \in Found}]

\* The review configuration: its keys and who wrote them.
FileState == [rev : Nat, good : BOOLEAN,
              keys : SUBSET ({"admin"} \X Admins \cup {"author"} \X Nat)]

Left == [{"tasks", "faults", "pushes", "reactions", "deletes", "remarks", "edits"} -> Nat]

\* A run has one finding per file and line (pending_review_inline_uniq).
ASSUME WorldSet ==
    \A w \in Worlds :
        /\ w.platform \in Platforms /\ w.budget \in Left /\ w.file \in FileState
        /\ \A F \in w.finds :
             /\ IsFiniteSet(F) /\ F \subseteq Finding
             /\ \A f, g \in F : f.file = g.file /\ f.line = g.line => f = g

VARIABLES
    world,      \* the platform, the repository's dedup scope, what runs find
    left,       \* what the environment may still do (model bound)
    head,       \* the pull request's head
    run,        \* a task: its head, what it found, kept and against what
    st,         \* status of its review intent
    sent,       \* the payload: inline comments, body, head of the diff used
    attempts,   \* outbox.attempts
    copies,     \* deliveries begun (names the comments of one delivery)
    rc, at,     \* the reconciler's position and the task it delivers
    todo,       \* inline comments still to post in this delivery
    page, gone, \* inline comments on the pull request, and deleted ones
    notes,      \* review bodies on the pull request
    labels,     \* labels of the pull request
    recorded,   \* tasks with a row in reviews
    refs,       \* review_comments: <<comment, task>>
    thumbs,     \* comments with a thumbs-down now
    downed,     \* history: comments that ever had one
    fed,        \* review_feedback rows with reaction '-1': <<comment, task>>
    file,       \* .lightbridge-code-review.jsonc on the default branch
    editor      \* each administrator's set_preset call

prVars     == <<head, run, st, sent, attempts, copies, recorded>>
postVars   == <<rc, at, todo>>
pageVars   == <<page, gone, notes, labels>>
memoryVars == <<refs, thumbs, downed, fed>>
fileVars   == <<file, editor>>
vars == <<world, left, prVars, postVars, pageVars, memoryVars, fileVars>>

\* A finding is a record [file, line, title]; a comment is a finding as it is
\* shown, with the task (0: a human) and the delivery that posted it.
Key(f) == <<f.file, f.title>>
Comment(t, f) == [by |-> t, copy |-> copies[t], file |-> f.file,
                  line |-> f.line, title |-> f.title]
HumanComment(f, l) == [by |-> 0, copy |-> 0, file |-> f, line |-> l, title |-> "human"]
Ever == page \cup gone

NoRun  == [head |-> 0, found |-> {}, kept |-> {}, prior |-> {}, twice |-> FALSE]
NoSent == [inline |-> {}, body |-> {}, head |-> 0]
NoFile == [rev |-> 0, good |-> TRUE, keys |-> {}]

Run == [head : Heads \cup {0}, found : SUBSET Finding, kept : SUBSET Finding,
        prior : SUBSET Tasks, twice : BOOLEAN]

\* Types, and whose comments the stored rows are about.
TypeOK ==
    /\ world \in Worlds /\ left \in Left /\ head \in Heads
    /\ run \in [Tasks -> Run] /\ DOMAIN sent = Tasks
    /\ st \in [Tasks -> {"none", "pending", "posted", "failed"}]
    /\ attempts \in [Tasks -> Nat] /\ copies \in [Tasks -> Nat]
    /\ rc \in {"idle", "post", "upsert", "list", "label", "mark"} /\ at \in Tasks
    /\ recorded \subseteq Tasks
    /\ refs \cup fed \subseteq Ever \X Tasks
    /\ file \in FileState
    /\ editor \in [Admins -> [pc : {"idle", "put", "post", "done", "refused"},
                             snap : FileState]]

Init ==
    /\ world \in Worlds
    /\ left = world.budget
    /\ head = 1
    /\ run = [t \in Tasks |-> NoRun]
    /\ st = [t \in Tasks |-> "none"]
    /\ sent = [t \in Tasks |-> NoSent]
    /\ attempts = [t \in Tasks |-> 0]
    /\ copies = [t \in Tasks |-> 0]
    /\ rc = "idle" /\ at = 1 /\ todo = {}
    /\ page = {} /\ gone = {} /\ notes = {} /\ labels = {}
    /\ recorded = {}
    /\ refs = {} /\ thumbs = {} /\ downed = {} /\ fed = {}
    /\ file = world.file
    /\ editor = [a \in Admins |-> [pc |-> "idle", snap |-> NoFile]]

\* The environment spends a unit of its budget.
Spend(what) == left[what] > 0 /\ left' = [left EXCEPT ![what] = @ - 1]
Fault == Spend("faults")
Reviewing == world.kind = "review"

-----------------------------------------------------------------------------
(* Shaping a review (review.rs).                                           *)

\* Wrong variant: a deleted line advances the line number of the new file.
DiffLine_deleted(acc, l) ==
    CASE l[1] = "@@" -> [acc EXCEPT !.new_line = l[2]]
      [] l[1] = "+"  -> [new_line |-> acc.new_line + 1, added |-> acc.added \cup {acc.new_line},
                         all |-> acc.all \cup {acc.new_line}]
      [] l[1] = " "  -> [acc EXCEPT !.new_line = @ + 1, !.all = @ \cup {acc.new_line}]
      [] l[1] = "-"  -> [acc EXCEPT !.new_line = @ + 1]
      [] OTHER       -> acc

\* One line of a patch.  A header line is not told from content: the "+++" of
\* a raw diff counts as an added line, numbered 0.
DiffLine(acc, l) ==
    CASE l[1] = "@@" -> [acc EXCEPT !.new_line = l[2]]
      [] l[1] = "+"  -> [new_line |-> acc.new_line + 1, added |-> acc.added \cup {acc.new_line},
                         all |-> acc.all \cup {acc.new_line}]
      [] l[1] = " "  -> [acc EXCEPT !.new_line = @ + 1, !.all = @ \cup {acc.new_line}]
      [] OTHER       -> acc

\* The lines a patch adds and shows, read off line by line.
NoLines == [new_line |-> 0, added |-> {}, all |-> {}]
diff_lines(patch) ==
    LET seen[n \in 0 .. Len(patch)] ==
            IF n = 0 THEN NoLines ELSE DiffLine(seen[n - 1], patch[n])
    IN  seen[Len(patch)]

\* The patch of a file as list_changed_files returns it: Bitbucket's is cut
\* from the diff of the whole pull request, with the headers of the file.
github_list_changed_files(patch) == patch
gitlab_list_changed_files(patch) == patch
bitbucket_split_unified_diff(patch) == <<<<"other", 0>>, <<"-", 0>>, <<"+", 0>>>> \o patch

\* The changed files of each head as finalize sees them on each platform.
Diffs ==
    [p \in Platforms |-> [h \in Heads |-> [file_ \in DOMAIN Patches[h] |->
        diff_lines([github    |-> github_list_changed_files(Patches[h][file_]),
                    gitlab    |-> gitlab_list_changed_files(Patches[h][file_]),
                    bitbucket |-> bitbucket_split_unified_diff(Patches[h][file_])][p])]]]

Dist(a, b) == IF a > b THEN a - b ELSE b - a

\* The closest added line, the earlier one on a tie, if it is in the window:
\* a set of one line or none.
nearest_added_line(target, added) ==
    LET Closest(l) == \A m \in added : \/ Dist(l, target) < Dist(m, target)
                                       \/ Dist(l, target) = Dist(m, target) /\ l <= m
    IN  {l \in added : Dist(l, target) <= ClampMaxDelta /\ Closest(l)}

\* The line an inline comment for a finding of a changed file goes to, if any.
Anchor(f, lines) ==
    CASE f.line \in lines.added -> {f.line}
      [] f.line \in lines.all \ lines.added -> nearest_added_line(f.line, lines.added)
      [] OTHER -> {}

\* What tells findings of changed files apart: the anchor, or the line of a
\* finding that has none.
Resolved(f, diff) ==
    [file |-> f.file, title |-> f.title,
     line |-> IF Anchor(f, diff[f.file]) = {} THEN f.line
              ELSE CHOOSE l \in Anchor(f, diff[f.file]) : TRUE]

InScope(F, diff) == {f \in F : f.file \in DOMAIN diff}
Inline(F, diff) ==
    {f \in InScope(F, diff) : \E l \in Anchor(f, diff[f.file]) : l > 0}
\* One of each group of deferred findings that resolve to the same.
Deferred(F, diff) ==
    LET rest == InScope(F, diff) \ Inline(F, diff) IN
    {CHOOSE f \in rest : Resolved(f, diff) = r : r \in {Resolved(f, diff) : f \in rest}}

\* Wrong variant: a finding of a file outside the diff is dropped.
validate_drops(F, diff) ==
    [inline |-> {Resolved(f, diff) : f \in Inline(F, diff)}, body |-> Deferred(F, diff)]

\* Findings that share anchor and title become one comment.  With an empty
\* diff the scope is unknown and everything goes to the body; a finding of
\* a file outside the diff does too.
validate(F, diff) ==
    [inline |-> {Resolved(f, diff) : f \in Inline(F, diff)},
     body   |-> Deferred(F, diff) \cup (F \ InScope(F, diff))]

\* The rows the dedup lookup returns: the stored copies of the other reviews
\* and the payloads of those still to be delivered.
posted_findings_for_target(t) ==
    {<<"reviews", u>> : u \in recorded \ {t}}
        \cup {<<"outbox", u>> : u \in {v \in Tasks \ {t} : st[v] = "pending"}}

SameHead(t, rows) == {r \in rows : run[r[2]].head = run[t].head}

\* The findings with a key that some rows posted, and how many they are.
PostedAs(k, rows) ==
    {p \in rows \X Found : p[2] \in run[p[1][2]].kept /\ Key(p[2]) = k}
Budget(k, rows) == Cardinality(PostedAs(k, rows))

Least(a, b) == IF a < b THEN a ELSE b

\* Wrong variant: a set of keys, so that one posted finding hides them all.
BudgetedSet(n, k, rows) == IF Budget(k, rows) > 0 THEN n ELSE 0

\* How many of n findings with a key are dropped.
Budgeted(n, k, rows) == Least(n, Budget(k, rows))

\* The sets dedup_against_posted may keep of F.  On the same head a finding
\* matches file, line and title; across heads file and title, as often as
\* the key was posted.  Which of several findings with one key are dropped
\* depends on the order they were recorded in.
dedup_against_posted(t, F, rows) ==
    LET same == SameHead(t, rows)
        wide == IF world.scope = "pr" THEN rows \ same ELSE {}
        rest == F \ UNION {run[r[2]].kept : r \in same}
        Of(k, S) == {f \in S : Key(f) = k}
    IN  {kept \in SUBSET rest : \A k \in {Key(f) : f \in rest} :
            Cardinality(Of(k, rest \ kept))
                = Budgeted(Cardinality(Of(k, rest)), k, wide)}

\* The review of some findings at head h.
Payload(kept, h) ==
    LET v == validate(kept, Diffs[world.platform][h]) IN
    [inline |-> v.inline, body |-> v.body, head |-> h]

\* Finalize: the findings of the run are deduplicated, the current diff of
\* the pull request is fetched, and the shaped review is queued.  A failed
\* lookup means no dedup.
finalize_review(t) ==
    /\ Reviewing /\ run[t].head # 0 /\ st[t] = "none"
    /\ \E F \in world.finds :
         \/ /\ UNCHANGED left
            /\ LET rows == posted_findings_for_target(t) IN
               \E kept \in dedup_against_posted(t, F, rows) :
                 /\ run' = [run EXCEPT
                        ![t].found = F, ![t].kept = kept,
                        ![t].prior = {r[2] : r \in rows},
                        ![t].twice = \E u \in Tasks :
                            {<<"reviews", u>>, <<"outbox", u>>} \subseteq rows]
                 /\ sent' = [sent EXCEPT ![t] = Payload(kept, head)]
         \/ /\ Fault
            /\ run' = [run EXCEPT ![t].found = F, ![t].kept = F]
            /\ sent' = [sent EXCEPT ![t] = Payload(F, head)]
    /\ st' = [st EXCEPT ![t] = "pending"]
    /\ UNCHANGED <<world, head, attempts, copies, recorded,
                   postVars, pageVars, memoryVars, fileVars>>

\* A task is created for the current head; the author pushes.
create_task(t) ==
    /\ Reviewing /\ run[t].head = 0
    /\ \A u \in 1 .. t - 1 : run[u].head # 0
    /\ Spend("tasks")
    /\ run' = [run EXCEPT ![t].head = head]
    /\ UNCHANGED <<world, head, st, sent, attempts, copies, recorded,
                   postVars, pageVars, memoryVars, fileVars>>

Push ==
    /\ Reviewing /\ head + 1 \in Heads /\ Spend("pushes")
    /\ head' = head + 1
    /\ UNCHANGED <<world, run, st, sent, attempts, copies, recorded,
                   postVars, pageVars, memoryVars, fileVars>>

-----------------------------------------------------------------------------
(* Delivering it (queue/reconciler.rs deliver_review, integrations/...).   *)

\* The platform's rule for the line of an inline comment (external): it knows
\* which lines of the new file its diff shows, by counting within the hunk.
\* Bitbucket takes any line.
LineNumber(patch, i) ==
    LET hunk == Max({j \in 1 .. i : patch[j][1] = "@@"})
    IN  patch[hunk][2] + Cardinality({j \in hunk + 1 .. i - 1 : patch[j][1] \in {"+", " "}})
LinesOfKind(patch, kinds) ==
    {LineNumber(patch, i) : i \in {j \in DOMAIN patch : patch[j][1] \in kinds}}
Takes(kinds) == [h \in Heads |-> [file_ \in DOMAIN Patches[h] |->
                    LinesOfKind(Patches[h][file_], kinds)]]
TakenLines == [github |-> Takes({"+", " "}), gitlab |-> Takes({"+"})]

Accepts(c) ==
    world.platform \in DOMAIN TakenLines =>
        LET lines == TakenLines[world.platform][head]
        IN  c.file \in DOMAIN lines /\ c.line \in lines[c.file]

claim_outbox(t) ==
    /\ rc = "idle" /\ st[t] = "pending"
    /\ rc' = "post" /\ at' = t /\ todo' = sent[t].inline
    /\ copies' = [copies EXCEPT ![t] = @ + 1]
    /\ UNCHANGED <<world, left, head, run, st, sent, attempts, recorded,
                   pageVars, memoryVars, fileVars>>

deliveryRest == <<world, head, run, sent, copies, memoryVars, fileVars, gone>>

\* mark_outbox_failed: back off, or give up at the limit.
mark_outbox_failed(t) ==
    /\ attempts' = [attempts EXCEPT ![t] = @ + 1]
    /\ st' = [st EXCEPT ![t] = IF attempts[t] + 1 >= MaxAttempts THEN "failed" ELSE "pending"]
    /\ rc' = "idle" /\ todo' = {}

\* The calls post_review may make next, each with the comments it puts on the
\* pull request and whether it is the last: GitHub takes a review whole, the
\* others comment after comment and then the body.
github_create_pr_review == {[comments |-> todo, last |-> TRUE]}
OneByOne ==
    IF todo = {} THEN {[comments |-> {}, last |-> TRUE]}
    ELSE {[comments |-> {c}, last |-> FALSE] : c \in todo}
gitlab_post_review == OneByOne
bitbucket_post_review == OneByOne

Calls == [github |-> github_create_pr_review, gitlab |-> gitlab_post_review,
          bitbucket |-> bitbucket_post_review][world.platform]

\* A call of post_review that the platform accepts; when its answer is lost
\* it counts as failed.
post_review(t) ==
    /\ rc = "post" /\ at = t
    /\ \E call \in Calls :
         /\ \A c \in call.comments : Accepts(c)
         /\ page' = page \cup {Comment(t, c) : c \in call.comments}
         /\ notes' = IF call.last THEN notes \cup {<<t, copies[t]>>} ELSE notes
         /\ \/ /\ todo' = todo \ call.comments
               /\ rc' = IF call.last THEN "upsert" ELSE "post"
               /\ UNCHANGED <<left, st, attempts>>
            \/ Fault /\ mark_outbox_failed(t)
    /\ UNCHANGED <<deliveryRest, at, labels, recorded>>

\* A call that the platform refuses, or that does not reach it.
post_review_fails(t) ==
    /\ rc = "post" /\ at = t
    /\ \/ Fault
       \/ /\ \E call \in Calls : \E c \in call.comments : ~Accepts(c)
          /\ UNCHANGED left
    /\ mark_outbox_failed(t)
    /\ UNCHANGED <<deliveryRest, at, page, notes, labels, recorded>>

\* The copy of the review in the reviews table; an error is only logged.
upsert_review(t) ==
    /\ rc = "upsert" /\ at = t
    /\ rc' = "list"
    /\ \/ recorded' = recorded \cup {t} /\ UNCHANGED left
       \/ Fault /\ UNCHANGED recorded
    /\ UNCHANGED <<deliveryRest, at, todo, st, attempts, page, notes, labels>>

\* Wrong variant: GitHub too lists every inline comment of the pull request.
github_lists_all(t) == page

\* The comments of the review just posted; of the whole pull request, those
\* written by others included.
github_list_review_comments(t) == {c \in page : c.by = t /\ c.copy = copies[t]}
gitlab_list_review_comments(t) == page
bitbucket_list_review_comments(t) == page

list_review_comments(t) ==
    [github |-> github_list_review_comments(t), gitlab |-> gitlab_list_review_comments(t),
     bitbucket |-> bitbucket_list_review_comments(t)][world.platform]

\* The ids are stored for the task, unless some task has them already.
store_review_comments(t) ==
    /\ rc = "list" /\ at = t
    /\ rc' = "label"
    /\ \/ /\ refs' = refs \cup {<<c, t>> : c \in
                {d \in list_review_comments(t) : \A u \in Tasks : <<d, u>> \notin refs}}
          /\ UNCHANGED left
       \/ Fault /\ UNCHANGED refs
    /\ UNCHANGED <<world, prVars, at, todo, pageVars, thumbs, downed, fed, fileVars>>

\* GitLab's parameter sets the labels instead of adding some; Bitbucket has
\* no labels.
github_add_labels == labels \cup {"reviewed"}
gitlab_add_labels == {"reviewed"}
bitbucket_add_labels == labels

\* Best effort.
add_labels(t) ==
    /\ rc = "label" /\ at = t
    /\ rc' = "mark"
    /\ \/ /\ labels' = [github |-> github_add_labels, gitlab |-> gitlab_add_labels,
                        bitbucket |-> bitbucket_add_labels][world.platform]
          /\ UNCHANGED left
       \/ Fault /\ UNCHANGED labels
    /\ UNCHANGED <<deliveryRest, at, todo, st, attempts, page, notes, recorded>>

mark_outbox_posted(t) ==
    /\ rc = "mark" /\ at = t
    /\ rc' = "idle"
    /\ st' = [st EXCEPT ![t] = "posted"]
    /\ UNCHANGED <<left, deliveryRest, at, todo, attempts, page, notes, labels, recorded>>

\* The process dies, or the last statement fails: the row stays pending.
Crash ==
    /\ rc # "idle" /\ Fault
    /\ rc' = "idle" /\ todo' = {}
    /\ UNCHANGED <<deliveryRest, at, st, attempts, page, notes, labels, recorded>>

-----------------------------------------------------------------------------
(* Reactions (reconciler.rs poll_once, db/feedback.rs).                    *)

humanRest == <<world, prVars, postVars, notes, refs, fed, fileVars>>

\* A thumbs-down appears on a comment, or is taken back.
React(c) ==
    /\ world.platform # "bitbucket" /\ Spend("reactions")
    /\ thumbs' = (thumbs \cup {c}) \ (thumbs \cap {c})
    /\ downed' = downed \cup {c}
    /\ UNCHANGED <<humanRest, page, gone, labels>>

Delete(c) ==
    /\ Spend("deletes")
    /\ page' = page \ {c} /\ gone' = gone \cup {c} /\ thumbs' = thumbs \ {c}
    /\ UNCHANGED <<humanRest, labels, downed>>

\* A human writes an inline comment, or adds a label.
Remark(f, l) ==
    /\ Spend("remarks")
    /\ page' = page \cup {HumanComment(f, l)}
    /\ UNCHANGED <<humanRest, gone, labels, thumbs, downed>>

Label ==
    /\ Spend("remarks")
    /\ labels' = labels \cup {"theirs"}
    /\ UNCHANGED <<humanRest, page, gone, thumbs, downed>>

\* Wrong variant: the reaction that has disappeared is not deleted.
reconcile_adds_only(c, t) == fed \cup {<<c, t>> : d \in thumbs \cap {c}}

\* reconcile_comment_feedback: insert what is there, delete what is not.
reconcile_comment_feedback(c, t) ==
    IF c \in thumbs THEN fed \cup {<<c, t>>} ELSE fed \ {<<c, t>>}

\* Whether the reactions of a comment can be listed: of a deleted one GitLab
\* reads the 404 as no reaction, while GitHub's is an error and the comment is
\* skipped.  Bitbucket has no reactions, and always answers so.
github_list_comment_reactions(c) == c \in page
gitlab_list_comment_reactions(c) == TRUE
bitbucket_list_comment_reactions(c) == TRUE

Answers(c) ==
    [github |-> github_list_comment_reactions(c), gitlab |-> gitlab_list_comment_reactions(c),
     bitbucket |-> bitbucket_list_comment_reactions(c)][world.platform]

poll_comment(c, t) ==
    /\ <<c, t>> \in refs /\ Answers(c)
    /\ fed' = reconcile_comment_feedback(c, t)
    /\ fed' # fed
    /\ UNCHANGED <<world, left, prVars, postVars, pageVars, refs, thumbs, downed, fileVars>>

\* The titles given to later reviews as rejected: the reaction is joined with
\* the finding of that task's review on the comment's file and line.
rejected_findings_for_repo ==
    UNION {{[file |-> f.file, line |-> f.line, title |-> f.title] : f \in
                {g \in run[r[2]].kept : g.file = r[1].file /\ g.line = r[1].line}} :
           r \in {s \in fed : s[2] \in recorded}}

-----------------------------------------------------------------------------
(* The review configuration (http/admin.rs set_preset).                    *)

\* merge_preset_fields: every other key is kept; a malformed or missing file
\* counts as empty.
merge_preset_fields(f, a) == (IF f.good THEN f.keys ELSE {}) \cup {<<"admin", a>>}

set_preset_read(a) ==
    /\ world.kind = "config" /\ editor[a].pc = "idle"
    /\ editor' = [editor EXCEPT ![a] = [pc |-> "put", snap |-> file]]
    /\ UNCHANGED <<world, left, prVars, postVars, pageVars, memoryVars, file>>

\* Wrong variant: the token of the file as it is now, not as it was read.
github_writes_late(snap) == TRUE

\* Whether the platform takes the write, given what was read: the sha must be
\* the file's; so must last_commit_id, if there was a file; no token at all.
github_update_repo_file(snap) == file.rev = snap.rev
gitlab_update_repo_file(snap) == snap.rev \in {0, file.rev}
bitbucket_update_repo_file(snap) == TRUE

Guarded(snap) ==
    [github |-> github_update_repo_file(snap), gitlab |-> gitlab_update_repo_file(snap),
     bitbucket |-> bitbucket_update_repo_file(snap)][world.platform]

\* update_repo_file writes what it made of the content it read.  On GitLab a
\* file that was absent is first put without a token, then created.
update_repo_file(a) ==
    /\ editor[a].pc = "put" /\ Guarded(editor[a].snap)
    /\ IF world.platform = "gitlab" /\ file.rev = 0
       THEN editor' = [editor EXCEPT ![a].pc = "post"] /\ UNCHANGED file
       ELSE /\ file' = [rev |-> file.rev + 1, good |-> TRUE,
                        keys |-> merge_preset_fields(editor[a].snap, a)]
            /\ editor' = [editor EXCEPT ![a].pc = "done"]
    /\ UNCHANGED <<world, left, prVars, postVars, pageVars, memoryVars>>

update_repo_file_creates(a) ==
    /\ editor[a].pc = "post" /\ file.rev = 0
    /\ file' = [rev |-> 1, good |-> TRUE, keys |-> merge_preset_fields(editor[a].snap, a)]
    /\ editor' = [editor EXCEPT ![a].pc = "done"]
    /\ UNCHANGED <<world, left, prVars, postVars, pageVars, memoryVars>>

\* A conflict, or a file that appeared before the POST: the administrator
\* gets an error.
update_repo_file_refused(a) ==
    /\ \/ editor[a].pc = "put" /\ ~Guarded(editor[a].snap)
       \/ editor[a].pc = "post" /\ file.rev # 0
    /\ editor' = [editor EXCEPT ![a].pc = "refused"]
    /\ UNCHANGED <<world, left, prVars, postVars, pageVars, memoryVars, file>>

\* The author commits: a new key, possibly leaving the file malformed.
AuthorEdit(good) ==
    /\ world.kind = "config" /\ Spend("edits")
    /\ file' = [rev |-> file.rev + 1, good |-> good,
                keys |-> file.keys \cup {<<"author", file.rev + 1>>}]
    /\ UNCHANGED <<world, prVars, postVars, pageVars, memoryVars, editor>>

-----------------------------------------------------------------------------

Deliver(t) ==
    \/ claim_outbox(t) \/ post_review(t) \/ post_review_fails(t)
    \/ upsert_review(t) \/ store_review_comments(t) \/ add_labels(t)
    \/ mark_outbox_posted(t)

Poll == \E r \in refs : poll_comment(r[1], r[2])

Human ==
    \/ Push \/ Label
    \/ \E c \in page : React(c) \/ Delete(c)
    \/ \E f \in DOMAIN Patches[head] : \E l \in TakenLines.gitlab[head][f] : Remark(f, l)

Configure ==
    \/ \E good \in BOOLEAN : AuthorEdit(good)
    \/ \E a \in Admins : \/ set_preset_read(a) \/ update_repo_file(a)
                         \/ update_repo_file_creates(a) \/ update_repo_file_refused(a)

Next ==
    \/ \E t \in Tasks : create_task(t) \/ finalize_review(t) \/ Deliver(t)
    \/ Poll \/ Human \/ Crash \/ Configure

Spec == Init /\ [][Next]_vars

\* The reconciler's loop polls again and again; nothing is assumed of the
\* platform, of the deliveries or of the people.
FairSpec == Spec /\ WF_vars(Poll)

-----------------------------------------------------------------------------
(* Properties.                                                             *)

\* A delivery of u's review that reached its end shows a finding with key k.
Shown(u, k) ==
    /\ \E n \in notes : n[1] = u
    /\ \/ \E f \in sent[u].body : Key(f) = k
       \/ \E c \in Ever : c.by = u /\ Key(c) = k

\* Once every queued review is delivered, each finding a run made is on the
\* pull request: inline, in a body, or in the review it was a duplicate of
\* (no silent drops: review.rs validate and dedup_against_posted).
NothingLost ==
    (\A u \in Tasks : st[u] \in {"none", "posted"})
        => \A t \in Tasks : \A f \in run[t].found : \E u \in Tasks : Shown(u, Key(f))

\* The same when a review was given up after its attempts.
NeverLost ==
    (\A u \in Tasks : st[u] # "pending")
        => \A t \in Tasks : st[t] = "posted" =>
            \A f \in run[t].found : \E u \in Tasks : Shown(u, Key(f))

\* What u's review shows of a key, and whether it shows every finding.
Items(u, k) ==
    {<<u, "inline", c>> : c \in {x \in sent[u].inline : Key(x) = k}}
        \cup {<<u, "body", f>> : f \in {x \in sent[u].body : Key(x) = k}}
Uncollapsed(u) ==
    Cardinality(sent[u].inline) + Cardinality(sent[u].body) = Cardinality(run[u].kept)

Suppressed(t, k) == Cardinality({f \in run[t].found \ run[t].kept : Key(f) = k})

\* A run hides at most as many findings of a key as the reviews it was
\* compared with show (review.rs, PostedFindings: "at most as many are
\* suppressed as were previously posted").
AtMostShown(t) ==
    \A k \in {Key(f) : f \in run[t].found} :
        Suppressed(t, k) <= Cardinality(UNION {Items(u, k) : u \in run[t].prior})

\* It holds when those reviews show each of their findings apart, and none
\* is counted twice, as stored copy and as pending intent.
SuppressedWasPosted ==
    \A t \in Tasks :
        ~run[t].twice /\ (\A u \in run[t].prior : Uncollapsed(u)) => AtMostShown(t)

\* Without the first condition, and without the second.
SuppressedDespiteCollapse == \A t \in Tasks : ~run[t].twice => AtMostShown(t)
SuppressedDespiteTwice ==
    \A t \in Tasks : (\A u \in run[t].prior : Uncollapsed(u)) => AtMostShown(t)

\* While the head has not moved, the platform accepts every inline comment of
\* a queued review: GitHub refuses the whole review over one bad line, GitLab
\* refuses context lines (review.rs validate).
AnchorsAccepted ==
    \A t \in Tasks : st[t] = "pending" /\ sent[t].head = head =>
        \A c \in sent[t].inline : Accepts(c)

\* A finding on a line the diff shows, with an added line in the window, has
\* an inline comment (review.rs validate: "the anchor is clamped to the
\* nearest added line within [CLAMP_MAX_DELTA] lines; if none is close enough,
\* deferred").
NearIsInline ==
    \A t \in {u \in Tasks : sent[u].head # 0} : \A f \in run[t].kept :
        LET added == TakenLines.gitlab[sent[t].head]
            all   == TakenLines.github[sent[t].head]
        IN  /\ f.file \in DOMAIN all /\ f.line \in all[f.file]
            /\ \E l \in added[f.file] : Dist(l, f.line) <= ClampMaxDelta
            => \E c \in sent[t].inline : Key(c) = Key(f)

\* What later reviews are told was rejected was rejected: someone gave a
\* thumbs-down to a comment of ours about it (db/feedback.rs).
WasRejected(f) == \E c \in downed : c.by # 0 /\ Key(c) = Key(f)
Clamped(u) == ~(sent[u].inline \subseteq run[u].kept)

RejectedWasRejected ==
    world.platform = "github" /\ (\A u \in recorded : ~Clamped(u))
        => \A f \in rejected_findings_for_repo : WasRejected(f)

\* With comments moved to an added line; on the other platforms.
RejectedDespiteClamp ==
    world.platform = "github" => \A f \in rejected_findings_for_repo : WasRejected(f)
RejectedAnywhere ==
    (\A u \in recorded : ~Clamped(u))
        => \A f \in rejected_findings_for_repo : WasRejected(f)

\* The stored feedback comes to agree with the reactions on the comments,
\* those taken back and those of deleted notes included, wherever the
\* platform answers (reconciler.rs poll_once).
FeedbackFollows ==
    <>[](\A r \in refs : Answers(r[1]) => (r \in fed <=> r[1] \in thumbs))

\* And for deleted comments on GitHub.
FeedbackForgets == <>[](\A r \in refs : r[1] \in gone => r \notin fed)

\* Setting the preset never drops what an author or another administrator
\* committed after the file was read: it conflicts instead (platform.rs
\* update_repo_file).  GitLab's first write of an absent file has no token,
\* Bitbucket has none at all.
Writes(a) == editor[a].pc # "done" /\ editor'[a].pc = "done"
Unguarded(a) ==
    \/ world.platform = "bitbucket"
    \/ world.platform = "gitlab" /\ editor[a].pc = "put" /\ editor[a].snap.rev = 0
Keeps(a) == file.keys \ editor[a].snap.keys \subseteq file'.keys

EditsSurvive == [][\A a \in Admins : Writes(a) /\ ~Unguarded(a) => Keeps(a)]_vars

\* On GitLab as well, absent file or not.
GitlabEditsSurvive ==
    [][\A a \in Admins : Writes(a) /\ world.platform = "gitlab" => Keeps(a)]_vars

\* Adding the outcome labels leaves the others.
LabelsSurvive == [][labels \subseteq labels']_vars

-----------------------------------------------------------------------------
(* The inductive invariant behind them.                                    *)

\* Before finalize a task has nothing; after it, its payload is the shape of
\* what was kept, and every finding is kept by a review that was queued.
ShapeOK(t) ==
    IF st[t] = "none" THEN run[t].found = {} /\ run[t].kept = {} /\ run[t].prior = {}
    ELSE /\ run[t].found \in world.finds /\ run[t].kept \subseteq run[t].found
         /\ sent[t] = Payload(run[t].kept, sent[t].head)
         /\ \A u \in run[t].prior : st[u] # "none"

KeptSomewhere(k) ==
    \E u \in Tasks : st[u] # "none" /\ \E g \in run[u].kept : Key(g) = k

FoundIsKept == \A t \in Tasks : \A f \in run[t].found : KeptSomewhere(Key(f))

\* Comment c of t's review reached the pull request; all of them, and the body.
OnPage(t, c) == \E x \in Ever : x.by = t /\ Key(x) = Key(c)
InFull(t) == (\E n \in notes : n[1] = t) /\ \A c \in sent[t].inline : OnPage(t, c)

\* A delivery is of a pending review; what it has left is what it has not
\* posted; past the post everything is on the pull request.
DeliveryOK ==
    /\ rc # "idle" => st[at] = "pending"
    /\ rc = "post" => todo \subseteq sent[at].inline
                      /\ \A c \in sent[at].inline \ todo : OnPage(at, c)
    /\ rc \in {"upsert", "list", "label", "mark"} => InFull(at)
    /\ \A t \in Tasks : st[t] = "posted" => InFull(t)
    /\ \A t \in recorded : st[t] # "none"

\* Comments are human or show an inline comment of the review they belong to.
CommentsOK ==
    \A x \in Ever : x.by # 0 =>
        /\ x.by \in Tasks /\ st[x.by] # "none"
        /\ \E c \in sent[x.by].inline : c.file = x.file /\ c.line = x.line /\ c.title = x.title

\* A stored reaction was seen on a stored comment; GitHub's comments are stored
\* for the review that made them.
FeedbackOK ==
    /\ thumbs \subseteq downed
    /\ fed \subseteq refs /\ \A r \in fed : r[1] \in downed
    /\ world.platform = "github" => \A r \in refs : r[1].by = r[2]

\* What an administrator read is the file as long as the revision is the same.
EditorOK(a) ==
    LET snap == editor[a].snap IN
    editor[a].pc \in {"put", "post"} =>
        /\ snap.rev <= file.rev /\ (snap.rev = file.rev => snap = file)
        /\ editor[a].pc = "post" => snap.rev = 0

PlatformInv ==
    /\ TypeOK
    /\ \A t \in Tasks : ShapeOK(t)
    /\ FoundIsKept
    /\ SuppressedWasPosted
    /\ DeliveryOK
    /\ CommentsOK
    /\ FeedbackOK
    /\ \A a \in Admins : EditorOK(a)
=============================================================================
