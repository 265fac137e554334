------------------------ MODULE PlatformCallsProofs ------------------------
(***************************************************************************)
(* The safety properties of PlatformCalls, for every set of worlds, any    *)
(* number of reviews, any diffs and any administrators.                    *)
(*                                                                         *)
(* What is known of findings and payloads (Reviews), of the delivery, of   *)
(* the comments, of the stored reactions and of the configuration is kept  *)
(* apart: most steps touch one of them.  Finalize is the exception, and    *)
(* rests on a count: what the dedup drops was held by the rows it looked   *)
(* at, and a review that shows as many items as it kept findings shows     *)
(* each of them apart.                                                     *)
(*                                                                         *)
(* That every comment is taken by the platform is a fact about reading a   *)
(* patch, by induction on how far one has read: a counterexample would     *)
(* have a first line where the count of diff_lines and the platform's own  *)
(* count part (LeastNatural).  Those lemmas speak of a function on 1 .. N  *)
(* and not of a sequence, and diff_lines is unfolded by Zenon alone.       *)
(***************************************************************************)
EXTENDS PlatformCalls, FiniteSetTheorems, NaturalsInduction, WellFoundedInduction, TLAPS

\* Spending keeps the bounds typed.
LEMMA SpendTypes ==
    ASSUME left \in Left, NEW b, Spend(b)
    PROVE  left' \in Left
<1>1. CASE b \in {"tasks", "faults", "pushes", "reactions", "deletes", "remarks", "edits"}
  BY <1>1 DEF Spend, Left
<1>2. CASE b \notin {"tasks", "faults", "pushes", "reactions", "deletes", "remarks", "edits"}
  BY <1>2 DEF Spend, Left
<1>. QED
  BY <1>1, <1>2

\* What the constants' shape says of the world.
LEMMA WorldShape ==
    ASSUME world \in Worlds
    PROVE  /\ world.platform \in Platforms /\ world.budget \in Left /\ world.file \in FileState
           /\ \A F \in world.finds :
                /\ IsFiniteSet(F) /\ F \subseteq Finding /\ F \subseteq Found
                /\ \A f, g \in F : f.file = g.file /\ f.line = g.line => f = g
  BY WorldSet DEF Found

-----------------------------------------------------------------------------
(* The shape of a review.                                                  *)

\* Resolving moves a finding to another line.
LEMMA ResolvedKey ==
    ASSUME NEW f, NEW diff
    PROVE  /\ Key(Resolved(f, diff)) = Key(f)
           /\ Resolved(f, diff).file = f.file /\ Resolved(f, diff).title = f.title
  BY DEF Resolved, Key

\* The finding that stands for a deferred one.
Stands(f, F, diff) ==
    CHOOSE g \in InScope(F, diff) \ Inline(F, diff) : Resolved(g, diff) = Resolved(f, diff)

\* It is in the body, is a finding of the run and has the same key.
LEMMA StandsFor ==
    ASSUME NEW F, NEW diff, NEW f \in InScope(F, diff) \ Inline(F, diff)
    PROVE  /\ Stands(f, F, diff) \in Deferred(F, diff)
           /\ Stands(f, F, diff) \in F
           /\ Key(Stands(f, F, diff)) = Key(f)
<1>. DEFINE rest == InScope(F, diff) \ Inline(F, diff)
            g == Stands(f, F, diff)
<1>1. g \in rest /\ Resolved(g, diff) = Resolved(f, diff)
  BY DEF Stands
<1>2. Key(g) = Key(f)
  BY <1>1, ResolvedKey
<1>3. g \in Deferred(F, diff)
  BY DEF Deferred, Stands
<1>4. rest \subseteq F
  BY DEF InScope
<1>. QED
  BY <1>1, <1>2, <1>3, <1>4

\* Every finding is shown: inline, deferred to the body, or out of scope there.
LEMMA EveryFindingShown ==
    ASSUME NEW F, NEW diff, NEW f \in F
    PROVE  \/ \E c \in validate(F, diff).inline : Key(c) = Key(f)
           \/ \E g \in validate(F, diff).body : Key(g) = Key(f)
<1>0. /\ validate(F, diff).inline = {Resolved(x, diff) : x \in Inline(F, diff)}
      /\ validate(F, diff).body = Deferred(F, diff) \cup (F \ InScope(F, diff))
  BY DEF validate
<1>1. CASE f \in Inline(F, diff)
  BY <1>0, <1>1, ResolvedKey
<1>2. CASE f \notin InScope(F, diff)
  BY <1>0, <1>2
<1>3. CASE f \in InScope(F, diff) \ Inline(F, diff)
  BY <1>0, <1>3, StandsFor
<1>. QED
  BY <1>1, <1>2, <1>3

\* The payload shows the key of every finding that was kept.
LEMMA PayloadKeys ==
    ASSUME NEW F, NEW h, NEW f \in F
    PROVE  \/ \E c \in Payload(F, h).inline : Key(c) = Key(f)
           \/ \E g \in Payload(F, h).body : Key(g) = Key(f)
  BY EveryFindingShown DEF Payload

-----------------------------------------------------------------------------
(* What a step may leave alone.                                            *)

SameFindings ==
    /\ UNCHANGED <<world, sent>>
    /\ \A u \in Tasks : /\ run'[u].found = run[u].found /\ run'[u].kept = run[u].kept
                        /\ run'[u].prior = run[u].prior /\ run'[u].twice = run[u].twice
                        /\ st'[u] = "none" <=> st[u] = "none"

SameDelivery ==
    /\ UNCHANGED <<rc, at, todo, st, sent, recorded>>
    /\ notes \subseteq notes' /\ Ever \subseteq Ever'

SameComments ==
    /\ UNCHANGED sent /\ \A u \in Tasks : st'[u] = "none" <=> st[u] = "none"
    /\ \A x \in Ever' : x \in Ever \/ x.by = 0

SameFeedback ==
    /\ UNCHANGED <<world, fed, refs>>
    /\ downed \subseteq downed' /\ thumbs' \subseteq thumbs \cup downed'

SameFile == UNCHANGED <<file, editor>>

\* The findings of the runs and their reviews.
Reviews == (\A t \in Tasks : ShapeOK(t)) /\ FoundIsKept /\ SuppressedWasPosted

\* The shape of a review depends on the platform only.
LEMMA PayloadSame ==
    ASSUME UNCHANGED world, NEW F, NEW h
    PROVE  Payload(F, h)' = Payload(F, h)
  BY DEF Payload

\* A step that leaves findings and payloads keeps what is known of them.
LEMMA ReviewsKept ==
    ASSUME TypeOK, Reviews, SameFindings
    PROVE  Reviews'
<1>1. ASSUME NEW t \in Tasks PROVE ShapeOK(t)'
  <2>1. ShapeOK(t)
    BY DEF Reviews
  <2>2. /\ run'[t].found = run[t].found /\ run'[t].kept = run[t].kept
        /\ run'[t].prior = run[t].prior
        /\ st'[t] = "none" <=> st[t] = "none"
        /\ world' = world /\ sent' = sent
    BY DEF SameFindings
  <2>3. CASE st[t] = "none"
    BY <2>1, <2>2, <2>3 DEF ShapeOK
  <2>4. CASE st[t] # "none"
    <3>1. /\ run[t].found \in world.finds /\ run[t].kept \subseteq run[t].found
          /\ sent[t] = Payload(run[t].kept, sent[t].head)
          /\ \A u \in run[t].prior : st[u] # "none"
      BY <2>1, <2>4 DEF ShapeOK
    <3>2. PICK F, h : F = run[t].kept /\ h = sent[t].head
      OBVIOUS
    <3>3. Payload(F, h)' = Payload(F, h)
      BY <2>2, PayloadSame
    <3>4. run[t].prior \subseteq Tasks
      BY DEF TypeOK, Run
    <3>5. \A u \in run'[t].prior : st'[u] # "none"
      BY <2>2, <3>1, <3>4 DEF SameFindings
    <3>. QED
      BY <2>2, <2>4, <3>1, <3>2, <3>3, <3>5 DEF ShapeOK
  <2>. QED
    BY <2>3, <2>4
<1>2. FoundIsKept'
  <2>1. ASSUME NEW t \in Tasks, NEW f \in run'[t].found PROVE KeptSomewhere(Key(f))'
    <3>1. PICK u \in Tasks : st[u] # "none" /\ \E g \in run[u].kept : Key(g) = Key(f)
      BY <2>1 DEF Reviews, FoundIsKept, KeptSomewhere, SameFindings
    <3>2. st'[u] # "none" /\ \E g \in run'[u].kept : Key(g) = Key(f)
      BY <3>1 DEF SameFindings
    <3>. QED
      BY <3>2 DEF KeptSomewhere
  <2>. QED
    BY <2>1 DEF FoundIsKept
<1>3. SuppressedWasPosted'
  <2>1. ASSUME NEW t \in Tasks, ~run'[t].twice, \A u \in run'[t].prior : Uncollapsed(u)'
        PROVE  AtMostShown(t)'
    <3>0. run[t].prior \subseteq Tasks
      BY DEF TypeOK, Run
    <3>1. \A u \in run[t].prior : Uncollapsed(u)
      BY <2>1, <3>0 DEF SameFindings, Uncollapsed
    <3>2. AtMostShown(t)
      BY <2>1, <3>1 DEF Reviews, SuppressedWasPosted, SameFindings
    <3>3. run'[t].found = run[t].found /\ run'[t].kept = run[t].kept
          /\ run'[t].prior = run[t].prior /\ sent' = sent
      BY DEF SameFindings
    <3>4. ASSUME NEW k PROVE Suppressed(t, k)' = Suppressed(t, k)
      BY <3>3 DEF Suppressed
    <3>5. ASSUME NEW u, NEW k PROVE Items(u, k)' = Items(u, k)
      BY <3>3 DEF Items
    <3>6. ASSUME NEW k \in {Key(f) : f \in run'[t].found}
          PROVE  Suppressed(t, k)' <= Cardinality(UNION {Items(u, k) : u \in run[t].prior}')
      BY <3>2, <3>3, <3>4, <3>5 DEF AtMostShown
    <3>. QED
      BY <3>3, <3>6 DEF AtMostShown
  <2>. QED
    BY <2>1 DEF SuppressedWasPosted
<1>. QED
  BY <1>1, <1>2, <1>3 DEF Reviews

\* A step outside the delivery keeps what is known of it.
LEMMA DeliveryKept ==
    ASSUME TypeOK, DeliveryOK, SameDelivery
    PROVE  DeliveryOK'
<1>1. \A t, c : OnPage(t, c) => OnPage(t, c)'
  BY DEF OnPage, SameDelivery
<1>2. \A t : InFull(t) => InFull(t)'
  BY <1>1 DEF InFull, SameDelivery
<1>. QED
  BY <1>1, <1>2 DEF DeliveryOK, SameDelivery

\* Only human comments appear outside a delivery.
LEMMA CommentsKept ==
    ASSUME CommentsOK, SameComments
    PROVE  CommentsOK'
  BY DEF CommentsOK, SameComments

\* A step that stores nothing keeps what is known of what is stored.
LEMMA FeedbackKept ==
    ASSUME FeedbackOK, SameFeedback
    PROVE  FeedbackOK'
  BY DEF FeedbackOK, SameFeedback

\* A step outside the configuration keeps what was read of it.
LEMMA EditorsKept ==
    ASSUME \A a \in Admins : EditorOK(a), SameFile
    PROVE  \A a \in Admins : EditorOK(a)'
  BY DEF EditorOK, SameFile

-----------------------------------------------------------------------------
(* The steps that only use a delivered review: people, reactions, pushes.  *)

\* A new task has a head and no finding yet (create_task).
LEMMA CreateKeeps ==
    ASSUME PlatformInv, NEW t \in Tasks, create_task(t)
    PROVE  PlatformInv'
<1>0. TypeOK /\ Reviews /\ DeliveryOK /\ CommentsOK /\ FeedbackOK
      /\ \A a \in Admins : EditorOK(a)
  BY DEF PlatformInv, Reviews
<1>1. /\ run \in [Tasks -> Run] /\ head \in Heads
      /\ run' = [run EXCEPT ![t].head = head]
      /\ left \in Left /\ Spend("tasks")
  BY <1>0 DEF create_task, TypeOK
<1>2. run' \in [Tasks -> Run]
  <2>1. [run[t] EXCEPT !.head = head] \in Run
    BY <1>1 DEF Run
  <2>. QED
    BY <1>1, <2>1
<1>3. \A u \in Tasks : /\ run'[u].found = run[u].found /\ run'[u].kept = run[u].kept
                       /\ run'[u].prior = run[u].prior /\ run'[u].twice = run[u].twice
  BY <1>1 DEF Run
<1>4. /\ UNCHANGED <<world, head, st, sent, attempts, copies, recorded, rc, at, todo, page,
                     gone, notes, labels, refs, thumbs, downed, fed, file, editor>>
  BY DEF create_task, postVars, pageVars, memoryVars, fileVars
<1>5. TypeOK'
  BY <1>0, <1>1, <1>2, <1>4, SpendTypes DEF TypeOK, Ever
<1>6. SameFindings /\ SameDelivery /\ SameComments /\ SameFeedback /\ SameFile
  BY <1>3, <1>4 DEF SameFindings, SameDelivery, SameComments, SameFeedback, SameFile, Ever
<1>. QED
  BY <1>0, <1>5, <1>6, ReviewsKept, DeliveryKept, CommentsKept, FeedbackKept, EditorsKept
  DEF PlatformInv, Reviews

\* People push, react, delete, remark and label.
LEMMA HumanKeeps ==
    ASSUME PlatformInv, Human
    PROVE  PlatformInv'
<1>0. TypeOK /\ Reviews /\ DeliveryOK /\ CommentsOK /\ FeedbackOK
      /\ \A a \in Admins : EditorOK(a)
  BY DEF PlatformInv, Reviews
<1>. DEFINE Rest == UNCHANGED <<world, run, st, sent, attempts, copies, recorded, rc, at, todo,
                                notes, refs, fed, file, editor>>
            Moved == head' \in Heads /\ left' \in Left /\ downed \subseteq downed'
                     /\ thumbs' \subseteq thumbs \cup downed' /\ Ever \subseteq Ever'
                     /\ \A x \in Ever' : x \in Ever \/ x.by = 0
<1>1. left \in Left /\ head \in Heads
  BY <1>0 DEF TypeOK
<1>2. ASSUME Push PROVE Rest /\ Moved
  <2>1. Spend("pushes") /\ head' \in Heads /\ Rest /\ UNCHANGED <<page, gone, downed, thumbs>>
    BY <1>2 DEF Push, postVars, pageVars, memoryVars, fileVars
  <2>. QED
    BY <1>1, <2>1, SpendTypes DEF Ever
<1>3. ASSUME Label PROVE Rest /\ Moved
  <2>1. Spend("remarks") /\ Rest /\ UNCHANGED <<head, page, gone, downed, thumbs>>
    BY <1>3 DEF Label, humanRest, prVars, postVars, fileVars
  <2>. QED
    BY <1>1, <2>1, SpendTypes DEF Ever
<1>4. ASSUME NEW c \in page, React(c) PROVE Rest /\ Moved
  <2>1. Spend("reactions") /\ Rest /\ UNCHANGED <<head, page, gone>>
        /\ downed \subseteq downed' /\ thumbs' \subseteq thumbs \cup downed'
    BY <1>4 DEF React, humanRest, prVars, postVars, fileVars
  <2>. QED
    BY <1>1, <2>1, SpendTypes DEF Ever
<1>5. ASSUME NEW c \in page, Delete(c) PROVE Rest /\ Moved
  <2>1. Spend("deletes") /\ Rest /\ UNCHANGED <<head, downed>> /\ thumbs' \subseteq thumbs
        /\ page' = page \ {c} /\ gone' = gone \cup {c}
    BY <1>5 DEF Delete, humanRest, prVars, postVars, fileVars
  <2>. QED
    BY <1>1, <2>1, SpendTypes DEF Ever
<1>6. ASSUME NEW f, NEW l, Remark(f, l) PROVE Rest /\ Moved
  <2>1. Spend("remarks") /\ Rest /\ UNCHANGED <<head, gone, downed, thumbs>>
        /\ page' = page \cup {HumanComment(f, l)}
    BY <1>6 DEF Remark, humanRest, prVars, postVars, fileVars
  <2>2. HumanComment(f, l).by = 0
    BY DEF HumanComment
  <2>. QED
    BY <1>1, <2>1, <2>2, SpendTypes DEF Ever
<1>7. Rest /\ Moved
  BY <1>2, <1>3, <1>4, <1>5, <1>6 DEF Human
<1>8. TypeOK'
  BY <1>0, <1>7 DEF TypeOK
<1>9. SameFindings /\ SameDelivery /\ SameComments /\ SameFeedback /\ SameFile
  BY <1>7 DEF SameFindings, SameDelivery, SameComments, SameFeedback, SameFile
<1>. QED
  BY <1>0, <1>8, <1>9, ReviewsKept, DeliveryKept, CommentsKept, FeedbackKept, EditorsKept
  DEF PlatformInv, Reviews

\* A poll stores the reactions it finds on stored comments.
LEMMA PollKeeps ==
    ASSUME PlatformInv, NEW r \in refs, poll_comment(r[1], r[2])
    PROVE  PlatformInv'
<1>0. TypeOK /\ Reviews /\ DeliveryOK /\ CommentsOK /\ FeedbackOK
      /\ \A a \in Admins : EditorOK(a)
  BY DEF PlatformInv, Reviews
<1>1. /\ <<r[1], r[2]>> \in refs
      /\ \A s \in fed' : s \in fed \/ (s = <<r[1], r[2]>> /\ r[1] \in thumbs)
  BY DEF poll_comment, reconcile_comment_feedback
<1>2. UNCHANGED <<world, left, head, run, st, sent, attempts, copies, recorded, rc, at, todo,
                  page, gone, notes, labels, refs, thumbs, downed, file, editor>>
  BY DEF poll_comment, prVars, postVars, pageVars, memoryVars, fileVars
<1>3. fed' \subseteq refs
  BY <1>0, <1>1 DEF FeedbackOK
<1>4. TypeOK'
  BY <1>0, <1>2, <1>3 DEF TypeOK, Ever
<1>5. FeedbackOK'
  BY <1>0, <1>1, <1>2, <1>3 DEF FeedbackOK
<1>6. SameFindings /\ SameDelivery /\ SameComments /\ SameFile
  BY <1>2 DEF SameFindings, SameDelivery, SameComments, SameFile, Ever
<1>. QED
  BY <1>0, <1>4, <1>5, <1>6, ReviewsKept, DeliveryKept, CommentsKept, EditorsKept
  DEF PlatformInv, Reviews

-----------------------------------------------------------------------------
(* The delivery of a review.                                               *)

\* The calls of post_review: what they put on the pull request is what is left.
LEMMA CallsPostTodo ==
    ASSUME world.platform \in Platforms, NEW call \in Calls
    PROVE  call.comments \subseteq todo /\ (call.last => call.comments = todo)
           /\ call.last \in BOOLEAN
<1>1. CASE world.platform = "github"
  <2>1. call = [comments |-> todo, last |-> TRUE]
    BY <1>1 DEF Calls, github_create_pr_review
  <2>2. call.comments = todo /\ call.last = TRUE
    BY <2>1
  <2>. QED
    BY <2>2
<1>2. CASE world.platform \in {"gitlab", "bitbucket"}
  <2>1. call \in OneByOne
    BY <1>2 DEF Calls, gitlab_post_review, bitbucket_post_review
  <2>2. CASE todo = {}
    <3>1. call = [comments |-> {}, last |-> TRUE]
      BY <2>1, <2>2 DEF OneByOne
    <3>2. call.comments = todo /\ call.last = TRUE
      BY <2>2, <3>1
    <3>. QED
      BY <3>2
  <2>3. CASE todo # {}
    <3>1. PICK c \in todo : call = [comments |-> {c}, last |-> FALSE]
      BY <2>1, <2>3 DEF OneByOne
    <3>. QED
      BY <3>1
  <2>. QED
    BY <2>2, <2>3
<1>. QED
  BY <1>1, <1>2 DEF Platforms

\* What every step of a delivery leaves alone.
DeliveryFrame ==
    /\ UNCHANGED <<world, head, run, sent, gone, thumbs, downed, fed, file, editor>>
    /\ page \subseteq page' /\ notes \subseteq notes' /\ refs \subseteq refs'
    /\ left' \in Left

\* Findings, payloads and the configuration do not change in a delivery.
LEMMA DeliveryFrameKeeps ==
    ASSUME PlatformInv, DeliveryFrame,
           \A u \in Tasks : st'[u] = "none" <=> st[u] = "none"
    PROVE  Reviews' /\ (\A a \in Admins : EditorOK(a))'
<1>0. TypeOK /\ Reviews /\ \A a \in Admins : EditorOK(a)
  BY DEF PlatformInv, Reviews
<1>1. SameFindings /\ SameFile
  BY DEF DeliveryFrame, SameFindings, SameFile
<1>. QED
  BY <1>0, <1>1, ReviewsKept, EditorsKept

\* Failing backs off or gives up: the review stays one that was queued.
LEMMA FailKeepsQueued ==
    ASSUME TypeOK, NEW t \in Tasks, st[t] = "pending", mark_outbox_failed(t)
    PROVE  /\ st' \in [Tasks -> {"none", "pending", "posted", "failed"}]
           /\ attempts' \in [Tasks -> Nat] /\ rc' = "idle"
           /\ \A u \in Tasks : st'[u] = "none" <=> st[u] = "none"
           /\ \A u \in Tasks : st'[u] = "posted" => st[u] = "posted"
<1>1. /\ attempts \in [Tasks -> Nat] /\ st \in [Tasks -> {"none", "pending", "posted", "failed"}]
      /\ attempts' = [attempts EXCEPT ![t] = @ + 1] /\ rc' = "idle"
  BY DEF mark_outbox_failed, TypeOK
<1>2. PICK s \in {"failed", "pending"} : st' = [st EXCEPT ![t] = s]
  BY DEF mark_outbox_failed
<1>3. attempts' \in [Tasks -> Nat]
  BY <1>1
<1>. QED
  BY <1>1, <1>2, <1>3

\* More comments and bodies leave what was shown on the pull request.
LEMMA ShownStays ==
    ASSUME DeliveryFrame
    PROVE  /\ Ever \subseteq Ever'
           /\ \A t, c : OnPage(t, c) => OnPage(t, c)'
           /\ \A t : InFull(t) => InFull(t)'
<1>1. Ever \subseteq Ever'
  BY DEF DeliveryFrame, Ever
<1>2. \A t, c : OnPage(t, c) => OnPage(t, c)'
  BY <1>1 DEF OnPage
<1>3. \A t : InFull(t) => InFull(t)'
  BY <1>2 DEF InFull, DeliveryFrame
<1>. QED
  BY <1>1, <1>2, <1>3

\* A claimed review has everything left to post (claim_outbox).
LEMMA ClaimKeeps ==
    ASSUME PlatformInv, NEW t \in Tasks, claim_outbox(t)
    PROVE  PlatformInv'
<1>0. TypeOK /\ DeliveryOK /\ CommentsOK /\ FeedbackOK
  BY DEF PlatformInv
<1>1. /\ st[t] = "pending" /\ rc' = "post" /\ at' = t /\ todo' = sent[t].inline
      /\ copies' = [copies EXCEPT ![t] = @ + 1]
      /\ UNCHANGED <<world, left, head, run, st, sent, attempts, recorded, page, gone, notes,
                     labels, refs, thumbs, downed, fed, file, editor>>
  BY DEF claim_outbox, pageVars, memoryVars, fileVars
<1>2. DeliveryFrame
  BY <1>0, <1>1 DEF DeliveryFrame, TypeOK
<1>3. TypeOK'
  <2>1. copies' \in [Tasks -> Nat]
    BY <1>0, <1>1 DEF TypeOK
  <2>. QED
    BY <1>0, <1>1, <2>1 DEF TypeOK, Ever
<1>4. DeliveryOK'
  BY <1>0, <1>1, <1>2, ShownStays DEF DeliveryOK
<1>5. SameComments /\ SameFeedback
  BY <1>1 DEF SameComments, SameFeedback, Ever
<1>. QED
  BY <1>0, <1>1, <1>2, <1>3, <1>4, <1>5, DeliveryFrameKeeps, CommentsKept, FeedbackKept
  DEF PlatformInv, Reviews

\* A call that fails posts nothing (post_review_fails).
LEMMA FailsKeeps ==
    ASSUME PlatformInv, NEW t \in Tasks, post_review_fails(t)
    PROVE  PlatformInv'
<1>0. TypeOK /\ DeliveryOK /\ CommentsOK /\ FeedbackOK /\ left \in Left
  BY DEF PlatformInv, TypeOK
<1>1. /\ rc = "post" /\ at = t /\ mark_outbox_failed(t)
      /\ UNCHANGED <<world, head, run, sent, copies, refs, thumbs, downed, fed, file, editor,
                     gone, at, page, notes, labels, recorded>>
  BY DEF post_review_fails, deliveryRest, memoryVars, fileVars
<1>2. left' \in Left
  BY <1>0, SpendTypes DEF post_review_fails, Fault
<1>3. st[t] = "pending"
  BY <1>0, <1>1 DEF DeliveryOK
<1>4. DeliveryFrame
  BY <1>1, <1>2 DEF DeliveryFrame
<1>5. /\ st' \in [Tasks -> {"none", "pending", "posted", "failed"}]
      /\ attempts' \in [Tasks -> Nat] /\ rc' = "idle"
      /\ \A u \in Tasks : st'[u] = "none" <=> st[u] = "none"
      /\ \A u \in Tasks : st'[u] = "posted" => st[u] = "posted"
  BY <1>0, <1>1, <1>3, FailKeepsQueued
<1>6. TypeOK'
  BY <1>0, <1>1, <1>2, <1>5 DEF TypeOK, Ever
<1>7. recorded \subseteq Tasks
  BY <1>0 DEF TypeOK
<1>8. DeliveryOK'
  BY <1>0, <1>1, <1>4, <1>5, <1>7, ShownStays DEF DeliveryOK
<1>9. SameComments /\ SameFeedback
  BY <1>1, <1>5 DEF SameComments, SameFeedback, Ever
<1>. QED
  BY <1>0, <1>4, <1>5, <1>6, <1>8, <1>9, DeliveryFrameKeeps, CommentsKept, FeedbackKept
  DEF PlatformInv, Reviews

\* Every comment posted shows an inline comment of the review, and what is no
\* longer to do is on the pull request.
LEMMA PostKeeps ==
    ASSUME PlatformInv, NEW t \in Tasks, post_review(t)
    PROVE  PlatformInv'
<1>0. TypeOK /\ DeliveryOK /\ CommentsOK /\ FeedbackOK /\ left \in Left
  BY DEF PlatformInv, TypeOK
<1>1. /\ rc = "post" /\ at = t
      /\ UNCHANGED <<world, head, run, sent, copies, refs, thumbs, downed, fed, file, editor,
                     gone, at, labels, recorded>>
  BY DEF post_review, deliveryRest, memoryVars, fileVars
<1>2. PICK call \in Calls :
         /\ page' = page \cup {Comment(t, c) : c \in call.comments}
         /\ notes' = IF call.last THEN notes \cup {<<t, copies[t]>>} ELSE notes
         /\ \/ /\ todo' = todo \ call.comments
               /\ rc' = IF call.last THEN "upsert" ELSE "post"
               /\ UNCHANGED <<left, st, attempts>>
            \/ Fault /\ mark_outbox_failed(t)
  BY DEF post_review
<1>3. /\ call.comments \subseteq todo /\ (call.last => call.comments = todo)
      /\ call.last \in BOOLEAN
  <2>1. world.platform \in Platforms
    BY <1>0, WorldShape DEF TypeOK
  <2>. QED
    BY <2>1, CallsPostTodo
<1>4. /\ st[t] = "pending" /\ todo \subseteq sent[t].inline
      /\ \A c \in sent[t].inline \ todo : OnPage(t, c)
  BY <1>0, <1>1 DEF DeliveryOK
<1>5. left' \in Left
  BY <1>0, <1>2, SpendTypes DEF Fault
<1>6. DeliveryFrame
  BY <1>1, <1>2, <1>5 DEF DeliveryFrame
<1>7. /\ st' \in [Tasks -> {"none", "pending", "posted", "failed"}]
      /\ attempts' \in [Tasks -> Nat]
      /\ \A u \in Tasks : st'[u] = "none" <=> st[u] = "none"
      /\ \A u \in Tasks : st'[u] = "posted" => st[u] = "posted"
      /\ rc' \in {"idle", "post", "upsert"} /\ (rc' # "idle" => st' = st)
  BY <1>0, <1>2, <1>4, FailKeepsQueued DEF TypeOK
<1>8. TypeOK'
  <2>1. Ever \subseteq Ever'
    BY <1>6, ShownStays
  <2>. QED
    BY <1>0, <1>1, <1>5, <1>7, <2>1 DEF TypeOK
<1>9. \A c : Comment(t, c).by = t /\ Comment(t, c).file = c.file
             /\ Comment(t, c).line = c.line /\ Comment(t, c).title = c.title
  BY DEF Comment
<1>10. \A c \in call.comments : OnPage(t, c)'
  <2>1. TAKE c \in call.comments
  <2>2. Comment(t, c) \in Ever'
    BY <1>2 DEF Ever
  <2>3. Key(Comment(t, c)) = Key(c)
    BY <1>9 DEF Key
  <2>. QED
    BY <1>9, <2>2, <2>3 DEF OnPage
<1>11. DeliveryOK'
  <2>1. recorded' \subseteq Tasks /\ recorded' = recorded
    BY <1>0, <1>1 DEF TypeOK
  <2>2. \A u \in recorded' : st'[u] # "none"
    BY <1>0, <1>7, <2>1 DEF DeliveryOK
  <2>3. \A u \in Tasks : st'[u] = "posted" => InFull(u)'
    BY <1>0, <1>6, <1>7, ShownStays DEF DeliveryOK
  <2>4. \A c \in sent[t].inline \ todo : OnPage(t, c)'
    BY <1>4, <1>6, ShownStays
  <2>5. rc' = "post" => todo' \subseteq sent'[at'].inline
                        /\ \A c \in sent'[at'].inline \ todo' : OnPage(at, c)'
    <3>1. SUFFICES ASSUME rc' = "post"
                   PROVE  todo' \subseteq sent'[at'].inline
                          /\ \A c \in sent'[at'].inline \ todo' : OnPage(at, c)'
      OBVIOUS
    <3>2. todo' = todo \ call.comments
      BY <1>2, <3>1 DEF mark_outbox_failed
    <3>. QED
      BY <1>1, <1>4, <1>10, <2>4, <3>2
  <2>6. rc' = "upsert" => InFull(at)'
    <3>1. SUFFICES ASSUME rc' = "upsert" PROVE InFull(t)'
      BY <1>1
    <3>2. call.last
      BY <1>2, <3>1 DEF mark_outbox_failed
    <3>3. <<t, copies[t]>> \in notes'
      BY <1>2, <3>2
    <3>4. \A c \in sent[t].inline : OnPage(t, c)'
      BY <1>3, <1>10, <2>4, <3>2
    <3>. QED
      BY <1>1, <3>3, <3>4 DEF InFull
  <2>. QED
    BY <1>1, <1>4, <1>7, <2>2, <2>3, <2>5, <2>6 DEF DeliveryOK
<1>12. CommentsOK'
  <2>1. ASSUME NEW x \in Ever', x.by # 0
        PROVE  /\ x.by \in Tasks /\ st'[x.by] # "none"
               /\ \E c \in sent'[x.by].inline :
                     c.file = x.file /\ c.line = x.line /\ c.title = x.title
    <3>1. CASE x \in Ever
      BY <1>0, <1>1, <1>7, <2>1, <3>1 DEF CommentsOK
    <3>2. CASE x \notin Ever
      <4>1. PICK c \in call.comments : x = Comment(t, c)
        BY <1>1, <1>2, <2>1, <3>2 DEF Ever
      <4>. QED
        BY <1>1, <1>3, <1>4, <1>7, <1>9, <4>1
    <3>. QED
      BY <3>1, <3>2
  <2>. QED
    BY <2>1 DEF CommentsOK
<1>13. SameFeedback
  BY <1>1 DEF SameFeedback
<1>. QED
  BY <1>0, <1>6, <1>7, <1>8, <1>11, <1>12, <1>13, DeliveryFrameKeeps, FeedbackKept
  DEF PlatformInv, Reviews

\* The review is recorded, or the error logged.
LEMMA UpsertKeeps ==
    ASSUME PlatformInv, NEW t \in Tasks, upsert_review(t)
    PROVE  PlatformInv'
<1>0. TypeOK /\ DeliveryOK /\ CommentsOK /\ FeedbackOK /\ left \in Left
  BY DEF PlatformInv, TypeOK
<1>1. /\ rc = "upsert" /\ at = t /\ rc' = "list" /\ recorded' \subseteq recorded \cup {t}
      /\ UNCHANGED <<world, head, run, sent, copies, refs, thumbs, downed, fed, file, editor,
                     gone, at, todo, st, attempts, page, notes, labels>>
  BY DEF upsert_review, deliveryRest, memoryVars, fileVars
<1>2. left' \in Left
  BY <1>0, SpendTypes DEF upsert_review, Fault
<1>3. DeliveryFrame
  BY <1>1, <1>2 DEF DeliveryFrame
<1>4. TypeOK'
  BY <1>0, <1>1, <1>2 DEF TypeOK, Ever
<1>5. DeliveryOK'
  BY <1>0, <1>1, <1>3, ShownStays DEF DeliveryOK
<1>6. SameComments /\ SameFeedback
  BY <1>1 DEF SameComments, SameFeedback, Ever
<1>. QED
  BY <1>0, <1>1, <1>3, <1>4, <1>5, <1>6, DeliveryFrameKeeps, CommentsKept, FeedbackKept
  DEF PlatformInv, Reviews

\* What is listed is on the pull request; GitHub lists the review's own.
LEMMA ListedComments ==
    ASSUME world.platform \in Platforms, NEW t, NEW c \in list_review_comments(t)
    PROVE  c \in page /\ (world.platform = "github" => c.by = t)
<1>1. CASE world.platform = "github"
  BY <1>1 DEF list_review_comments, github_list_review_comments
<1>2. CASE world.platform \in {"gitlab", "bitbucket"}
  BY <1>2 DEF list_review_comments, gitlab_list_review_comments, bitbucket_list_review_comments
<1>. QED
  BY <1>1, <1>2 DEF Platforms

\* The ids are stored for the task they are listed for (store_review_comments).
LEMMA StoreKeeps ==
    ASSUME PlatformInv, NEW t \in Tasks, store_review_comments(t)
    PROVE  PlatformInv'
<1>0. TypeOK /\ DeliveryOK /\ CommentsOK /\ FeedbackOK /\ left \in Left
      /\ world.platform \in Platforms
  BY WorldShape DEF PlatformInv, TypeOK
<1>1. /\ rc = "list" /\ at = t /\ rc' = "label" /\ refs \subseteq refs'
      /\ UNCHANGED <<world, head, run, sent, copies, recorded, thumbs, downed, fed, file, editor,
                     gone, at, todo, st, attempts, page, notes, labels>>
  BY DEF store_review_comments, prVars, pageVars, fileVars
<1>2. \A r \in refs' : r \in refs \/ \E c \in list_review_comments(t) : r = <<c, t>>
  BY DEF store_review_comments
<1>3. left' \in Left
  BY <1>0, SpendTypes DEF store_review_comments, Fault
<1>4. DeliveryFrame
  BY <1>1, <1>3 DEF DeliveryFrame
<1>5. \A r \in refs' : r \in refs
                       \/ (r \in Ever \X Tasks /\ (world.platform = "github" => r[1].by = r[2]))
  <2>1. TAKE r \in refs'
  <2>2. CASE r \notin refs
    <3>1. PICK c \in list_review_comments(t) : r = <<c, t>>
      BY <1>2, <2>2
    <3>2. c \in page /\ (world.platform = "github" => c.by = t)
      BY <1>0, ListedComments
    <3>. QED
      BY <3>1, <3>2 DEF Ever
  <2>. QED
    BY <2>2
<1>6. TypeOK'
  <2>1. refs \cup fed \subseteq Ever \X Tasks
    BY <1>0 DEF TypeOK
  <2>2. refs' \cup fed' \subseteq Ever' \X Tasks
    BY <1>1, <1>5, <2>1 DEF Ever
  <2>. QED
    BY <1>0, <1>1, <1>3, <2>2 DEF TypeOK
<1>7. DeliveryOK'
  BY <1>0, <1>1, <1>4, ShownStays DEF DeliveryOK
<1>8. SameComments
  BY <1>1 DEF SameComments, Ever
<1>9. FeedbackOK'
  BY <1>0, <1>1, <1>5 DEF FeedbackOK
<1>. QED
  BY <1>0, <1>1, <1>4, <1>6, <1>7, <1>8, <1>9, DeliveryFrameKeeps, CommentsKept
  DEF PlatformInv, Reviews

\* Labels matter to no other step (add_labels).
LEMMA LabelsKeep ==
    ASSUME PlatformInv, NEW t \in Tasks, add_labels(t)
    PROVE  PlatformInv'
<1>0. TypeOK /\ DeliveryOK /\ CommentsOK /\ FeedbackOK /\ left \in Left
  BY DEF PlatformInv, TypeOK
<1>1. /\ rc = "label" /\ at = t /\ rc' = "mark"
      /\ UNCHANGED <<world, head, run, sent, copies, refs, thumbs, downed, fed, file, editor,
                     gone, at, todo, st, attempts, page, notes, recorded>>
  BY DEF add_labels, deliveryRest, memoryVars, fileVars
<1>2. left' \in Left
  BY <1>0, SpendTypes DEF add_labels, Fault
<1>3. DeliveryFrame
  BY <1>1, <1>2 DEF DeliveryFrame
<1>4. TypeOK'
  BY <1>0, <1>1, <1>2 DEF TypeOK, Ever
<1>5. DeliveryOK'
  BY <1>0, <1>1, <1>3, ShownStays DEF DeliveryOK
<1>6. SameComments /\ SameFeedback
  BY <1>1 DEF SameComments, SameFeedback, Ever
<1>. QED
  BY <1>0, <1>1, <1>3, <1>4, <1>5, <1>6, DeliveryFrameKeeps, CommentsKept, FeedbackKept
  DEF PlatformInv, Reviews

\* A review is marked posted once all of it is on the pull request.
LEMMA MarkKeeps ==
    ASSUME PlatformInv, NEW t \in Tasks, mark_outbox_posted(t)
    PROVE  PlatformInv'
<1>0. TypeOK /\ DeliveryOK /\ CommentsOK /\ FeedbackOK /\ left \in Left
  BY DEF PlatformInv, TypeOK
<1>1. /\ rc = "mark" /\ at = t /\ rc' = "idle" /\ st' = [st EXCEPT ![t] = "posted"]
      /\ UNCHANGED <<world, left, head, run, sent, copies, refs, thumbs, downed, fed, file, editor,
                     gone, at, todo, attempts, page, notes, labels, recorded>>
  BY DEF mark_outbox_posted, deliveryRest, memoryVars, fileVars
<1>2. /\ st[t] = "pending" /\ InFull(t) /\ recorded \subseteq Tasks
      /\ st \in [Tasks -> {"none", "pending", "posted", "failed"}]
  BY <1>0, <1>1 DEF DeliveryOK, TypeOK
<1>3. DeliveryFrame
  BY <1>0, <1>1 DEF DeliveryFrame
<1>4. /\ st' \in [Tasks -> {"none", "pending", "posted", "failed"}]
      /\ \A u \in Tasks : st'[u] = "none" <=> st[u] = "none"
      /\ \A u \in Tasks : st'[u] = "posted" => st[u] = "posted" \/ u = t
  BY <1>1, <1>2
<1>5. TypeOK'
  BY <1>0, <1>1, <1>4 DEF TypeOK, Ever
<1>6. DeliveryOK'
  BY <1>0, <1>1, <1>2, <1>3, <1>4, ShownStays DEF DeliveryOK
<1>7. SameComments /\ SameFeedback
  BY <1>1, <1>4 DEF SameComments, SameFeedback, Ever
<1>. QED
  BY <1>0, <1>3, <1>4, <1>5, <1>6, <1>7, DeliveryFrameKeeps, CommentsKept, FeedbackKept
  DEF PlatformInv, Reviews

\* A crash forgets the delivery, and the review stays pending.
LEMMA CrashKeeps ==
    ASSUME PlatformInv, Crash
    PROVE  PlatformInv'
<1>0. TypeOK /\ DeliveryOK /\ CommentsOK /\ FeedbackOK /\ left \in Left
  BY DEF PlatformInv, TypeOK
<1>1. /\ rc' = "idle"
      /\ UNCHANGED <<world, head, run, sent, copies, refs, thumbs, downed, fed, file, editor,
                     gone, at, st, attempts, page, notes, labels, recorded>>
  BY DEF Crash, deliveryRest, memoryVars, fileVars
<1>2. left' \in Left
  BY <1>0, SpendTypes DEF Crash, Fault
<1>3. DeliveryFrame
  BY <1>1, <1>2 DEF DeliveryFrame
<1>4. TypeOK'
  BY <1>0, <1>1, <1>2 DEF TypeOK, Ever
<1>5. DeliveryOK'
  BY <1>0, <1>1, <1>3, ShownStays DEF DeliveryOK
<1>6. SameComments /\ SameFeedback
  BY <1>1 DEF SameComments, SameFeedback, Ever
<1>. QED
  BY <1>0, <1>1, <1>3, <1>4, <1>5, <1>6, DeliveryFrameKeeps, CommentsKept, FeedbackKept
  DEF PlatformInv, Reviews

-----------------------------------------------------------------------------
(* The review configuration.                                               *)

Phases == {"idle", "put", "post", "done", "refused"}
Editor == [pc : Phases, snap : FileState]

\* A step of the configuration leaves the reviews alone.
ConfigFrame ==
    UNCHANGED <<world, head, run, st, sent, attempts, copies, recorded, rc, at, todo, page, gone,
                notes, labels, refs, thumbs, downed, fed>>

\* Then only the file and its editors are to be looked at.
LEMMA ConfigFrameKeeps ==
    ASSUME PlatformInv, ConfigFrame, left' \in Left, file' \in FileState,
           editor' \in [Admins -> Editor], \A a \in Admins : EditorOK(a)'
    PROVE  PlatformInv'
<1>0. TypeOK /\ Reviews /\ DeliveryOK /\ CommentsOK /\ FeedbackOK
  BY DEF PlatformInv, Reviews
<1>1. TypeOK'
  BY <1>0 DEF ConfigFrame, TypeOK, Ever, Editor, Phases
<1>2. SameFindings /\ SameDelivery /\ SameComments /\ SameFeedback
  BY DEF ConfigFrame, SameFindings, SameDelivery, SameComments, SameFeedback, Ever
<1>. QED
  BY <1>0, <1>1, <1>2, ReviewsKept, DeliveryKept, CommentsKept, FeedbackKept
  DEF PlatformInv, Reviews

\* A file with a new revision is not the one anyone has read.
LEMMA NewRevision ==
    ASSUME TypeOK, \A a \in Admins : EditorOK(a), file'.rev = file.rev + 1,
           NEW a \in Admins, editor'[a] = editor[a]
    PROVE  EditorOK(a)'
<1>1. file.rev \in Nat /\ editor[a].snap.rev \in Nat
  BY DEF TypeOK, FileState
<1>2. EditorOK(a)
  OBVIOUS
<1>. QED
  BY <1>1, <1>2 DEF EditorOK

\* Writing merges the administrator's keys into what was read.
LEMMA MergedKeys ==
    ASSUME NEW f \in FileState, NEW a \in Admins, NEW n \in Nat
    PROVE  [rev |-> n, good |-> TRUE, keys |-> merge_preset_fields(f, a)] \in FileState
           /\ (f.good => f.keys \subseteq merge_preset_fields(f, a))
<1>. DEFINE K == {"admin"} \X Admins \cup {"author"} \X Nat
<1>1. f.keys \subseteq K
  BY DEF FileState
<1>2. <<"admin", a>> \in K
  OBVIOUS
<1>3. merge_preset_fields(f, a) \subseteq K
  <2>1. CASE f.good
    BY <1>1, <1>2, <2>1 DEF merge_preset_fields
  <2>2. CASE ~f.good
    BY <1>1, <1>2, <2>2 DEF merge_preset_fields
  <2>. QED
    BY <2>1, <2>2
<1>4. f.good => f.keys \subseteq merge_preset_fields(f, a)
  BY DEF merge_preset_fields
<1>. QED
  BY <1>3, <1>4 DEF FileState

\* Who has just read the file has it as it is (set_preset_read).
LEMMA ReadKeeps ==
    ASSUME PlatformInv, NEW a \in Admins, set_preset_read(a)
    PROVE  PlatformInv' /\ \A b \in Admins : ~Writes(b)
<1>0. /\ TypeOK /\ \A b \in Admins : EditorOK(b)
      /\ editor \in [Admins -> Editor] /\ file \in FileState /\ left \in Left
  BY DEF PlatformInv, TypeOK, Editor, Phases
<1>1. /\ ConfigFrame /\ file' = file /\ left' = left
      /\ editor' = [editor EXCEPT ![a] = [pc |-> "put", snap |-> file]]
  BY DEF set_preset_read, ConfigFrame, prVars, postVars, pageVars, memoryVars
<1>2. editor' \in [Admins -> Editor]
  BY <1>0, <1>1 DEF Editor, Phases
<1>3. \A b \in Admins : b # a => editor'[b] = editor[b]
  BY <1>0, <1>1
<1>4. editor'[a] = [pc |-> "put", snap |-> file]
  BY <1>0, <1>1
<1>5. EditorOK(a)'
  <2>1. file.rev \in Nat
    BY <1>0 DEF FileState
  <2>. QED
    BY <1>1, <1>4, <2>1 DEF EditorOK
<1>6. ASSUME NEW b \in Admins, b # a PROVE EditorOK(b)'
  BY <1>0, <1>1, <1>3, <1>6 DEF EditorOK
<1>. QED
  BY <1>0, <1>1, <1>2, <1>3, <1>4, <1>5, <1>6, ConfigFrameKeeps DEF Writes

\* The rule of each platform for a write.
LEMMA GuardedBy ==
    ASSUME NEW snap, Guarded(snap)
    PROVE  /\ world.platform = "github" => file.rev = snap.rev
           /\ world.platform = "gitlab" => snap.rev \in {0, file.rev}
<1>. DEFINE g == file.rev = snap.rev
            l == snap.rev \in {0, file.rev}
            rule == [github |-> g, gitlab |-> l, bitbucket |-> TRUE]
<1>1. rule[world.platform]
  BY DEF Guarded, github_update_repo_file, gitlab_update_repo_file, bitbucket_update_repo_file
<1>2. rule["github"] = g /\ rule["gitlab"] = l
  BY Zenon
<1>. HIDE DEF rule
<1>. QED
  BY <1>1, <1>2, Zenon

\* Where the platform guards the write, what is written over is what was read.
LEMMA GuardedWrite ==
    ASSUME TypeOK, NEW a \in Admins, EditorOK(a), editor[a].pc = "put",
           Guarded(editor[a].snap), ~Unguarded(a)
    PROVE  editor[a].snap = file
<1>1. world.platform \in Platforms
  BY WorldShape DEF TypeOK
<1>2. CASE world.platform = "github"
  BY <1>2, GuardedBy DEF EditorOK
<1>3. CASE world.platform = "gitlab"
  BY <1>3, GuardedBy DEF Unguarded, EditorOK
<1>4. CASE world.platform = "bitbucket"
  BY <1>4 DEF Unguarded
<1>. QED
  BY <1>1, <1>2, <1>3, <1>4 DEF Platforms

\* GitLab's put without a file succeeds only for who read none.
LEMMA AbsentFile ==
    ASSUME NEW snap, world.platform = "gitlab", Guarded(snap), file.rev = 0
    PROVE  snap.rev = 0
  BY GuardedBy

\* A write of a file that was read as it still is keeps its keys.
LEMMA WriteKeeps ==
    ASSUME PlatformInv, NEW a \in Admins, update_repo_file(a)
    PROVE  PlatformInv' /\ \A b \in Admins : Writes(b) /\ ~Unguarded(b) => Keeps(b)
<1>0. /\ TypeOK /\ \A b \in Admins : EditorOK(b)
      /\ editor \in [Admins -> Editor] /\ file \in FileState /\ left \in Left
  BY DEF PlatformInv, TypeOK, Editor, Phases
<1>1. ConfigFrame /\ left' = left /\ editor[a].pc = "put" /\ Guarded(editor[a].snap)
  BY DEF update_repo_file, ConfigFrame, prVars, postVars, pageVars, memoryVars
<1>2. file.rev \in Nat /\ editor[a].snap \in FileState /\ editor[a].snap.rev \in Nat
  BY <1>0 DEF FileState, Editor
<1>3. CASE world.platform = "gitlab" /\ file.rev = 0
  <2>1. editor' = [editor EXCEPT ![a].pc = "post"] /\ file' = file
    BY <1>3 DEF update_repo_file
  <2>2. /\ editor'[a].pc = "post" /\ editor'[a].snap = editor[a].snap
        /\ \A b \in Admins : b # a => editor'[b] = editor[b]
        /\ editor' \in [Admins -> Editor]
    BY <1>0, <2>1 DEF Editor, Phases
  <2>3. editor[a].snap.rev = 0
    BY <1>1, <1>3, AbsentFile
  <2>4. EditorOK(a)'
    BY <1>0, <1>1, <2>1, <2>2, <2>3 DEF EditorOK
  <2>5. ASSUME NEW b \in Admins, b # a PROVE EditorOK(b)'
    BY <1>0, <2>1, <2>2, <2>5 DEF EditorOK
  <2>. QED
    BY <1>0, <1>1, <2>1, <2>2, <2>4, <2>5, ConfigFrameKeeps DEF Writes
<1>4. CASE ~(world.platform = "gitlab" /\ file.rev = 0)
  <2>1. /\ file' = [rev |-> file.rev + 1, good |-> TRUE,
                    keys |-> merge_preset_fields(editor[a].snap, a)]
        /\ editor' = [editor EXCEPT ![a].pc = "done"]
    BY <1>4 DEF update_repo_file
  <2>2. /\ editor'[a].pc = "done"
        /\ \A b \in Admins : b # a => editor'[b] = editor[b]
        /\ editor' \in [Admins -> Editor]
    BY <1>0, <2>1 DEF Editor, Phases
  <2>3. file' \in FileState /\ file'.rev = file.rev + 1
    BY <1>2, <2>1, MergedKeys
  <2>4. EditorOK(a)'
    BY <2>2 DEF EditorOK
  <2>5. ASSUME NEW b \in Admins, b # a PROVE EditorOK(b)'
    BY <1>0, <2>2, <2>3, <2>5, NewRevision
  <2>6. ~Unguarded(a) => Keeps(a)
    BY <1>0, <1>1, GuardedWrite DEF Keeps
  <2>. QED
    BY <1>0, <1>1, <2>2, <2>3, <2>4, <2>5, <2>6, ConfigFrameKeeps DEF Writes
<1>. QED
  BY <1>3, <1>4

\* A file is created only where there was none when it was read.
LEMMA WriteNewKeeps ==
    ASSUME PlatformInv, NEW a \in Admins, update_repo_file_creates(a)
    PROVE  PlatformInv' /\ \A b \in Admins : Writes(b) /\ ~Unguarded(b) => Keeps(b)
<1>0. /\ TypeOK /\ \A b \in Admins : EditorOK(b)
      /\ editor \in [Admins -> Editor] /\ file \in FileState /\ left \in Left
  BY DEF PlatformInv, TypeOK, Editor, Phases
<1>1. /\ ConfigFrame /\ left' = left /\ editor[a].pc = "post" /\ file.rev = 0
      /\ file' = [rev |-> 1, good |-> TRUE, keys |-> merge_preset_fields(editor[a].snap, a)]
      /\ editor' = [editor EXCEPT ![a].pc = "done"]
  BY DEF update_repo_file_creates, ConfigFrame, prVars, postVars, pageVars, memoryVars
<1>2. editor[a].snap \in FileState
  BY <1>0 DEF Editor
<1>3. /\ editor'[a].pc = "done"
      /\ \A b \in Admins : b # a => editor'[b] = editor[b]
      /\ editor' \in [Admins -> Editor]
  BY <1>0, <1>1 DEF Editor, Phases
<1>4. file' \in FileState /\ file'.rev = file.rev + 1
  BY <1>1, <1>2, MergedKeys
<1>5. EditorOK(a)'
  BY <1>3 DEF EditorOK
<1>6. ASSUME NEW b \in Admins, b # a PROVE EditorOK(b)'
  BY <1>0, <1>3, <1>4, <1>6, NewRevision
<1>7. editor[a].snap = file
  BY <1>0, <1>1 DEF EditorOK
<1>. QED
  BY <1>0, <1>1, <1>3, <1>4, <1>5, <1>6, <1>7, ConfigFrameKeeps DEF Writes, Keeps

\* A refused call writes nothing.
LEMMA RefusalKeeps ==
    ASSUME PlatformInv, NEW a \in Admins, update_repo_file_refused(a)
    PROVE  PlatformInv' /\ \A b \in Admins : ~Writes(b)
<1>0. /\ TypeOK /\ \A b \in Admins : EditorOK(b)
      /\ editor \in [Admins -> Editor] /\ file \in FileState /\ left \in Left
  BY DEF PlatformInv, TypeOK, Editor, Phases
<1>1. /\ ConfigFrame /\ left' = left /\ file' = file
      /\ editor' = [editor EXCEPT ![a].pc = "refused"]
  BY DEF update_repo_file_refused, ConfigFrame, prVars, postVars, pageVars, memoryVars
<1>2. /\ editor'[a].pc = "refused"
      /\ \A b \in Admins : b # a => editor'[b] = editor[b]
      /\ editor' \in [Admins -> Editor]
  BY <1>0, <1>1 DEF Editor, Phases
<1>3. EditorOK(a)'
  BY <1>2 DEF EditorOK
<1>4. ASSUME NEW b \in Admins, b # a PROVE EditorOK(b)'
  BY <1>0, <1>1, <1>2, <1>4 DEF EditorOK
<1>. QED
  BY <1>0, <1>1, <1>2, <1>3, <1>4, ConfigFrameKeeps DEF Writes

\* A commit of the author makes a new revision.
LEMMA AuthorKeeps ==
    ASSUME PlatformInv, NEW good \in BOOLEAN, AuthorEdit(good)
    PROVE  PlatformInv' /\ \A b \in Admins : ~Writes(b)
<1>0. /\ TypeOK /\ \A b \in Admins : EditorOK(b)
      /\ editor \in [Admins -> Editor] /\ file \in FileState /\ left \in Left
  BY DEF PlatformInv, TypeOK, Editor, Phases
<1>1. /\ ConfigFrame /\ editor' = editor
      /\ file' = [rev |-> file.rev + 1, good |-> good,
                  keys |-> file.keys \cup {<<"author", file.rev + 1>>}]
  BY DEF AuthorEdit, ConfigFrame, prVars, postVars, pageVars, memoryVars
<1>2. left' \in Left
  BY <1>0, SpendTypes DEF AuthorEdit
<1>3. file.rev \in Nat /\ file.keys \subseteq {"admin"} \X Admins \cup {"author"} \X Nat
  BY <1>0 DEF FileState
<1>4. <<"author", file.rev + 1>> \in {"author"} \X Nat
  BY <1>3
<1>5. file' \in FileState /\ file'.rev = file.rev + 1
  BY <1>1, <1>3, <1>4 DEF FileState
<1>6. \A b \in Admins : EditorOK(b)'
  BY <1>0, <1>1, <1>5, NewRevision
<1>. QED
  BY <1>0, <1>1, <1>2, <1>5, <1>6, ConfigFrameKeeps DEF Writes

-----------------------------------------------------------------------------
(* Counting what is shown.                                                 *)

\* A set that a finite one is mapped onto is finite and no larger.
LEMMA MappedOnto ==
    ASSUME NEW S, IsFiniteSet(S), NEW T, NEW f \in [S -> T],
           \A y \in T : \E x \in S : f[x] = y
    PROVE  IsFiniteSet(T) /\ Cardinality(T) <= Cardinality(S)
<1>1. f \in Surjection(S, T)
  BY DEF Surjection
<1>. QED
  BY <1>1, FS_Surjection

\* A map onto a set as large as its domain tells its arguments apart.
LEMMA OntoSameSize ==
    ASSUME NEW S, IsFiniteSet(S), NEW T, NEW f \in [S -> T],
           \A y \in T : \E x \in S : f[x] = y, Cardinality(S) = Cardinality(T)
    PROVE  \A x, y \in S : f[x] = f[y] => x = y
<1>1. f \in Surjection(S, T)
  BY DEF Surjection
<1>2. f \in Injection(S, T)
  BY <1>1, FS_SurjSameCardinalityImpliesInj
<1>. QED
  BY <1>2 DEF Injection, IsInjective

\* The size of a union of two sets without a common member.
LEMMA DisjointSize ==
    ASSUME NEW A, NEW B, IsFiniteSet(A), IsFiniteSet(B), A \cap B = {}
    PROVE  IsFiniteSet(A \cup B) /\ Cardinality(A \cup B) = Cardinality(A) + Cardinality(B)
<1>1. IsFiniteSet(A \cup B)
      /\ Cardinality(A \cup B) = Cardinality(A) + Cardinality(B) - Cardinality(A \cap B)
  BY FS_Union
<1>2. Cardinality(A \cap B) = 0
  BY FS_EmptySet
<1>3. Cardinality(A) \in Nat /\ Cardinality(B) \in Nat
  BY FS_CardinalityType
<1>. QED
  BY <1>1, <1>2, <1>3

\* Naming the members of a set keeps its size.
LEMMA TaggedSize ==
    ASSUME NEW X, IsFiniteSet(X), NEW u, NEW tag
    PROVE  /\ IsFiniteSet({<<u, tag, x>> : x \in X})
           /\ Cardinality({<<u, tag, x>> : x \in X}) = Cardinality(X)
<1>. DEFINE T == {<<u, tag, x>> : x \in X}
            f == [x \in X |-> <<u, tag, x>>]
<1>1. f \in Surjection(X, T)
  BY DEF Surjection
<1>2. f \in Injection(X, T)
  <2>1. f \in [X -> T] /\ \A x, y \in DOMAIN f : f[x] = f[y] => x = y
    OBVIOUS
  <2>. QED
    BY <2>1 DEF Injection, IsInjective
<1>. HIDE DEF f, T
<1>3. IsFiniteSet(T) /\ Cardinality(T) = Cardinality(X)
  BY <1>1, <1>2, FS_Surjection
<1>. QED
  BY <1>3 DEF T

\* And a set is finite when its tagged members are.
LEMMA UntaggedFinite ==
    ASSUME NEW X, NEW T, IsFiniteSet(T),
           \A y \in T : y[3] \in X, \A x \in X : \E y \in T : y[3] = x
    PROVE  IsFiniteSet(X)
<1>. DEFINE f == [y \in T |-> y[3]]
<1>1. f \in [T -> X] /\ \A x \in X : \E y \in T : f[y] = x
  OBVIOUS
<1>. HIDE DEF f
<1>. QED
  BY <1>1, MappedOnto

\* How u's review shows a finding.
ShownAs(u, g, F, diff) ==
    IF g \in Inline(F, diff) THEN <<u, "inline", Resolved(g, diff)>>
    ELSE IF g \in InScope(F, diff) THEN <<u, "body", Stands(g, F, diff)>>
    ELSE <<u, "body", g>>

ItemsOf(u, v) == {<<u, "inline", c>> : c \in v.inline} \cup {<<u, "body", f>> : f \in v.body}

\* Every item is a finding of the run, and every finding is an item.
LEMMA ShownOnto ==
    ASSUME NEW u, NEW F, NEW diff
    PROVE  /\ \A g \in F : ShownAs(u, g, F, diff) \in ItemsOf(u, validate(F, diff))
                           /\ Key(ShownAs(u, g, F, diff)[3]) = Key(g)
           /\ \A x \in ItemsOf(u, validate(F, diff)) : \E g \in F : ShownAs(u, g, F, diff) = x
<1>. DEFINE v == validate(F, diff)
            rest == InScope(F, diff) \ Inline(F, diff)
<1>0. /\ v.inline = {Resolved(x, diff) : x \in Inline(F, diff)}
      /\ v.body = Deferred(F, diff) \cup (F \ InScope(F, diff))
  BY DEF validate
<1>1. Inline(F, diff) \subseteq InScope(F, diff) /\ InScope(F, diff) \subseteq F
  BY DEF Inline, InScope
<1>. HIDE DEF v
<1>2. ASSUME NEW g \in F
      PROVE  ShownAs(u, g, F, diff) \in ItemsOf(u, v) /\ Key(ShownAs(u, g, F, diff)[3]) = Key(g)
  <2>1. CASE g \in Inline(F, diff)
    <3>1. Resolved(g, diff) \in v.inline
      BY <1>0, <2>1
    <3>. QED
      BY <2>1, <3>1, ResolvedKey DEF ShownAs, ItemsOf
  <2>2. CASE g \in rest
    <3>1. Stands(g, F, diff) \in v.body /\ Key(Stands(g, F, diff)) = Key(g)
      BY <1>0, <2>2, StandsFor
    <3>. QED
      BY <2>2, <3>1 DEF ShownAs, ItemsOf
  <2>3. CASE g \notin InScope(F, diff)
    <3>1. g \in v.body
      BY <1>0, <2>3
    <3>. QED
      BY <1>1, <2>3, <3>1 DEF ShownAs, ItemsOf
  <2>. QED
    BY <2>1, <2>2, <2>3
<1>3. ASSUME NEW x \in ItemsOf(u, v) PROVE \E g \in F : ShownAs(u, g, F, diff) = x
  <2>1. CASE \E c \in v.inline : x = <<u, "inline", c>>
    <3>1. PICK g \in Inline(F, diff) : x = <<u, "inline", Resolved(g, diff)>>
      BY <1>0, <2>1
    <3>. QED
      BY <1>1, <3>1 DEF ShownAs
  <2>2. ASSUME NEW y \in Deferred(F, diff), x = <<u, "body", y>>
        PROVE  \E g \in F : ShownAs(u, g, F, diff) = x
    <3>1. PICK f \in rest : y = CHOOSE g \in rest : Resolved(g, diff) = Resolved(f, diff)
      BY DEF Deferred
    <3>2. y \in rest /\ Resolved(y, diff) = Resolved(f, diff)
      BY <3>1
    <3>3. Stands(y, F, diff) = y
      BY <3>1, <3>2 DEF Stands
    <3>. QED
      BY <1>1, <2>2, <3>2, <3>3 DEF ShownAs
  <2>3. ASSUME NEW y \in F \ InScope(F, diff), x = <<u, "body", y>>
        PROVE  \E g \in F : ShownAs(u, g, F, diff) = x
    BY <1>1, <2>3 DEF ShownAs
  <2>4. (\E c \in v.inline : x = <<u, "inline", c>>) \/ \E y \in v.body : x = <<u, "body", y>>
    BY DEF ItemsOf
  <2>. QED
    BY <1>0, <2>1, <2>2, <2>3, <2>4
<1>. QED
  BY <1>2, <1>3 DEF v

\* A review of finitely many findings has finitely many items; when they are
\* as many as the findings, each finding is shown apart.
LEMMA ShownApart ==
    ASSUME NEW u, NEW F, IsFiniteSet(F), NEW diff
    PROVE  LET v == validate(F, diff) IN
           /\ IsFiniteSet(ItemsOf(u, v))
           /\ Cardinality(v.inline) + Cardinality(v.body) = Cardinality(F) =>
                \A f, g \in F : ShownAs(u, f, F, diff) = ShownAs(u, g, F, diff) => f = g
<1>. DEFINE v == validate(F, diff)
            I == {<<u, "inline", c>> : c \in v.inline}
            B == {<<u, "body", f>> : f \in v.body}
            s == [g \in F |-> ShownAs(u, g, F, diff)]
<1>1. /\ s \in [F -> ItemsOf(u, v)]
      /\ \A x \in ItemsOf(u, v) : \E g \in F : s[g] = x
  BY ShownOnto
<1>. HIDE DEF v, s
<1>2. IsFiniteSet(ItemsOf(u, v))
  BY <1>1, MappedOnto
<1>3. ItemsOf(u, v) = I \cup B /\ I \cap B = {}
  BY DEF ItemsOf
<1>4. IsFiniteSet(v.inline) /\ IsFiniteSet(v.body)
  <2>1. IsFiniteSet(I) /\ IsFiniteSet(B)
    BY <1>2, <1>3, FS_Subset
  <2>2. IsFiniteSet(v.inline)
    <3>1. (\A y \in I : y[3] \in v.inline) /\ \A x \in v.inline : <<u, "inline", x>> \in I
      OBVIOUS
    <3>2. \A x \in v.inline : \E y \in I : y[3] = x
      BY <3>1
    <3>. HIDE DEF I
    <3>. QED
      BY <2>1, <3>1, <3>2, UntaggedFinite
  <2>3. IsFiniteSet(v.body)
    <3>1. (\A y \in B : y[3] \in v.body) /\ \A x \in v.body : <<u, "body", x>> \in B
      OBVIOUS
    <3>2. \A x \in v.body : \E y \in B : y[3] = x
      BY <3>1
    <3>. HIDE DEF B
    <3>. QED
      BY <2>1, <3>1, <3>2, UntaggedFinite
  <2>. QED
    BY <2>2, <2>3
<1>5. /\ IsFiniteSet(I) /\ Cardinality(I) = Cardinality(v.inline)
      /\ IsFiniteSet(B) /\ Cardinality(B) = Cardinality(v.body)
  <2>1. IsFiniteSet(I) /\ Cardinality(I) = Cardinality(v.inline)
    BY <1>4, TaggedSize
  <2>2. IsFiniteSet(B) /\ Cardinality(B) = Cardinality(v.body)
    BY <1>4, TaggedSize
  <2>. QED
    BY <2>1, <2>2
<1>. HIDE DEF I, B
<1>6. Cardinality(ItemsOf(u, v)) = Cardinality(v.inline) + Cardinality(v.body)
  BY <1>3, <1>5, DisjointSize
<1>7. ASSUME Cardinality(v.inline) + Cardinality(v.body) = Cardinality(F)
      PROVE  \A f, g \in F : s[f] = s[g] => f = g
  BY <1>1, <1>6, <1>7, OntoSameSize
<1>. QED
  BY <1>2, <1>7 DEF v, s

-----------------------------------------------------------------------------
(* Finalize: what the dedup drops was posted.                              *)

\* What the invariant says of the reviews that were queued.
LEMMA QueuedReview ==
    ASSUME TypeOK, Reviews, NEW u \in Tasks
    PROVE  /\ IsFiniteSet(run[u].kept) /\ run[u].kept \subseteq Found
           /\ run[u].kept \subseteq Finding
           /\ st[u] # "none" => sent[u] = Payload(run[u].kept, sent[u].head)
<1>1. ShapeOK(u)
  BY DEF Reviews
<1>2. CASE st[u] = "none"
  <2>1. run[u].kept = {}
    BY <1>1, <1>2 DEF ShapeOK
  <2>. QED
    BY <1>2, <2>1, FS_EmptySet
<1>3. CASE st[u] # "none"
  <2>1. /\ run[u].found \in world.finds /\ run[u].kept \subseteq run[u].found
        /\ sent[u] = Payload(run[u].kept, sent[u].head)
    BY <1>1, <1>3 DEF ShapeOK
  <2>2. /\ IsFiniteSet(run[u].found) /\ run[u].found \subseteq Found
        /\ run[u].found \subseteq Finding
    BY <2>1, WorldShape DEF TypeOK
  <2>3. IsFiniteSet(run[u].kept)
    BY <2>1, <2>2, FS_Subset
  <2>. QED
    BY <2>1, <2>2, <2>3
<1>. QED
  BY <1>2, <1>3

\* The rows are those of other tasks whose review was queued.
LEMMA RowShape ==
    ASSUME TypeOK, DeliveryOK, NEW t \in Tasks, NEW r \in posted_findings_for_target(t)
    PROVE  /\ r \in {"reviews", "outbox"} \X Tasks
           /\ r[2] \in Tasks \ {t} /\ st[r[2]] # "none"
<1>1. recorded \subseteq Tasks /\ \A u \in recorded : st[u] # "none"
  BY DEF TypeOK, DeliveryOK
<1>2. CASE \E u \in recorded \ {t} : r = <<"reviews", u>>
  BY <1>1, <1>2
<1>3. CASE \E u \in Tasks \ {t} : st[u] = "pending" /\ r = <<"outbox", u>>
  BY <1>3
<1>. QED
  BY <1>2, <1>3 DEF posted_findings_for_target

\* There are finitely many rows, and finitely many findings in them.
LEMMA PostedFinite ==
    ASSUME TypeOK, Reviews, DeliveryOK, NEW t \in Tasks, NEW k,
           NEW R, R \subseteq posted_findings_for_target(t)
    PROVE  IsFiniteSet(R) /\ IsFiniteSet(PostedAs(k, R))
<1>. DEFINE Kept == {run[u].kept : u \in Tasks}
            kept == [u \in Tasks |-> run[u].kept]
<1>1. IsFiniteSet(Tasks)
  <2>1. 1 \in Int /\ NTasks \in Int
    BY Sizes
  <2>. QED
    BY <2>1, FS_Interval DEF Tasks
<1>2. IsFiniteSet(R)
  <2>1. IsFiniteSet({"reviews", "outbox"})
    <3>1. IsFiniteSet({"reviews"}) /\ IsFiniteSet({"outbox"})
      BY FS_Singleton
    <3>2. IsFiniteSet({"reviews"} \cup {"outbox"})
      BY <3>1, FS_Union
    <3>. QED
      BY <3>2
  <2>2. IsFiniteSet({"reviews", "outbox"} \X Tasks)
    BY <1>1, <2>1, FS_Product
  <2>3. R \subseteq {"reviews", "outbox"} \X Tasks
    BY RowShape
  <2>. QED
    BY <2>2, <2>3, FS_Subset
<1>3. IsFiniteSet(Kept)
  <2>1. kept \in [Tasks -> Kept] /\ \A y \in Kept : \E u \in Tasks : kept[u] = y
    OBVIOUS
  <2>. HIDE DEF kept, Kept
  <2>. QED
    BY <1>1, <2>1, MappedOnto
<1>4. \A K \in Kept : IsFiniteSet(K)
  BY QueuedReview
<1>. HIDE DEF Kept
<1>5. IsFiniteSet(UNION Kept)
  BY <1>3, <1>4, FS_UNION
<1>6. IsFiniteSet(R \X UNION Kept)
  BY <1>2, <1>5, FS_Product
<1>7. PostedAs(k, R) \subseteq R \X UNION Kept
  BY RowShape DEF PostedAs, Kept
<1>. QED
  BY <1>2, <1>6, <1>7, FS_Subset

\* Findings that some rows hold are no more than the rows' findings.
LEMMA HeldByRows ==
    ASSUME TypeOK, Reviews, DeliveryOK, NEW t \in Tasks, NEW k, NEW F,
           NEW R, R \subseteq posted_findings_for_target(t)
    PROVE  LET held == {f \in F : Key(f) = k /\ \E r \in R : f \in run[r[2]].kept} IN
           IsFiniteSet(held) /\ Cardinality(held) <= Cardinality(PostedAs(k, R))
<1>. DEFINE held == {f \in F : Key(f) = k /\ \E r \in R : f \in run[r[2]].kept}
            D == {p \in PostedAs(k, R) : p[2] \in F}
            m == [p \in D |-> p[2]]
<1>1. IsFiniteSet(PostedAs(k, R))
  BY PostedFinite
<1>2. IsFiniteSet(D) /\ Cardinality(D) <= Cardinality(PostedAs(k, R))
  BY <1>1, FS_Subset
<1>3. m \in [D -> held]
  BY DEF PostedAs
<1>4. ASSUME NEW f \in held PROVE \E p \in D : m[p] = f
  <2>1. PICK r \in R : f \in run[r[2]].kept
    BY <1>4
  <2>2. r[2] \in Tasks
    BY RowShape
  <2>3. f \in Found
    BY <2>1, <2>2, QueuedReview
  <2>4. <<r, f>> \in D /\ m[<<r, f>>] = f
    BY <1>4, <2>1, <2>3 DEF PostedAs
  <2>. QED
    BY <2>4
<1>. HIDE DEF m, D, held
<1>5. IsFiniteSet(held) /\ Cardinality(held) <= Cardinality(D)
  BY <1>2, <1>3, <1>4, MappedOnto
<1>6. Cardinality(held) \in Nat /\ Cardinality(D) \in Nat /\ Cardinality(PostedAs(k, R)) \in Nat
  BY <1>1, <1>2, <1>5, FS_CardinalityType
<1>. QED
  BY <1>2, <1>5, <1>6 DEF held

WideRows(t, rows) == IF world.scope = "pr" THEN rows \ SameHead(t, rows) ELSE {}
RestOf(t, F, rows) == F \ UNION {run[r[2]].kept : r \in SameHead(t, rows)}
WithKey(k, S) == {f \in S : Key(f) = k}

\* What dedup_against_posted keeps, in words of its own.
LEMMA DedupKeeps ==
    ASSUME NEW t, NEW F, NEW rows, NEW kept \in dedup_against_posted(t, F, rows)
    PROVE  /\ kept \subseteq RestOf(t, F, rows)
           /\ \A f \in RestOf(t, F, rows) :
                Cardinality(WithKey(Key(f), RestOf(t, F, rows) \ kept))
                  = Least(Cardinality(WithKey(Key(f), RestOf(t, F, rows))),
                          Cardinality(PostedAs(Key(f), WideRows(t, rows))))
<1>. DEFINE same == SameHead(t, rows)
            wide == IF world.scope = "pr" THEN rows \ same ELSE {}
            rest == F \ UNION {run[r[2]].kept : r \in same}
            Of(k, S) == {f \in S : Key(f) = k}
<1>1. /\ kept \in SUBSET rest
      /\ \A k \in {Key(f) : f \in rest} :
            Cardinality(Of(k, rest \ kept)) = Budgeted(Cardinality(Of(k, rest)), k, wide)
  BY DEF dedup_against_posted
<1>2. /\ kept \subseteq rest
      /\ \A f \in rest :
            Cardinality(Of(Key(f), rest \ kept))
                = Least(Cardinality(Of(Key(f), rest)), Cardinality(PostedAs(Key(f), wide)))
  BY <1>1 DEF Budgeted, Budget
<1>. QED
  BY <1>2 DEF RestOf, WideRows, WithKey

\* The findings with a key that are dropped across heads are no more than the
\* findings posted with it.
LEMMA WideBound ==
    ASSUME TypeOK, Reviews, DeliveryOK, NEW t \in Tasks, NEW F \in world.finds, NEW k,
           NEW rows, rows = posted_findings_for_target(t),
           NEW kept \in dedup_against_posted(t, F, rows)
    PROVE  LET H == WithKey(k, RestOf(t, F, rows) \ kept)
               W == PostedAs(k, WideRows(t, rows)) IN
           IsFiniteSet(H) /\ IsFiniteSet(W) /\ Cardinality(H) <= Cardinality(W)
<1>. DEFINE rest == RestOf(t, F, rows)
            H == WithKey(k, rest \ kept)
            W == PostedAs(k, WideRows(t, rows))
<1>1. IsFiniteSet(F)
  BY WorldShape DEF TypeOK
<1>2. H \subseteq F /\ WithKey(k, rest) \subseteq F
  BY DEF RestOf, WithKey
<1>3. IsFiniteSet(H) /\ IsFiniteSet(WithKey(k, rest))
  BY <1>1, <1>2, FS_Subset
<1>4. WideRows(t, rows) \subseteq rows
  BY DEF WideRows
<1>5. IsFiniteSet(W)
  BY <1>4, PostedFinite
<1>6. Cardinality(H) \in Nat /\ Cardinality(W) \in Nat /\ Cardinality(WithKey(k, rest)) \in Nat
  BY <1>3, <1>5, FS_CardinalityType
<1>7. CASE H = {}
  <2>1. Cardinality(H) = 0
    BY <1>7, FS_EmptySet
  <2>. QED
    BY <1>3, <1>5, <1>6, <2>1
<1>8. CASE H # {}
  <2>1. PICK f \in rest : Key(f) = k
    BY <1>8 DEF WithKey
  <2>2. Cardinality(H) = Least(Cardinality(WithKey(k, rest)), Cardinality(W))
    BY <2>1, DedupKeeps
  <2>. QED
    BY <1>3, <1>5, <1>6, <2>2 DEF Least
<1>. QED
  BY <1>7, <1>8

\* What a run hides with a key was posted with it, as often.
LEMMA HiddenBound ==
    ASSUME TypeOK, Reviews, DeliveryOK, NEW t \in Tasks, NEW F \in world.finds, NEW k,
           NEW rows, rows = posted_findings_for_target(t),
           NEW kept \in dedup_against_posted(t, F, rows)
    PROVE  /\ IsFiniteSet(WithKey(k, F \ kept))
           /\ Cardinality(WithKey(k, F \ kept)) <= Cardinality(PostedAs(k, rows))
<1>. DEFINE same == SameHead(t, rows)
            held == {f \in F : Key(f) = k /\ \E r \in same : f \in run[r[2]].kept}
            H == WithKey(k, RestOf(t, F, rows) \ kept)
            S == PostedAs(k, same)
            W == PostedAs(k, WideRows(t, rows))
<1>1. same \subseteq rows /\ WideRows(t, rows) \subseteq rows /\ same \cap WideRows(t, rows) = {}
  BY DEF SameHead, WideRows
<1>2. IsFiniteSet(held) /\ Cardinality(held) <= Cardinality(S)
  BY <1>1, HeldByRows
<1>3. IsFiniteSet(H) /\ IsFiniteSet(W) /\ Cardinality(H) <= Cardinality(W)
  BY WideBound
<1>4. IsFiniteSet(S) /\ IsFiniteSet(PostedAs(k, rows))
  BY <1>1, PostedFinite
<1>5. WithKey(k, F \ kept) \subseteq held \cup H
  BY DEF WithKey, RestOf
<1>6. held \cap H = {}
  BY DEF WithKey, RestOf
<1>7. S \cap W = {} /\ S \cup W \subseteq PostedAs(k, rows)
  <2>. HIDE DEF same
  <2>. QED
    BY <1>1 DEF PostedAs
<1>. HIDE DEF held, H, S, W, same
<1>8. IsFiniteSet(held \cup H) /\ Cardinality(held \cup H) = Cardinality(held) + Cardinality(H)
  BY <1>2, <1>3, <1>6, DisjointSize
<1>9. IsFiniteSet(S \cup W) /\ Cardinality(S \cup W) = Cardinality(S) + Cardinality(W)
  BY <1>3, <1>4, <1>7, DisjointSize
<1>10. Cardinality(S \cup W) <= Cardinality(PostedAs(k, rows))
  BY <1>4, <1>7, FS_Subset
<1>11. IsFiniteSet(WithKey(k, F \ kept))
       /\ Cardinality(WithKey(k, F \ kept)) <= Cardinality(held \cup H)
  BY <1>5, <1>8, FS_Subset
<1>12. /\ Cardinality(held) \in Nat /\ Cardinality(H) \in Nat /\ Cardinality(S) \in Nat
       /\ Cardinality(W) \in Nat /\ Cardinality(PostedAs(k, rows)) \in Nat
       /\ Cardinality(WithKey(k, F \ kept)) \in Nat
  BY <1>2, <1>3, <1>4, <1>11, FS_CardinalityType
<1>. QED
  BY <1>2, <1>3, <1>8, <1>9, <1>10, <1>11, <1>12

\* A dropped finding is kept by a review that was queued.
LEMMA DroppedIsKept ==
    ASSUME TypeOK, Reviews, DeliveryOK, NEW t \in Tasks, NEW F \in world.finds,
           NEW rows, rows = posted_findings_for_target(t),
           NEW kept \in dedup_against_posted(t, F, rows), NEW f \in F \ kept
    PROVE  \E u \in Tasks \ {t} : st[u] # "none" /\ \E g \in run[u].kept : Key(g) = Key(f)
<1>. DEFINE H == WithKey(Key(f), F \ kept)
            A == PostedAs(Key(f), rows)
<1>1. IsFiniteSet(H) /\ Cardinality(H) <= Cardinality(A)
  BY HiddenBound
<1>2. IsFiniteSet(A)
  BY PostedFinite
<1>3. H # {}
  BY DEF WithKey
<1>4. Cardinality(H) \in Nat /\ Cardinality(H) # 0 /\ Cardinality(A) \in Nat
  BY <1>1, <1>2, <1>3, FS_CardinalityType, FS_EmptySet
<1>5. Cardinality(A) # 0
  BY <1>1, <1>4
<1>6. A # {}
  BY <1>5, FS_EmptySet
<1>7. PICK r \in rows, g \in Found : g \in run[r[2]].kept /\ Key(g) = Key(f)
  BY <1>6 DEF PostedAs
<1>8. r[2] \in Tasks \ {t} /\ st[r[2]] # "none"
  BY RowShape
<1>. QED
  BY <1>7, <1>8

\* A queued review that shows each of its findings apart tells them apart.
LEMMA ReviewShows ==
    ASSUME TypeOK, Reviews, NEW u \in Tasks, st[u] # "none"
    PROVE  LET diff == Diffs[world.platform][sent[u].head]
               S(g) == ShownAs(u, g, run[u].kept, diff) IN
           /\ IsFiniteSet(ItemsOf(u, sent[u]))
           /\ \A g \in run[u].kept : S(g) \in Items(u, Key(g))
           /\ Uncollapsed(u) => \A f, g \in run[u].kept : S(f) = S(g) => f = g
<1>. DEFINE diff == Diffs[world.platform][sent[u].head]
            K == run[u].kept
            S(g) == ShownAs(u, g, K, diff)
<1>1. IsFiniteSet(K) /\ sent[u] = Payload(K, sent[u].head)
  BY QueuedReview
<1>2. /\ sent[u].inline = validate(K, diff).inline
      /\ sent[u].body = validate(K, diff).body
  <2>1. PICK h : h = sent[u].head
    OBVIOUS
  <2>2. sent[u] = Payload(K, h) /\ diff = Diffs[world.platform][h]
    BY <1>1, <2>1
  <2>. QED
    BY <2>2 DEF Payload
<1>. HIDE DEF K, diff
<1>3. ItemsOf(u, sent[u]) = ItemsOf(u, validate(K, diff))
  BY <1>2 DEF ItemsOf
<1>4. IsFiniteSet(ItemsOf(u, sent[u]))
  BY <1>1, <1>3, ShownApart
<1>5. ASSUME NEW g \in K PROVE S(g) \in Items(u, Key(g))
  <2>1. S(g) \in ItemsOf(u, sent[u]) /\ Key(S(g)[3]) = Key(g)
    BY <1>3, ShownOnto
  <2>2. CASE \E c \in sent[u].inline : S(g) = <<u, "inline", c>>
    <3>1. PICK c \in sent[u].inline : S(g) = <<u, "inline", c>>
      BY <2>2
    <3>2. Key(c) = Key(g)
      BY <2>1, <3>1
    <3>. QED
      BY <3>1, <3>2 DEF Items
  <2>3. CASE \E c \in sent[u].body : S(g) = <<u, "body", c>>
    <3>1. PICK c \in sent[u].body : S(g) = <<u, "body", c>>
      BY <2>3
    <3>2. Key(c) = Key(g)
      BY <2>1, <3>1
    <3>. QED
      BY <3>1, <3>2 DEF Items
  <2>. QED
    BY <2>1, <2>2, <2>3 DEF ItemsOf
<1>6. ASSUME Uncollapsed(u) PROVE \A f, g \in K : S(f) = S(g) => f = g
  <2>1. Cardinality(validate(K, diff).inline) + Cardinality(validate(K, diff).body)
            = Cardinality(K)
    BY <1>2, <1>6 DEF Uncollapsed, K
  <2>. QED
    BY <1>1, <2>1, ShownApart
<1>. QED
  BY <1>4, <1>5, <1>6 DEF K, diff

\* When the rows are of different reviews and each shows its findings apart,
\* the rows hold no more findings with a key than the reviews show.
LEMMA PostedBound ==
    ASSUME TypeOK, Reviews, DeliveryOK, NEW t \in Tasks, NEW k,
           NEW rows, rows = posted_findings_for_target(t),
           \A u \in Tasks : ~({<<"reviews", u>>, <<"outbox", u>>} \subseteq rows),
           \A r \in rows : Uncollapsed(r[2])
    PROVE  LET all == UNION {Items(r[2], k) : r \in rows} IN
           IsFiniteSet(all) /\ Cardinality(PostedAs(k, rows)) <= Cardinality(all)
<1>. DEFINE all == UNION {Items(r[2], k) : r \in rows}
            A == PostedAs(k, rows)
            Diff(u) == Diffs[world.platform][sent[u].head]
            m == [p \in A |-> ShownAs(p[1][2], p[2], run[p[1][2]].kept, Diff(p[1][2]))]
<1>1. \A r \in rows : /\ r \in {"reviews", "outbox"} \X Tasks
                      /\ r[2] \in Tasks /\ st[r[2]] # "none"
  BY RowShape
<1>2. \A p \in A : p[1] \in rows /\ p[2] \in run[p[1][2]].kept /\ Key(p[2]) = k
                   /\ p = <<p[1], p[2]>>
  BY DEF PostedAs
<1>3. IsFiniteSet(all)
  <2>. DEFINE c == [r \in rows |-> Items(r[2], k)]
              C == {Items(r[2], k) : r \in rows}
  <2>1. IsFiniteSet(rows)
    BY PostedFinite
  <2>2. c \in [rows -> C] /\ \A y \in C : \E r \in rows : c[r] = y
    OBVIOUS
  <2>3. \A y \in C : IsFiniteSet(y)
    <3>1. ASSUME NEW r \in rows PROVE IsFiniteSet(Items(r[2], k))
      <4>1. IsFiniteSet(ItemsOf(r[2], sent[r[2]]))
        BY <1>1, ReviewShows
      <4>2. Items(r[2], k) \subseteq ItemsOf(r[2], sent[r[2]])
        BY DEF Items, ItemsOf
      <4>. QED
        BY <4>1, <4>2, FS_Subset
    <3>. QED
      BY <3>1
  <2>. HIDE DEF c, C
  <2>4. IsFiniteSet(C)
    BY <2>1, <2>2, MappedOnto
  <2>5. IsFiniteSet(UNION C)
    BY <2>3, <2>4, FS_UNION
  <2>. QED
    BY <2>5 DEF C
<1>4. ASSUME NEW p \in A PROVE m[p] \in Items(p[1][2], k) /\ m[p][1] = p[1][2]
  <2>1. PICK u, g : /\ u \in Tasks /\ u = p[1][2] /\ g = p[2] /\ Key(g) = k
                      /\ g \in run[u].kept /\ st[u] # "none"
    BY <1>1, <1>2
  <2>2. m[p] = ShownAs(u, g, run[u].kept, Diff(u))
    BY <2>1
  <2>. HIDE DEF m
  <2>3. m[p] \in Items(u, k)
    BY <2>1, <2>2, ReviewShows
  <2>. QED
    BY <2>1, <2>2, <2>3 DEF ShownAs
<1>5. m \in [A -> all]
  <2>1. \A p \in A : m[p] \in all
    BY <1>2, <1>4
  <2>. QED
    BY <2>1
<1>6. ASSUME NEW p \in A, NEW q \in A, m[p] = m[q] PROVE p = q
  <2>1. p[1][2] = q[1][2]
    <3>1. m[p][1] = p[1][2] /\ m[q][1] = q[1][2]
      BY <1>4
    <3>. HIDE DEF m
    <3>. QED
      BY <1>6, <3>1
  <2>2. PICK u \in Tasks : u = p[1][2] /\ u = q[1][2] /\ st[u] # "none" /\ Uncollapsed(u)
                           /\ p[2] \in run[u].kept /\ q[2] \in run[u].kept
    BY <1>1, <1>2, <2>1
  <2>3. /\ m[p] = ShownAs(u, p[2], run[u].kept, Diff(u))
        /\ m[q] = ShownAs(u, q[2], run[u].kept, Diff(u))
    BY <2>2
  <2>4. p[2] = q[2]
    <3>. HIDE DEF m
    <3>. QED
      BY <1>6, <2>2, <2>3, ReviewShows
  <2>5. /\ p[1] \in {<<"reviews", u>>, <<"outbox", u>>} /\ p[1] \in rows
        /\ q[1] \in {<<"reviews", u>>, <<"outbox", u>>} /\ q[1] \in rows
    <3>. HIDE DEF m, A
    <3>1. p[1] \in rows /\ q[1] \in rows
      BY <1>2
    <3>2. ASSUME NEW r \in rows, r[2] = u PROVE r \in {<<"reviews", u>>, <<"outbox", u>>}
      <4>1. r \in {"reviews", "outbox"} \X Tasks
        BY <1>1
      <4>. QED
        BY <3>2, <4>1
    <3>. QED
      BY <2>2, <3>1, <3>2
  <2>6. p[1] = q[1]
    BY <2>5
  <2>. QED
    BY <1>2, <2>4, <2>6
<1>. HIDE DEF m, A, all
<1>7. m \in Injection(A, all)
  BY <1>5, <1>6 DEF Injection, IsInjective
<1>8. Cardinality(A) <= Cardinality(all)
  BY <1>3, <1>7, FS_Injection
<1>. QED
  BY <1>3, <1>8 DEF A, all

Doubled(rows) == \E u \in Tasks : {<<"reviews", u>>, <<"outbox", u>>} \subseteq rows

\* Finalize, for what it found and kept and what that was compared with.
Finalizes(t, F, kept, P) ==
    /\ F \in world.finds /\ kept \subseteq F /\ P \subseteq Tasks \ {t}
    /\ \A u \in P : st[u] # "none"
    /\ st[t] = "none" /\ st' = [st EXCEPT ![t] = "pending"]
    /\ run' \in [Tasks -> Run] /\ \A u \in Tasks \ {t} : run'[u] = run[u]
    /\ run'[t].found = F /\ run'[t].kept = kept /\ run'[t].prior = P
    /\ sent' = [sent EXCEPT ![t] = Payload(kept, head)]
    /\ UNCHANGED <<world, head, attempts, copies, recorded, rc, at, todo, page, gone, notes,
                   labels, refs, thumbs, downed, fed, file, editor>>
    /\ \/ kept = F /\ P = {}
       \/ LET rows == posted_findings_for_target(t) IN
          kept \in dedup_against_posted(t, F, rows) /\ P = {r[2] : r \in rows}
          /\ (Doubled(rows) => run'[t].twice)

\* finalize_review is such a step, with or without the lookup.
LEMMA FinalizeShape ==
    ASSUME PlatformInv, NEW t \in Tasks, finalize_review(t)
    PROVE  left' \in Left /\ \E F, kept, P : Finalizes(t, F, kept, P)
<1>0. TypeOK /\ Reviews /\ DeliveryOK
  BY DEF PlatformInv, Reviews
<1>1. run \in [Tasks -> Run] /\ left \in Left
  BY <1>0 DEF TypeOK
<1>2. /\ st[t] = "none" /\ st' = [st EXCEPT ![t] = "pending"]
      /\ UNCHANGED <<world, head, attempts, copies, recorded, rc, at, todo, page, gone, notes,
                     labels, refs, thumbs, downed, fed, file, editor>>
  BY DEF finalize_review, postVars, pageVars, memoryVars, fileVars
<1>3. run[t].prior = {}
  BY <1>0, <1>2 DEF Reviews, ShapeOK
<1>4. left' \in Left
  BY <1>1, SpendTypes DEF finalize_review, Fault
<1>5. ASSUME NEW F \in world.finds, run' = [run EXCEPT ![t].found = F, ![t].kept = F],
             sent' = [sent EXCEPT ![t] = Payload(F, head)]
      PROVE  Finalizes(t, F, F, {})
  <2>1. F \in SUBSET Finding
    BY <1>0, WorldShape DEF TypeOK
  <2>2. /\ run'[t].found = F /\ run'[t].kept = F /\ run'[t].prior = {}
        /\ run' \in [Tasks -> Run] /\ \A u \in Tasks \ {t} : run'[u] = run[u]
    <3>0. PICK f \in [Tasks -> Run] : f = run
      BY <1>1
    <3>1. PICK g : f = run /\ g = run'
      BY <3>0
    <3>2. g = [f EXCEPT ![t].found = F, ![t].kept = F]
      BY <1>5, <3>1
    <3>3. /\ g[t].found = F /\ g[t].kept = F /\ g[t].prior = f[t].prior
          /\ g \in [Tasks -> Run] /\ \A u \in Tasks \ {t} : g[u] = f[u]
      <4>1. g[t].found = F /\ g[t].kept = F /\ g[t].prior = f[t].prior
        BY <2>1, <3>2 DEF Run
      <4>2. g[t] \in Run
        <5>1. PICK r \in Run : r = [f[t] EXCEPT !.found = F]
          BY <2>1, <3>2 DEF Run
        <5>2. PICK s \in Run : s = [r EXCEPT !.kept = F]
          BY <2>1, <3>2 DEF Run
        <5>. QED
          BY <3>2, <5>1, <5>2
      <4>3. g \in [Tasks -> Run]
        BY <3>2, <4>2
      <4>4. \A u \in Tasks \ {t} : g[u] = f[u]
        BY <3>2
      <4>. QED
        BY <4>1, <4>3, <4>4
    <3>. QED
      BY <1>3, <3>1, <3>3
  <2>. QED
    BY <1>2, <1>5, <2>2 DEF Finalizes
<1>6. ASSUME NEW F \in world.finds, NEW rows, rows = posted_findings_for_target(t),
             NEW kept \in dedup_against_posted(t, F, rows), NEW d, d = Doubled(rows),
             run' = [run EXCEPT ![t].found = F, ![t].kept = kept,
                                ![t].prior = {r[2] : r \in rows}, ![t].twice = d],
             sent' = [sent EXCEPT ![t] = Payload(kept, head)]
      PROVE  Finalizes(t, F, kept, {r[2] : r \in rows})
  <2>. DEFINE P == {r[2] : r \in rows}
  <2>1. d \in BOOLEAN
    BY <1>6 DEF Doubled
  <2>2. kept \subseteq F
    BY DedupKeeps DEF RestOf
  <2>3. F \in SUBSET Finding /\ kept \in SUBSET Finding
    BY <1>0, <2>2, WorldShape DEF TypeOK
  <2>4. P \subseteq Tasks \ {t} /\ \A u \in P : st[u] # "none"
    BY <1>0, <1>6, RowShape
  <2>5. run' = [run EXCEPT ![t].found = F, ![t].kept = kept, ![t].prior = P, ![t].twice = d]
    BY <1>6
  <2>6. P = {r[2] : r \in posted_findings_for_target(t)}
    BY <1>6
  <2>. HIDE DEF P
  <2>7. /\ run'[t].found = F /\ run'[t].kept = kept /\ run'[t].prior = P /\ run'[t].twice = d
        /\ run' \in [Tasks -> Run] /\ \A u \in Tasks \ {t} : run'[u] = run[u]
    <3>0. PICK f \in [Tasks -> Run] : f = run
      BY <1>1
    <3>1. PICK g : f = run /\ g = run'
      BY <3>0
    <3>2. g = [f EXCEPT ![t].found = F, ![t].kept = kept, ![t].prior = P, ![t].twice = d]
      BY <2>5, <3>1
    <3>3. P \in SUBSET Tasks
      BY <2>4
    <3>4. /\ g[t].found = F /\ g[t].kept = kept /\ g[t].prior = P /\ g[t].twice = d
          /\ g \in [Tasks -> Run] /\ \A u \in Tasks \ {t} : g[u] = f[u]
      <4>1. g[t].found = F /\ g[t].kept = kept /\ g[t].prior = P /\ g[t].twice = d
        BY <2>1, <2>3, <3>2, <3>3 DEF Run
      <4>2. g[t] \in Run
        <5>1. PICK r \in Run : r = [f[t] EXCEPT !.found = F]
          BY <2>1, <2>3, <3>2, <3>3 DEF Run
        <5>2. PICK s \in Run : s = [r EXCEPT !.kept = kept]
          BY <2>1, <2>3, <3>2, <3>3 DEF Run
        <5>3. PICK p \in Run : p = [s EXCEPT !.prior = P]
          BY <2>1, <2>3, <3>2, <3>3 DEF Run
        <5>4. PICK q \in Run : q = [p EXCEPT !.twice = d]
          BY <2>1, <2>3, <3>2, <3>3 DEF Run
        <5>. QED
          BY <3>2, <5>1, <5>2, <5>3, <5>4
      <4>3. g \in [Tasks -> Run]
        BY <3>2, <4>2
      <4>4. \A u \in Tasks \ {t} : g[u] = f[u]
        BY <3>2
      <4>. QED
        BY <4>1, <4>3, <4>4
    <3>. QED
      BY <3>1, <3>4
  <2>8. Doubled(rows) => run'[t].twice
    BY <1>6, <2>7, Zenon
  <2>9. Finalizes(t, F, kept, P)
    BY <1>2, <1>6, <2>2, <2>4, <2>6, <2>7, <2>8 DEF Finalizes
  <2>. QED
    BY <2>9 DEF P
<1>7. PICK F \in world.finds :
         \/ \E kept \in dedup_against_posted(t, F, posted_findings_for_target(t)) :
              /\ run' = [run EXCEPT
                     ![t].found = F, ![t].kept = kept,
                     ![t].prior = {r[2] : r \in posted_findings_for_target(t)},
                     ![t].twice = Doubled(posted_findings_for_target(t))]
              /\ sent' = [sent EXCEPT ![t] = Payload(kept, head)]
         \/ /\ run' = [run EXCEPT ![t].found = F, ![t].kept = F]
            /\ sent' = [sent EXCEPT ![t] = Payload(F, head)]
  BY DEF finalize_review, Doubled
<1>. QED
  BY <1>4, <1>5, <1>6, <1>7

\* The run of another task, and the review of any queued one, stay.
LEMMA FinalizeLeaves ==
    ASSUME TypeOK, NEW t \in Tasks, NEW F, NEW kept, NEW P, Finalizes(t, F, kept, P)
    PROVE  /\ \A u \in Tasks \ {t} : run'[u] = run[u] /\ sent'[u] = sent[u] /\ st'[u] = st[u]
           /\ run'[t].found = F /\ run'[t].kept = kept /\ run'[t].prior = P
           /\ sent'[t] = Payload(kept, head) /\ st'[t] = "pending"
           /\ \A u \in Tasks : st[u] # "none" => u # t /\ st'[u] # "none"
<1>1. DOMAIN sent = Tasks /\ st \in [Tasks -> {"none", "pending", "posted", "failed"}]
  BY DEF TypeOK
<1>2. /\ st[t] = "none" /\ st' = [st EXCEPT ![t] = "pending"]
      /\ \A u \in Tasks \ {t} : run'[u] = run[u]
      /\ run'[t].found = F /\ run'[t].kept = kept /\ run'[t].prior = P
      /\ sent' = [sent EXCEPT ![t] = Payload(kept, head)]
  BY DEF Finalizes
<1>. QED
  BY <1>1, <1>2

\* A payload names the head of the diff it was made for.
LEMMA PayloadHead ==
    ASSUME NEW F, NEW h
    PROVE  Payload(F, h).head = h
  BY DEF Payload

\* What finalize adds to findings and payloads is as the invariant says.
LEMMA FinalizeReviews ==
    ASSUME PlatformInv, NEW t \in Tasks, NEW F, NEW kept, NEW P,
           Finalizes(t, F, kept, P)
    PROVE  Reviews'
<1>0. TypeOK /\ Reviews /\ DeliveryOK
  BY DEF PlatformInv, Reviews
<1>1. /\ \A u \in Tasks \ {t} : run'[u] = run[u] /\ sent'[u] = sent[u] /\ st'[u] = st[u]
      /\ run'[t].found = F /\ run'[t].kept = kept /\ run'[t].prior = P
      /\ sent'[t] = Payload(kept, head) /\ st'[t] = "pending"
      /\ \A u \in Tasks : st[u] # "none" => u # t /\ st'[u] # "none"
  BY <1>0, FinalizeLeaves
<1>2. /\ F \in world.finds /\ kept \subseteq F /\ P \subseteq Tasks \ {t}
      /\ \A u \in P : st[u] # "none"
      /\ st[t] = "none" /\ world' = world /\ head' = head
  BY DEF Finalizes
<1>3. \A u \in Tasks : /\ run[u].prior \subseteq Tasks
                       /\ \A v \in run[u].prior : st[v] # "none"
  <2>1. TAKE u \in Tasks
  <2>2. ShapeOK(u)
    BY <1>0 DEF Reviews
  <2>3. run[u].prior \subseteq Tasks
    BY <1>0 DEF TypeOK, Run
  <2>. QED
    BY <2>2, <2>3 DEF ShapeOK
<1>4. ASSUME NEW u \in Tasks PROVE ShapeOK(u)'
  <2>1. CASE u = t
    <3>1. PICK h : h = head
      OBVIOUS
    <3>2. Payload(kept, h)' = Payload(kept, h)
      BY <1>2, PayloadSame
    <3>3. sent'[t] = Payload(kept, h)' /\ sent'[t].head = h
      BY <1>1, <3>1, <3>2, PayloadHead
    <3>4. \A v \in run'[t].prior : st'[v] # "none"
      BY <1>1, <1>2
    <3>. QED
      BY <1>1, <1>2, <2>1, <3>3, <3>4 DEF ShapeOK
  <2>2. CASE u # t
    <3>1. ShapeOK(u) /\ run'[u] = run[u] /\ sent'[u] = sent[u] /\ st'[u] = st[u]
      BY <1>0, <1>1, <2>2 DEF Reviews
    <3>2. PICK K, h : K = run[u].kept /\ h = sent[u].head
      OBVIOUS
    <3>3. Payload(K, h)' = Payload(K, h)
      BY <1>2, PayloadSame
    <3>4. \A v \in run'[u].prior : st'[v] # "none"
      BY <1>1, <1>3, <3>1
    <3>. QED
      BY <1>2, <3>1, <3>2, <3>3, <3>4 DEF ShapeOK
  <2>. QED
    BY <2>1, <2>2
<1>5. FoundIsKept'
  <2>1. ASSUME NEW v \in Tasks, NEW k, st[v] # "none", \E g \in run[v].kept : Key(g) = k
        PROVE  KeptSomewhere(k)'
    <3>1. run'[v] = run[v] /\ st'[v] # "none"
      BY <1>1, <2>1
    <3>2. \E g \in run'[v].kept : Key(g) = k
      BY <2>1, <3>1
    <3>. QED
      BY <3>1, <3>2 DEF KeptSomewhere
  <2>2. ASSUME NEW u \in Tasks, NEW f \in run'[u].found PROVE KeptSomewhere(Key(f))'
    <3>1. CASE u # t
      <4>1. KeptSomewhere(Key(f))
        BY <1>0, <1>1, <2>2, <3>1 DEF Reviews, FoundIsKept
      <4>. QED
        BY <2>1, <4>1 DEF KeptSomewhere
    <3>2. CASE u = t /\ f \in kept
      <4>1. st'[t] # "none" /\ f \in run'[t].kept
        BY <1>1, <3>2
      <4>. QED
        BY <4>1 DEF KeptSomewhere
    <3>3. CASE u = t /\ f \notin kept
      <4>1. f \in F \ kept
        BY <1>1, <2>2, <3>3
      <4>2. kept \in dedup_against_posted(t, F, posted_findings_for_target(t))
        BY <4>1 DEF Finalizes
      <4>3. PICK v \in Tasks \ {t} : st[v] # "none" /\ \E g \in run[v].kept : Key(g) = Key(f)
        BY <1>0, <1>2, <4>1, <4>2, DroppedIsKept
      <4>. QED
        BY <2>1, <4>3
    <3>. QED
      BY <3>1, <3>2, <3>3
  <2>. QED
    BY <2>2 DEF FoundIsKept
<1>6. ASSUME NEW v \in Tasks, st[v] # "none"
      PROVE  (Uncollapsed(v)' <=> Uncollapsed(v)) /\ \A k : Items(v, k)' = Items(v, k)
  <2>1. run'[v] = run[v] /\ sent'[v] = sent[v]
    BY <1>1, <1>6
  <2>. QED
    BY <2>1 DEF Uncollapsed, Items
<1>7. SuppressedWasPosted'
  <2>1. SUFFICES ASSUME NEW u \in Tasks, ~run'[u].twice,
                        \A v \in run'[u].prior : Uncollapsed(v)'
                 PROVE  AtMostShown(u)'
    BY DEF SuppressedWasPosted
  <2>2. CASE u # t
    <3>1. run'[u] = run[u]
      BY <1>1, <2>2
    <3>2. \A v \in run[u].prior : Uncollapsed(v)
      BY <1>3, <1>6, <2>1, <3>1
    <3>3. AtMostShown(u)
      BY <1>0, <2>1, <3>1, <3>2 DEF Reviews, SuppressedWasPosted
    <3>4. ASSUME NEW k PROVE Suppressed(u, k)' = Suppressed(u, k)
      BY <3>1 DEF Suppressed
    <3>5. ASSUME NEW k \in {Key(f) : f \in run'[u].found}
          PROVE  Suppressed(u, k)' <= Cardinality(UNION {Items(v, k)' : v \in run[u].prior})
      BY <1>3, <1>6, <3>1, <3>3, <3>4 DEF AtMostShown
    <3>. QED
      BY <3>1, <3>5 DEF AtMostShown
  <2>3. CASE u = t
    <3>1. ASSUME NEW k
          PROVE  Suppressed(t, k)' <= Cardinality(UNION {Items(v, k)' : v \in P})
      <4>. DEFINE H == WithKey(k, F \ kept)
      <4>1. Suppressed(t, k)' = Cardinality(H)
        BY <1>1 DEF Suppressed, WithKey
      <4>2. UNION {Items(v, k)' : v \in P} = UNION {Items(v, k) : v \in P}
        BY <1>2, <1>6
      <4>3. CASE kept = F /\ P = {}
        <5>1. H = {} /\ UNION {Items(v, k) : v \in P} = {}
          BY <4>3 DEF WithKey
        <5>2. Cardinality(H) = 0 /\ Cardinality(UNION {Items(v, k) : v \in P}) = 0
          BY <5>1, FS_EmptySet
        <5>. QED
          <6>1. PICK n, m : n = Suppressed(t, k)' /\ m = Cardinality(UNION {Items(v, k)' : v \in P})
            OBVIOUS
          <6>2. n = 0 /\ m = 0
            BY <4>1, <4>2, <5>2, <6>1
          <6>. QED
            BY <6>1, <6>2
      <4>4. CASE ~(kept = F /\ P = {})
        <5>1. PICK rows : rows = posted_findings_for_target(t)
          OBVIOUS
        <5>2. kept \in dedup_against_posted(t, F, rows) /\ P = {r[2] : r \in rows}
              /\ (Doubled(rows) => run'[t].twice)
          BY <4>4, <5>1 DEF Finalizes
        <5>3. ~Doubled(rows)
          BY <2>1, <2>3, <5>2, Zenon
        <5>4. \A r \in rows : Uncollapsed(r[2])
          BY <1>1, <1>2, <1>6, <2>1, <2>3, <5>2
        <5>. DEFINE all == UNION {Items(r[2], k) : r \in rows}
        <5>5. IsFiniteSet(all) /\ Cardinality(PostedAs(k, rows)) <= Cardinality(all)
          BY <1>0, <5>1, <5>3, <5>4, PostedBound DEF Doubled
        <5>6. IsFiniteSet(H) /\ Cardinality(H) <= Cardinality(PostedAs(k, rows))
          BY <1>0, <1>2, <5>1, <5>2, HiddenBound
        <5>7. IsFiniteSet(PostedAs(k, rows))
          BY <1>0, <5>1, PostedFinite
        <5>8. all = UNION {Items(v, k) : v \in P}
          BY <5>2
        <5>. HIDE DEF all, H
        <5>9. /\ Cardinality(H) \in Nat /\ Cardinality(all) \in Nat
              /\ Cardinality(PostedAs(k, rows)) \in Nat
          BY <5>5, <5>6, <5>7, FS_CardinalityType
        <5>10. Cardinality(H) <= Cardinality(all)
          BY <5>5, <5>6, <5>9
        <5>. QED
          BY <4>1, <4>2, <5>8, <5>10
      <4>. QED
        BY <4>3, <4>4
    <3>. QED
      BY <1>1, <2>3, <3>1 DEF AtMostShown
  <2>. QED
    BY <2>2, <2>3
<1>. QED
  BY <1>4, <1>5, <1>7 DEF Reviews

\* And it touches no review that is being delivered.
LEMMA FinalizeKeeps ==
    ASSUME PlatformInv, NEW t \in Tasks, finalize_review(t)
    PROVE  PlatformInv'
<1>0. TypeOK /\ DeliveryOK /\ CommentsOK /\ FeedbackOK /\ \A a \in Admins : EditorOK(a)
  BY DEF PlatformInv
<1>1. left' \in Left
  BY FinalizeShape
<1>2. PICK F, kept, P : Finalizes(t, F, kept, P)
  BY FinalizeShape
<1>3. /\ \A u \in Tasks \ {t} : run'[u] = run[u] /\ sent'[u] = sent[u] /\ st'[u] = st[u]
      /\ st'[t] = "pending" /\ \A u \in Tasks : st[u] # "none" => u # t /\ st'[u] # "none"
  BY <1>0, <1>2, FinalizeLeaves
<1>4. /\ run' \in [Tasks -> Run] /\ st[t] = "none" /\ st' = [st EXCEPT ![t] = "pending"]
      /\ sent' = [sent EXCEPT ![t] = Payload(kept, head)]
      /\ UNCHANGED <<world, head, attempts, copies, recorded, rc, at, todo, page, gone, notes,
                     labels, refs, thumbs, downed, fed, file, editor>>
  BY <1>2 DEF Finalizes
<1>5. TypeOK'
  <2>1. /\ st' \in [Tasks -> {"none", "pending", "posted", "failed"}]
        /\ DOMAIN sent' = Tasks
    BY <1>0, <1>4 DEF TypeOK
  <2>. QED
    BY <1>0, <1>1, <1>4, <2>1 DEF TypeOK, Ever
<1>6. DeliveryOK'
  <2>1. /\ at \in Tasks /\ recorded \subseteq Tasks
    BY <1>0 DEF TypeOK
  <2>2. \A u, c : OnPage(u, c)' <=> OnPage(u, c)
    BY <1>4 DEF OnPage, Ever
  <2>3. \A u \in Tasks \ {t} : InFull(u)' <=> InFull(u)
    BY <1>3, <1>4, <2>2 DEF InFull
  <2>4. rc # "idle" => at # t
    BY <1>0, <1>4 DEF DeliveryOK
  <2>5. rc' # "idle" => st'[at'] = "pending"
    BY <1>0, <1>3, <1>4, <2>1, <2>4 DEF DeliveryOK
  <2>6. rc' = "post" => todo' \subseteq sent'[at'].inline
                        /\ \A c \in sent'[at'].inline \ todo' : OnPage(at, c)'
    BY <1>0, <1>3, <1>4, <2>1, <2>2, <2>4 DEF DeliveryOK
  <2>7. rc' \in {"upsert", "list", "label", "mark"} => InFull(at)'
    BY <1>0, <1>4, <2>1, <2>3, <2>4 DEF DeliveryOK
  <2>8. \A u \in Tasks : st'[u] = "posted" => InFull(u)'
    BY <1>0, <1>3, <2>3 DEF DeliveryOK
  <2>9. \A u \in recorded' : st'[u] # "none"
    BY <1>0, <1>3, <1>4, <2>1 DEF DeliveryOK
  <2>. QED
    BY <1>4, <2>5, <2>6, <2>7, <2>8, <2>9 DEF DeliveryOK
<1>7. CommentsOK'
  <2>1. ASSUME NEW x \in Ever, x.by # 0
        PROVE  /\ x.by \in Tasks /\ st'[x.by] # "none"
               /\ \E c \in sent'[x.by].inline :
                     c.file = x.file /\ c.line = x.line /\ c.title = x.title
    <3>1. /\ x.by \in Tasks /\ st[x.by] # "none"
          /\ \E c \in sent[x.by].inline :
                c.file = x.file /\ c.line = x.line /\ c.title = x.title
      BY <1>0, <2>1 DEF CommentsOK
    <3>2. sent'[x.by] = sent[x.by] /\ st'[x.by] # "none"
      BY <1>3, <3>1
    <3>. QED
      BY <3>1, <3>2
  <2>2. Ever' = Ever
    BY <1>4 DEF Ever
  <2>. QED
    BY <2>1, <2>2 DEF CommentsOK
<1>8. SameFeedback /\ SameFile
  BY <1>4 DEF SameFeedback, SameFile
<1>9. Reviews'
  BY <1>2, FinalizeReviews
<1>. QED
  BY <1>0, <1>5, <1>6, <1>7, <1>8, <1>9, FeedbackKept, EditorsKept DEF PlatformInv, Reviews

-----------------------------------------------------------------------------
(* Reading a patch.                                                        *)

\* A non-empty set of naturals has a least element: induction, as a fact
\* about sets.
LEMMA LeastNatural ==
    ASSUME NEW T, T \subseteq Nat, T # {}
    PROVE  \E x \in T : \A y \in T : x <= y
<1>. DEFINE R == {p \in Nat \X Nat : p[1] < p[2]}
<1>1. IsWellFoundedOn(R, Nat)
  BY NatLessThanWellFounded DEF OpToRel
<1>. HIDE DEF R
<1>2. PICK x \in T : \A y \in T : ~(<<y, x>> \in R)
  BY <1>1, WFMin
<1>3. ASSUME NEW y \in T PROVE x <= y
  <2>1. ~(<<y, x>> \in R)
    BY <1>2
  <2>. QED
    BY <2>1 DEF R
<1>. QED
  BY <1>3

\* The value of g at i follows from the one before it by the i-th step.
Follows(g, a, F, N) == g[0] = a /\ \A i \in 1 .. N : g[i] = F[i][g[i - 1]]

\* A function can be defined by recursion on its argument: there is one whose
\* value at n follows from the value at n - 1 by the n-th step.
LEMMA RecursionExists ==
    ASSUME NEW A, NEW a \in A, NEW N \in Nat, NEW F \in [1 .. N -> [A -> A]]
    PROVE  \E g \in [0 .. N -> A] : Follows(g, a, F, N)
<1>. DEFINE Upto(n) == \E g \in [0 .. n -> A] : g[0] = a /\ \A i \in 1 .. n : g[i] = F[i][g[i - 1]]
            T == {n \in 0 .. N : ~Upto(n)}
<1>1. T = {}
  <2>1. SUFFICES ASSUME T # {} PROVE FALSE
    OBVIOUS
  <2>2. T \subseteq Nat
    OBVIOUS
  <2>3. PICK n \in T : \A m \in T : n <= m
    <3>. HIDE DEF T
    <3>. QED
      BY <2>1, <2>2, LeastNatural
  <2>4. n \in 0 .. N /\ ~Upto(n)
    OBVIOUS
  <2>5. CASE n = 0
    <3>1. PICK g \in [0 .. 0 -> A] : g = [i \in 0 .. 0 |-> a]
      OBVIOUS
    <3>2. g[0] = a /\ \A i \in 1 .. 0 : g[i] = F[i][g[i - 1]]
      BY <3>1
    <3>. QED
      BY <2>4, <2>5, <3>2
  <2>6. CASE n # 0
    <3>1. n - 1 \in 0 .. N /\ ~(n <= n - 1) /\ n \in 1 .. N
      BY <2>4, <2>6
    <3>2. Upto(n - 1)
      BY <2>3, <3>1
    <3>3. PICK g \in [0 .. n - 1 -> A] : g[0] = a /\ \A i \in 1 .. n - 1 : g[i] = F[i][g[i - 1]]
      BY <3>2
    <3>4. PICK v \in A : v = F[n][g[n - 1]]
      BY <3>1, <3>3
    <3>5. PICK h : h = [i \in 0 .. n |-> IF i = n THEN v ELSE g[i]]
      OBVIOUS
    <3>6. h \in [0 .. n -> A] /\ h[0] = a
      BY <3>1, <3>3, <3>5
    <3>7. ASSUME NEW i \in 1 .. n PROVE h[i] = F[i][h[i - 1]]
      <4>1. h[i - 1] = g[i - 1]
        BY <3>1, <3>5
      <4>2. CASE i = n
        BY <3>1, <3>4, <3>5, <4>1, <4>2
      <4>3. CASE i # n
        BY <3>1, <3>3, <3>5, <4>1, <4>3
      <4>. QED
        BY <4>2, <4>3
    <3>. QED
      BY <2>4, <3>6, <3>7
  <2>. QED
    BY <2>5, <2>6
<1>2. N \in 0 .. N
  OBVIOUS
<1>. HIDE DEF Upto
<1>3. Upto(N)
  BY <1>1, <1>2
<1>. QED
  BY <1>3 DEF Upto, Follows

Lines == [new_line : Nat, added : SUBSET Nat, all : SUBSET Nat]

\* What one line of a patch does to the lines read off so far.
LEMMA DiffLineOf ==
    ASSUME NEW acc \in Lines, NEW l \in PatchLine
    PROVE  /\ DiffLine(acc, l) \in Lines
           /\ l[1] = "@@" => DiffLine(acc, l).new_line = l[2] /\ l[2] \in Nat
           /\ l[1] \in {"+", " "} => DiffLine(acc, l).new_line = acc.new_line + 1
           /\ l[1] \notin {"@@", "+", " "} => DiffLine(acc, l).new_line = acc.new_line
           /\ l[1] = "+" => DiffLine(acc, l).added = acc.added \cup {acc.new_line}
           /\ l[1] # "+" => DiffLine(acc, l).added = acc.added
<1>0. PICK n \in Nat, a \in SUBSET Nat, s \in SUBSET Nat :
        acc = [new_line |-> n, added |-> a, all |-> s]
  BY DEF Lines
<1>1. CASE l[1] = "@@"
  BY <1>1 DEF DiffLine, Lines, PatchLine
<1>2. CASE l[1] = "+"
  <2>1. PICK b : b = [new_line |-> n + 1, added |-> a \cup {n}, all |-> s \cup {n}]
    OBVIOUS
  <2>2. DiffLine(acc, l) = b
    BY <1>0, <1>2, <2>1 DEF DiffLine
  <2>3. n + 1 \in Nat /\ a \cup {n} \in SUBSET Nat /\ s \cup {n} \in SUBSET Nat
    OBVIOUS
  <2>4. b \in Lines /\ b.new_line = acc.new_line + 1 /\ b.added = acc.added \cup {acc.new_line}
    BY <1>0, <2>1, <2>3 DEF Lines
  <2>. QED
    BY <1>2, <2>2, <2>4
<1>3. CASE l[1] = " "
  <2>0. s \cup {n} \in SUBSET Nat /\ n + 1 \in Nat
    OBVIOUS
  <2>1. PICK b : b = [new_line |-> n + 1, added |-> a, all |-> s]
    OBVIOUS
  <2>2. b = [acc EXCEPT !.new_line = @ + 1]
    BY <1>0, <2>1
  <2>3. PICK c : c = [b EXCEPT !.all = @ \cup {acc.new_line}]
    OBVIOUS
  <2>4. c = [acc EXCEPT !.new_line = @ + 1, !.all = @ \cup {acc.new_line}]
    BY <1>0, <2>1, <2>2, <2>3
  <2>5. DiffLine(acc, l) = c
    BY <1>3, <2>4 DEF DiffLine
  <2>6. c = [new_line |-> n + 1, added |-> a, all |-> s \cup {n}]
    BY <1>0, <2>1, <2>3
  <2>7. c \in Lines /\ c.new_line = acc.new_line + 1 /\ c.added = acc.added
    BY <1>0, <2>0, <2>6 DEF Lines
  <2>. QED
    BY <1>3, <2>5, <2>7
<1>4. CASE l[1] \notin {"@@", "+", " "}
  BY <1>4 DEF DiffLine, Lines, PatchLine
<1>. QED
  BY <1>1, <1>2, <1>3, <1>4

\* The first N lines of a patch, a reading of them, and where it ends.
Patch(q, N) ==
    /\ N \in Nat /\ \A n \in 1 .. N : q[n] \in PatchLine
    /\ N >= 1 => q[1][1] = "@@"
Reading(seen, q, N) ==
    /\ seen \in [0 .. N -> Lines] /\ seen[0] = NoLines
    /\ \A n \in 1 .. N : seen[n] = DiffLine(seen[n - 1], q[n])
ReadTo(q, N) ==
    (CHOOSE s : s = [n \in 0 .. N |->
        IF n = 0 THEN NoLines ELSE DiffLine(s[n - 1], q[n])])[N]

\* diff_lines reads the whole patch.
LEMMA DiffLinesIs ==
    ASSUME NEW patch
    PROVE  diff_lines(patch) = ReadTo(patch, Len(patch))
  BY Zenon DEF diff_lines, ReadTo

\* Reading a patch line by line is a function of how far one has read.
LEMMA ReadingExists ==
    ASSUME NEW N, NEW patch, Patch(patch, N)
    PROVE  \E seen : Reading(seen, patch, N)
<1>0. N \in Nat /\ \A n \in 1 .. N : patch[n] \in PatchLine
  BY DEF Patch
<1>1. PICK F : F = [n \in 1 .. N |-> [acc \in Lines |-> DiffLine(acc, patch[n])]]
  OBVIOUS
<1>2. F \in [1 .. N -> [Lines -> Lines]]
  <2>1. \A n \in 1 .. N : \A acc \in Lines : DiffLine(acc, patch[n]) \in Lines
    BY <1>0, DiffLineOf
  <2>. QED
    BY <1>1, <2>1
<1>3. NoLines \in Lines
  BY DEF NoLines, Lines
<1>4. PICK g \in [0 .. N -> Lines] : Follows(g, NoLines, F, N)
  BY <1>0, <1>2, <1>3, RecursionExists
<1>5. ASSUME NEW i \in 1 .. N PROVE g[i] = DiffLine(g[i - 1], patch[i])
  <2>1. i - 1 \in 0 .. N
    BY <1>0
  <2>2. g[i - 1] \in Lines
    BY <2>1
  <2>. QED
    BY <1>1, <1>4, <2>2 DEF Follows
<1>. QED
  BY <1>4, <1>5 DEF Reading, Follows

\* diff_lines is the end of the reading.
LEMMA DiffLinesRead ==
    ASSUME NEW N, NEW patch, Patch(patch, N)
    PROVE  \E seen : Reading(seen, patch, N) /\ ReadTo(patch, N) = seen[N]
<1>0. PICK g : Reading(g, patch, N)
  BY ReadingExists
<1>1. /\ N \in Nat /\ g \in [0 .. N -> Lines] /\ g[0] = NoLines
      /\ \A n \in 1 .. N : g[n] = DiffLine(g[n - 1], patch[n])
  BY <1>0 DEF Patch, Reading
<1>. DEFINE Step(s) == [n \in 0 .. N |-> IF n = 0 THEN NoLines ELSE DiffLine(s[n - 1], patch[n])]
<1>2. g = Step(g)
  <2>1. \A n \in 0 .. N : g[n] = IF n = 0 THEN NoLines ELSE DiffLine(g[n - 1], patch[n])
    BY <1>1
  <2>2. PICK h : h = Step(g)
    OBVIOUS
  <2>3. DOMAIN h = 0 .. N /\ \A n \in 0 .. N : h[n] = IF n = 0 THEN NoLines ELSE DiffLine(g[n - 1], patch[n])
    BY <2>2
  <2>4. h = [n \in 0 .. N |-> h[n]]
    BY <2>2
  <2>5. g = [n \in 0 .. N |-> g[n]]
    BY <1>1
  <2>6. \A n \in 0 .. N : h[n] = g[n]
    BY <2>1, <2>3, Zenon
  <2>7. g = h
    BY <2>4, <2>5, <2>6
  <2>. QED
    BY <2>2, <2>7, Zenon
<1>3. PICK s : s = CHOOSE x : x = Step(x)
  OBVIOUS
<1>. HIDE DEF Step
<1>4. s = Step(s)
  BY <1>2, <1>3, Zenon
<1>5. \A n \in 0 .. N : s[n] = g[n]
  <2>1. s = [n \in 0 .. N |-> IF n = 0 THEN NoLines ELSE DiffLine(s[n - 1], patch[n])]
    BY <1>4, Zenon DEF Step
  <2>2. s[0] = NoLines /\ \A n \in 1 .. N : s[n] = DiffLine(s[n - 1], patch[n])
    BY <1>1, <2>1
  <2>3. s[0] = g[0] /\ \A n \in 1 .. N : s[n - 1] = g[n - 1] => s[n] = g[n]
    BY <1>1, <2>2
  <2>. DEFINE T == {n \in 0 .. N : s[n] # g[n]}
  <2>4. T \subseteq Nat
    BY <1>1
  <2>5. ASSUME T # {} PROVE FALSE
    <3>1. PICK n \in T : \A m \in T : n <= m
      <4>. HIDE DEF T
      <4>. QED
        BY <2>4, <2>5, LeastNatural
    <3>2. n \in 0 .. N /\ n # 0 /\ s[n] # g[n]
      BY <2>3
    <3>3. n - 1 \in 0 .. N /\ ~(n <= n - 1) /\ n \in 1 .. N
      BY <1>1, <3>2
    <3>4. s[n - 1] = g[n - 1]
      BY <3>1, <3>3
    <3>. QED
      BY <2>3, <3>2, <3>3, <3>4
  <2>. QED
    BY <2>5
<1>6. ReadTo(patch, N) = s[N]
  BY <1>3, Zenon DEF Step, ReadTo
<1>7. ReadTo(patch, N) = g[N]
  BY <1>1, <1>5, <1>6
<1>. QED
  BY <1>0, <1>7, Zenon

\* The hunk header above a line of a patch, and the number of the line that
\* comes after the first n lines.
HunkAt(q, n) == Max({j \in 1 .. n : q[j][1] = "@@"})
ShownIn(q, a, b) == {j \in a .. b : q[j][1] \in {"+", " "}}
NextLine(q, n) == q[HunkAt(q, n)][2] + Cardinality(ShownIn(q, HunkAt(q, n) + 1, n))

\* The greatest of some naturals.
LEMMA GreatestIs ==
    ASSUME NEW T, T \subseteq Nat, NEW x \in T, \A y \in T : y <= x
    PROVE  Max(T) = x
<1>1. PICK m : m = Max(T)
  OBVIOUS
<1>2. ASSUME NEW y \in T PROVE x >= y
  <2>1. x \in Nat /\ y \in Nat /\ y <= x
    OBVIOUS
  <2>. QED
    BY <2>1
<1>3. m \in T /\ \A y \in T : m >= y
  BY <1>1, <1>2, Zenon DEF Max
<1>4. m >= x /\ x >= m
  BY <1>2, <1>3
<1>5. m \in Nat /\ x \in Nat
  BY <1>3
<1>. QED
  BY <1>1, <1>4, <1>5

\* Naturals below a bound have a greatest one.
LEMMA GreatestOf ==
    ASSUME NEW n \in Nat, NEW T, T \subseteq 0 .. n, T # {}
    PROVE  Max(T) \in T
<1>. DEFINE D == {n - y : y \in T}
<1>1. D \subseteq Nat /\ D # {}
  <2>1. ASSUME NEW y \in T PROVE n - y \in Nat
    <3>1. y \in 0 .. n
      OBVIOUS
    <3>. QED
      BY <3>1
  <2>2. PICK y : y \in T
    OBVIOUS
  <2>3. n - y \in D
    BY <2>2
  <2>. QED
    BY <2>1, <2>3
<1>2. PICK d \in D : \A e \in D : d <= e
  <2>. HIDE DEF D
  <2>. QED
    BY <1>1, LeastNatural
<1>3. PICK x \in T : d = n - x
  OBVIOUS
<1>4. ASSUME NEW y \in T PROVE y <= x
  <2>1. n - y \in D
    OBVIOUS
  <2>2. n - x <= n - y
    BY <1>2, <1>3, <2>1
  <2>3. x \in 0 .. n /\ y \in 0 .. n
    OBVIOUS
  <2>. QED
    BY <2>2, <2>3
<1>5. T \subseteq Nat
  OBVIOUS
<1>. QED
  BY <1>4, <1>5, GreatestIs

\* A line that is a header starts a hunk; another one stays in the hunk of the
\* line before it.
LEMMA HunkSteps ==
    ASSUME NEW N \in Nat, NEW q, NEW n \in 1 .. N
    PROVE  /\ q[n][1] = "@@" => HunkAt(q, n) = n
           /\ q[n][1] # "@@" => HunkAt(q, n) = HunkAt(q, n - 1)
<1>1. ASSUME q[n][1] = "@@" PROVE HunkAt(q, n) = n
  <2>1. PICK T : T = {j \in 1 .. n : q[j][1] = "@@"}
    OBVIOUS
  <2>2. T \subseteq Nat /\ n \in T /\ \A y \in T : y <= n
    BY <1>1, <2>1
  <2>3. Max(T) = n
    BY <2>2, GreatestIs
  <2>. QED
    BY <2>1, <2>3, Zenon DEF HunkAt
<1>2. ASSUME q[n][1] # "@@" PROVE HunkAt(q, n) = HunkAt(q, n - 1)
  <2>1. {j \in 1 .. n : q[j][1] = "@@"} = {j \in 1 .. n - 1 : q[j][1] = "@@"}
    BY <1>2
  <2>. QED
    BY <2>1, Zenon DEF HunkAt
<1>. QED
  BY <1>1, <1>2

\* Below the first header, every line is in a hunk.
LEMMA HunkFound ==
    ASSUME NEW n \in Nat, n >= 1, NEW q, q[1][1] = "@@"
    PROVE  HunkAt(q, n) \in 1 .. n
<1>1. PICK T : T = {j \in 1 .. n : q[j][1] = "@@"}
  OBVIOUS
<1>2. T \subseteq 0 .. n /\ T # {} /\ T \subseteq 1 .. n
  BY <1>1
<1>3. Max(T) \in T
  BY <1>2, GreatestOf
<1>4. HunkAt(q, n) = Max(T)
  BY <1>1, Zenon DEF HunkAt
<1>. QED
  BY <1>2, <1>3, <1>4

\* How many lines of the new file a hunk has shown grows by one with each
\* added or unchanged line.
LEMMA ShownSteps ==
    ASSUME NEW n \in Nat, n >= 1, NEW a \in Nat, a <= n, NEW q
    PROVE  /\ Cardinality(ShownIn(q, a, n - 1)) \in Nat
           /\ q[n][1] \in {"+", " "} =>
                Cardinality(ShownIn(q, a, n)) = Cardinality(ShownIn(q, a, n - 1)) + 1
           /\ q[n][1] \notin {"+", " "} =>
                Cardinality(ShownIn(q, a, n)) = Cardinality(ShownIn(q, a, n - 1))
<1>1. PICK S : S = ShownIn(q, a, n - 1)
  OBVIOUS
<1>2. IsFiniteSet(S)
  <2>1. n - 1 \in Int /\ a \in Int
    OBVIOUS
  <2>2. IsFiniteSet(a .. n - 1)
    BY <2>1, FS_Interval
  <2>3. S \subseteq a .. n - 1
    BY <1>1 DEF ShownIn
  <2>. QED
    BY <2>2, <2>3, FS_Subset
<1>3. n \notin S
  <2>1. S \subseteq a .. n - 1
    BY <1>1 DEF ShownIn
  <2>2. n \notin a .. n - 1
    OBVIOUS
  <2>. QED
    BY <2>1, <2>2
<1>4. Cardinality(S) \in Nat /\ Cardinality(S \cup {n}) = Cardinality(S) + 1
  BY <1>2, <1>3, FS_CardinalityType, FS_AddElement
<1>. DEFINE K == {"+", " "}
<1>5. S = {j \in a .. n - 1 : q[j][1] \in K} /\ ShownIn(q, a, n) = {j \in a .. n : q[j][1] \in K}
  BY <1>1, Zenon DEF ShownIn
<1>6. \A j : j \in a .. n <=> j \in a .. n - 1 \/ j = n
  OBVIOUS
<1>. HIDE DEF K
<1>7. q[n][1] \in K => ShownIn(q, a, n) = S \cup {n}
  BY <1>5, <1>6
<1>8. q[n][1] \notin K => ShownIn(q, a, n) = S
  BY <1>5, <1>6
<1>. QED
  BY <1>1, <1>4, <1>7, <1>8, Zenon DEF K

\* The second part of a patch line is a number.
LEMMA PatchNumber ==
    ASSUME NEW l \in PatchLine
    PROVE  l[2] \in Nat
<1>1. CASE l \in {"@@"} \X Nat
  BY <1>1
<1>2. CASE l \in {"+", " ", "-", "other"} \X {0}
  <2>1. l[2] = 0
    BY <1>2
  <2>. QED
    BY <2>1
<1>. QED
  BY <1>1, <1>2, Zenon DEF PatchLine

\* The line number a reading has reached is the one counted within the hunk.
LEMMA ReadingCounts ==
    ASSUME NEW N, NEW q, Patch(q, N), NEW seen, Reading(seen, q, N)
    PROVE  \A n \in 1 .. N : seen[n].new_line = NextLine(q, n)
<1>0. /\ N \in Nat /\ (\A n \in 1 .. N : q[n] \in PatchLine) /\ (N >= 1 => q[1][1] = "@@")
      /\ seen \in [0 .. N -> Lines] /\ seen[0] = NoLines
      /\ \A n \in 1 .. N : seen[n] = DiffLine(seen[n - 1], q[n])
  BY DEF Patch, Reading
<1>. DEFINE T == {n \in 1 .. N : seen[n].new_line # NextLine(q, n)}
<1>1. T \subseteq Nat
  BY <1>0
<1>2. ASSUME T # {} PROVE FALSE
  <2>1. PICK n \in T : \A m \in T : n <= m
    <3>. HIDE DEF T
    <3>. QED
      BY <1>1, <1>2, LeastNatural
  <2>2. n \in 1 .. N /\ seen[n].new_line # NextLine(q, n)
    OBVIOUS
  <2>3. /\ n \in Nat /\ n >= 1 /\ n - 1 \in 0 .. N /\ q[n] \in PatchLine
        /\ seen[n - 1] \in Lines /\ seen[n] = DiffLine(seen[n - 1], q[n]) /\ q[1][1] = "@@"
    BY <1>0, <2>2
  <2>6. PICK acc \in Lines, l \in PatchLine :
          acc = seen[n - 1] /\ l = q[n] /\ seen[n] = DiffLine(acc, l)
    BY <2>3
  <2>4. CASE q[n][1] = "@@"
    <3>1. HunkAt(q, n) = n
      BY <1>0, <2>2, <2>4, HunkSteps
    <3>2. seen[n].new_line = q[n][2] /\ q[n][2] \in Nat
      <4>1. DiffLine(acc, l).new_line = l[2] /\ l[2] \in Nat
        BY <2>4, <2>6, DiffLineOf
      <4>. QED
        BY <2>6, <4>1
    <3>3. ShownIn(q, n + 1, n) = {}
      <4>1. n + 1 .. n = {}
        BY <2>3
      <4>. QED
        BY <4>1, Zenon DEF ShownIn
    <3>4. Cardinality({}) = 0
      BY FS_EmptySet
    <3>5. NextLine(q, n) = q[n][2] + Cardinality({})
      BY <3>1, <3>3, Zenon DEF NextLine
    <3>. QED
      BY <2>2, <3>2, <3>4, <3>5
  <2>5. CASE q[n][1] # "@@"
    <3>1. n # 1 /\ n - 1 \in Nat /\ n - 1 >= 1 /\ n - 1 \in 1 .. N /\ ~(n <= n - 1)
      BY <1>0, <2>2, <2>3, <2>5
    <3>2. seen[n - 1].new_line = NextLine(q, n - 1)
      BY <2>1, <3>1
    <3>3. PICK h : h = HunkAt(q, n)
      OBVIOUS
    <3>4. h = HunkAt(q, n - 1) /\ h \in 1 .. n - 1
      <4>1. HunkAt(q, n) = HunkAt(q, n - 1)
        BY <1>0, <2>2, <2>5, HunkSteps
      <4>2. HunkAt(q, n - 1) \in 1 .. n - 1
        BY <2>3, <3>1, HunkFound
      <4>. QED
        BY <3>3, <4>1, <4>2, Zenon
    <3>5. h + 1 \in Nat /\ h + 1 <= n
      BY <2>3, <3>4
    <3>6. PICK c, d : c = Cardinality(ShownIn(q, h + 1, n - 1)) /\ d = Cardinality(ShownIn(q, h + 1, n))
      OBVIOUS
    <3>7. NextLine(q, n) = q[h][2] + d /\ NextLine(q, n - 1) = q[h][2] + c
      BY <3>3, <3>4, <3>6, Zenon DEF NextLine
    <3>8. /\ c \in Nat
          /\ q[n][1] \in {"+", " "} => d = c + 1
          /\ q[n][1] \notin {"+", " "} => d = c
      BY <2>3, <3>5, <3>6, ShownSteps
    <3>9. q[h] \in PatchLine /\ h \in 1 .. N
      BY <1>0, <2>2, <3>4
    <3>10. q[h][2] \in Nat
      BY <3>9, PatchNumber
    <3>11. CASE q[n][1] \in {"+", " "}
      <4>1. seen[n].new_line = seen[n - 1].new_line + 1
        <5>1. DiffLine(acc, l).new_line = acc.new_line + 1
          BY <2>6, <3>11, DiffLineOf
        <5>. QED
          BY <2>6, <5>1, Zenon
      <4>2. q[h][2] + d = (q[h][2] + c) + 1
        <5>1. PICK b \in Nat : b = q[h][2]
          BY <3>10
        <5>2. c \in Nat /\ d = c + 1
          BY <3>8, <3>11, Zenon
        <5>3. b + d = (b + c) + 1
          BY <5>2
        <5>. QED
          BY <5>1, <5>3, Zenon
      <4>. QED
        BY <2>2, <3>2, <3>7, <3>8, <3>11, <4>1, <4>2
    <3>12. CASE q[n][1] \notin {"+", " "}
      <4>1. seen[n].new_line = seen[n - 1].new_line
        BY <2>6, <2>5, <3>12, DiffLineOf
      <4>. QED
        BY <2>2, <3>2, <3>7, <3>8, <3>12, <4>1
    <3>. QED
      BY <3>11, <3>12
  <2>. QED
    BY <2>4, <2>5
<1>. QED
  BY <1>2

\* The platform counts a line as added.
CountedAdded(q, N, l) == \E i \in 1 .. N : q[i][1] = "+" /\ l = LineNumber(q, i)

\* What a reading has as added is what the platform counts as added.
LEMMA ReadingAdds ==
    ASSUME NEW N, NEW q, Patch(q, N), NEW seen, Reading(seen, q, N)
    PROVE  \A n \in 0 .. N : \A l \in seen[n].added : CountedAdded(q, N, l)
<1>0. /\ N \in Nat /\ (\A n \in 1 .. N : q[n] \in PatchLine) /\ (N >= 1 => q[1][1] = "@@")
      /\ seen \in [0 .. N -> Lines] /\ seen[0] = NoLines
      /\ \A n \in 1 .. N : seen[n] = DiffLine(seen[n - 1], q[n])
  BY DEF Patch, Reading
<1>. DEFINE T == {n \in 0 .. N : \E l \in seen[n].added : ~CountedAdded(q, N, l)}
<1>1. T \subseteq Nat
  BY <1>0
<1>2. ASSUME T # {} PROVE FALSE
  <2>1. PICK n \in T : \A m \in T : n <= m
    <3>. HIDE DEF T
    <3>. QED
      BY <1>1, <1>2, LeastNatural
  <2>2. n \in 0 .. N
    OBVIOUS
  <2>3. PICK l \in seen[n].added : ~CountedAdded(q, N, l)
    OBVIOUS
  <2>4. n # 0
    BY <1>0, <2>3 DEF NoLines
  <2>5. /\ n \in 1 .. N /\ n \in Nat /\ n >= 1 /\ n - 1 \in 0 .. N /\ ~(n <= n - 1)
        /\ q[n] \in PatchLine /\ seen[n - 1] \in Lines /\ q[1][1] = "@@"
        /\ seen[n] = DiffLine(seen[n - 1], q[n])
    BY <1>0, <2>2, <2>4
  <2>6. \A k \in seen[n - 1].added : CountedAdded(q, N, k)
    BY <2>1, <2>5
  <2>. HIDE DEF T
  <2>7. l \notin seen[n - 1].added
    BY <2>3, <2>6
  <2>8. q[n][1] = "+" /\ l = seen[n - 1].new_line
    <3>1. PICK acc \in Lines, k \in PatchLine :
            acc = seen[n - 1] /\ k = q[n] /\ seen[n] = DiffLine(acc, k)
      BY <2>5
    <3>2. k[1] = "+" => DiffLine(acc, k).added = acc.added \cup {acc.new_line}
      BY DiffLineOf
    <3>3. k[1] # "+" => DiffLine(acc, k).added = acc.added
      BY DiffLineOf
    <3>. QED
      BY <2>3, <2>7, <3>1, <3>2, <3>3
  <2>9. n # 1 /\ n - 1 \in 1 .. N
    BY <2>5, <2>8
  <2>10. l = NextLine(q, n - 1)
    BY <2>8, <2>9, ReadingCounts
  <2>11. q[n][1] # "@@"
    BY <2>8
  <2>12. HunkAt(q, n) = HunkAt(q, n - 1)
    BY <1>0, <2>5, <2>11, HunkSteps
  <2>13. LineNumber(q, n) = NextLine(q, n - 1)
    BY <2>12, Zenon DEF LineNumber, NextLine, HunkAt, ShownIn
  <2>. QED
    BY <2>3, <2>5, <2>8, <2>10, <2>13 DEF CountedAdded
<1>. QED
  BY <1>2

\* What diff_lines has as added when it has read N lines.
LEMMA AddedInReading ==
    ASSUME NEW N, NEW patch, Patch(patch, N), DOMAIN patch = 1 .. N, NEW kinds, "+" \in kinds
    PROVE  ReadTo(patch, N).added \subseteq LinesOfKind(patch, kinds)
<1>1. PICK seen : Reading(seen, patch, N) /\ ReadTo(patch, N) = seen[N]
  BY DiffLinesRead
<1>2. N \in 0 .. N
  BY DEF Patch
<1>3. \A n \in 0 .. N : \A l \in seen[n].added : CountedAdded(patch, N, l)
  BY <1>1, ReadingAdds
<1>4. ASSUME NEW l \in ReadTo(patch, N).added PROVE l \in LinesOfKind(patch, kinds)
  <2>1. PICK i \in 1 .. N : patch[i][1] = "+" /\ l = LineNumber(patch, i)
    BY <1>1, <1>2, <1>3, Zenon DEF CountedAdded
  <2>. QED
    BY <2>1, Zenon DEF LinesOfKind
<1>. QED
  BY <1>4, Zenon

\* For every patch that begins with a hunk header, the lines diff_lines has as
\* added are lines the platform's own count has as added.
LEMMA AddedIsCounted ==
    ASSUME NEW patch \in Seq(PatchLine), patch # << >> => patch[1][1] = "@@",
           NEW kinds, "+" \in kinds
    PROVE  diff_lines(patch).added \subseteq LinesOfKind(patch, kinds)
<1>1. PICK N \in Nat : N = Len(patch)
  OBVIOUS
<1>2. DOMAIN patch = 1 .. N /\ Patch(patch, N)
  BY <1>1 DEF Patch
<1>3. diff_lines(patch) = ReadTo(patch, N)
  BY <1>1, DiffLinesIs, Zenon
<1>4. ReadTo(patch, N).added \subseteq LinesOfKind(patch, kinds)
  BY <1>2, AddedInReading, Zenon
<1>. QED
  BY <1>3, <1>4, Zenon

\* The line of a comment is one the patch adds.
LEMMA AnchorIsAdded ==
    ASSUME NEW f, NEW lines
    PROVE  Anchor(f, lines) \subseteq lines.added
<1>1. CASE f.line \in lines.added
  BY <1>1 DEF Anchor
<1>2. CASE f.line \in lines.all \ lines.added
  BY <1>2 DEF Anchor, nearest_added_line
<1>3. CASE f.line \notin lines.added /\ f.line \notin lines.all \ lines.added
  BY <1>3 DEF Anchor
<1>. QED
  BY <1>1, <1>2, <1>3

\* GitHub and GitLab return the patch as it is.
LEMMA DiffsOf ==
    ASSUME NEW p \in {"github", "gitlab"}, NEW h \in Heads
    PROVE  /\ DOMAIN Diffs[p][h] = DOMAIN Patches[h]
           /\ \A f \in DOMAIN Patches[h] : Diffs[p][h][f] = diff_lines(Patches[h][f])
<1>. DEFINE Seen(file_) ==
              [github    |-> github_list_changed_files(Patches[h][file_]),
               gitlab    |-> gitlab_list_changed_files(Patches[h][file_]),
               bitbucket |-> bitbucket_split_unified_diff(Patches[h][file_])][p]
<1>1. p \in Platforms
  BY DEF Platforms
<1>2. Diffs[p][h] = [file_ \in DOMAIN Patches[h] |-> diff_lines(Seen(file_))]
  BY <1>1 DEF Diffs
<1>3. ASSUME NEW file_ PROVE Seen(file_) = Patches[h][file_]
  BY DEF github_list_changed_files, gitlab_list_changed_files
<1>. HIDE DEF Seen
<1>. QED
  BY <1>2, <1>3

\* An inline comment of a payload has a file of the diff and an added line.
LEMMA InlineIsAdded ==
    ASSUME NEW F, NEW h, NEW c \in Payload(F, h).inline
    PROVE  LET diff == Diffs[world.platform][h] IN
           c.file \in DOMAIN diff /\ c.line \in diff[c.file].added
<1>. DEFINE diff == Diffs[world.platform][h]
<1>1. PICK f \in Inline(F, diff) : c = Resolved(f, diff)
  BY DEF Payload, validate
<1>2. f.file \in DOMAIN diff /\ Anchor(f, diff[f.file]) # {}
  BY DEF Inline, InScope
<1>. HIDE DEF diff
<1>3. c.file = f.file /\ c.line \in Anchor(f, diff[f.file])
  BY <1>1, <1>2 DEF Resolved
<1>4. c.line \in diff[f.file].added
  BY <1>3, AnchorIsAdded
<1>5. c.file \in DOMAIN diff /\ c.line \in diff[c.file].added
  BY <1>2, <1>3, <1>4
<1>. QED
  BY <1>5 DEF diff

\* The platform takes every comment of a review whose head has not moved.
LEMMA InvAnchors == PlatformInv => AnchorsAccepted
<1>1. SUFFICES ASSUME PlatformInv, NEW t \in Tasks, st[t] = "pending", sent[t].head = head,
                      NEW c \in sent[t].inline, world.platform \in DOMAIN TakenLines
               PROVE  LET lines == TakenLines[world.platform][head]
                      IN  c.file \in DOMAIN lines /\ c.line \in lines[c.file]
  BY DEF AnchorsAccepted, Accepts
<1>2. head \in Heads /\ sent[t] = Payload(run[t].kept, head)
  BY <1>1 DEF PlatformInv, TypeOK, ShapeOK
<1>3. PICK p \in {"github", "gitlab"} : p = world.platform
  BY <1>1 DEF TakenLines
<1>4. PICK kinds : "+" \in kinds /\ TakenLines[p] = Takes(kinds)
  <2>1. CASE p = "github"
    <3>1. TakenLines[p] = Takes({"+", " "})
      BY <2>1 DEF TakenLines
    <3>. QED
      BY <3>1
  <2>2. CASE p = "gitlab"
    <3>1. TakenLines[p] = Takes({"+"})
      BY <2>2 DEF TakenLines
    <3>. QED
      BY <3>1
  <2>. QED
    BY <2>1, <2>2
<1>5. c.file \in DOMAIN Diffs[p][head] /\ c.line \in Diffs[p][head][c.file].added
  BY <1>1, <1>2, <1>3, InlineIsAdded
<1>6. c.file \in DOMAIN Patches[head] /\ c.line \in diff_lines(Patches[head][c.file]).added
  BY <1>2, <1>5, DiffsOf
<1>7. /\ Patches[head][c.file] \in Seq(PatchLine)
      /\ Patches[head][c.file] # << >> => Patches[head][c.file][1][1] = "@@"
  BY <1>2, <1>6, PatchLines
<1>8. c.line \in LinesOfKind(Patches[head][c.file], kinds)
  BY <1>4, <1>6, <1>7, AddedIsCounted
<1>9. Takes(kinds)[head] = [f \in DOMAIN Patches[head] |-> LinesOfKind(Patches[head][f], kinds)]
  BY <1>2 DEF Takes
<1>. QED
  BY <1>3, <1>4, <1>6, <1>8, <1>9

-----------------------------------------------------------------------------
(* The theorems.                                                           *)

\* Nothing has happened yet.
LEMMA PlatformInit == Init => PlatformInv
<1>. SUFFICES ASSUME Init PROVE PlatformInv
  OBVIOUS
<1>1. /\ world \in Worlds /\ left = world.budget /\ head = 1
      /\ run = [t \in Tasks |-> NoRun] /\ st = [t \in Tasks |-> "none"]
      /\ sent = [t \in Tasks |-> NoSent]
      /\ attempts = [t \in Tasks |-> 0] /\ copies = [t \in Tasks |-> 0]
      /\ rc = "idle" /\ at = 1 /\ page = {} /\ gone = {} /\ notes = {} /\ recorded = {}
      /\ refs = {} /\ thumbs = {} /\ downed = {} /\ fed = {}
      /\ file = world.file /\ editor = [a \in Admins |-> [pc |-> "idle", snap |-> NoFile]]
  BY DEF Init
<1>2. left \in Left /\ file \in FileState /\ 1 \in Heads /\ 1 \in Tasks
  BY <1>1, WorldShape, PatchLines, Sizes DEF Tasks
<1>3. NoRun \in Run
  BY DEF NoRun, Run
<1>4. NoFile \in FileState
  BY DEF NoFile, FileState
<1>5. TypeOK
  BY <1>1, <1>2, <1>3, <1>4 DEF TypeOK, Ever
<1>6. \A t \in Tasks : run[t].found = {} /\ run[t].kept = {} /\ run[t].prior = {}
  BY <1>1 DEF NoRun
<1>7. \A t \in Tasks : ShapeOK(t)
  BY <1>1, <1>6 DEF ShapeOK
<1>8. FoundIsKept
  BY <1>6 DEF FoundIsKept
<1>9. SuppressedWasPosted
  BY <1>6 DEF SuppressedWasPosted, AtMostShown
<1>10. DeliveryOK /\ CommentsOK /\ FeedbackOK
  BY <1>1 DEF DeliveryOK, CommentsOK, FeedbackOK, Ever
<1>11. \A a \in Admins : EditorOK(a)
  BY <1>1 DEF EditorOK
<1>. QED
  BY <1>5, <1>7, <1>8, <1>9, <1>10, <1>11 DEF PlatformInv

\* A stuttering step.
LEMMA PlatformStutter ==
    ASSUME PlatformInv, UNCHANGED vars
    PROVE  PlatformInv'
<1>0. TypeOK /\ Reviews /\ DeliveryOK /\ CommentsOK /\ FeedbackOK
      /\ \A a \in Admins : EditorOK(a)
  BY DEF PlatformInv, Reviews
<1>1. /\ ConfigFrame /\ left' = left /\ SameFile
  BY DEF vars, prVars, postVars, pageVars, memoryVars, fileVars, ConfigFrame, SameFile
<1>2. left' \in Left /\ file' \in FileState /\ editor' \in [Admins -> Editor]
  BY <1>0, <1>1 DEF TypeOK, Editor, Phases, SameFile
<1>. QED
  BY <1>0, <1>1, <1>2, EditorsKept, ConfigFrameKeeps

\* Every step keeps the invariant.
LEMMA PlatformStep ==
    ASSUME PlatformInv, [Next]_vars
    PROVE  PlatformInv'
<1>1. ASSUME NEW t \in Tasks, create_task(t) \/ finalize_review(t) PROVE PlatformInv'
  BY <1>1, CreateKeeps, FinalizeKeeps
<1>2. ASSUME NEW t \in Tasks, Deliver(t) PROVE PlatformInv'
  BY <1>2, ClaimKeeps, PostKeeps, FailsKeeps, UpsertKeeps, StoreKeeps, LabelsKeep, MarkKeeps
  DEF Deliver
<1>3. CASE Poll
  BY <1>3, PollKeeps DEF Poll
<1>4. CASE Human
  BY <1>4, HumanKeeps
<1>5. CASE Crash
  BY <1>5, CrashKeeps
<1>6. CASE Configure
  BY <1>6, ReadKeeps, WriteKeeps, WriteNewKeeps, RefusalKeeps, AuthorKeeps DEF Configure
<1>7. CASE UNCHANGED vars
  BY <1>7, PlatformStutter
<1>. QED
  BY <1>1, <1>2, <1>3, <1>4, <1>5, <1>6, <1>7 DEF Next

\* The inductive invariant holds of every platform, world and number of reviews:
\* payloads are the shape of what was kept, every finding is kept by a queued
\* review, a delivery past its post has everything on the pull request.
THEOREM PlatformInvariant == Spec => []PlatformInv
  BY PlatformInit, PlatformStep, PTL DEF Spec

\* Every finding is shown by the review that kept it.
LEMMA InvNothingLost == PlatformInv => NothingLost
<1>. SUFFICES ASSUME PlatformInv, \A u \in Tasks : st[u] \in {"none", "posted"},
                     NEW t \in Tasks, NEW f \in run[t].found
              PROVE  \E u \in Tasks : Shown(u, Key(f))
  BY DEF NothingLost
<1>0. TypeOK /\ Reviews /\ DeliveryOK
  BY DEF PlatformInv, Reviews
<1>1. PICK u \in Tasks : st[u] # "none" /\ \E g \in run[u].kept : Key(g) = Key(f)
  BY <1>0 DEF Reviews, FoundIsKept, KeptSomewhere
<1>2. PICK g \in run[u].kept : Key(g) = Key(f)
  BY <1>1
<1>3. InFull(u)
  BY <1>0, <1>1 DEF DeliveryOK
<1>4. PICK K, h : K = run[u].kept /\ h = sent[u].head
  OBVIOUS
<1>5. sent[u] = Payload(K, h) /\ g \in K
  BY <1>0, <1>1, <1>4, QueuedReview
<1>6. \/ \E c \in sent[u].inline : Key(c) = Key(g)
      \/ \E d \in sent[u].body : Key(d) = Key(g)
  BY <1>5, PayloadKeys
<1>7. CASE \E c \in sent[u].inline : Key(c) = Key(g)
  BY <1>2, <1>3, <1>7 DEF InFull, OnPage, Shown
<1>8. CASE \E d \in sent[u].body : Key(d) = Key(g)
  BY <1>2, <1>3, <1>8 DEF InFull, Shown
<1>. QED
  BY <1>6, <1>7, <1>8

\* Once every queued review is delivered, each finding of each run is on the pull
\* request, across crashes, lost answers and reposts (review.rs validate and
\* dedup_against_posted, reconciler.rs deliver_review).
THEOREM NothingIsLost == Spec => []NothingLost
  BY PlatformInvariant, InvNothingLost, PTL

\* The dedup hides no more findings of a key than the reviews it compared with
\* show (review.rs dedup_against_posted).
THEOREM HiddenWasShown == Spec => []SuppressedWasPosted
<1>1. PlatformInv => SuppressedWasPosted
  BY DEF PlatformInv
<1>. QED
  BY PlatformInvariant, <1>1, PTL

\* A stored reaction is on a comment of the review that made the finding, on the
\* line the finding is on; a run has one finding there.
LEMMA InvRejected == PlatformInv => RejectedWasRejected
<1>. SUFFICES ASSUME PlatformInv, world.platform = "github", \A u \in recorded : ~Clamped(u),
                     NEW f \in rejected_findings_for_repo
              PROVE  WasRejected(f)
  BY DEF RejectedWasRejected
<1>0. TypeOK /\ Reviews /\ CommentsOK /\ FeedbackOK
  BY DEF PlatformInv, Reviews
<1>1. PICK r \in fed : r[2] \in recorded /\
         \E g \in run[r[2]].kept :
             /\ g.file = r[1].file /\ g.line = r[1].line
             /\ f = [file |-> g.file, line |-> g.line, title |-> g.title]
  BY DEF rejected_findings_for_repo
<1>2. PICK g \in run[r[2]].kept :
         /\ g.file = r[1].file /\ g.line = r[1].line
         /\ f = [file |-> g.file, line |-> g.line, title |-> g.title]
  BY <1>1
<1>3. r[1] \in Ever /\ r[2] \in Tasks /\ r[1] \in downed /\ r[1].by = r[2]
  BY <1>0 DEF TypeOK, FeedbackOK
<1>4. r[2] # 0
  BY <1>3, Sizes DEF Tasks
<1>5. PICK c \in sent[r[2]].inline :
         c.file = r[1].file /\ c.line = r[1].line /\ c.title = r[1].title
  BY <1>0, <1>3, <1>4 DEF CommentsOK
<1>6. st[r[2]] # "none"
  BY <1>0, <1>3, <1>4 DEF CommentsOK
<1>7. c \in run[r[2]].kept
  BY <1>1, <1>5 DEF Clamped
<1>8. run[r[2]].found \in world.finds /\ run[r[2]].kept \subseteq run[r[2]].found
  BY <1>0, <1>3, <1>6 DEF Reviews, ShapeOK
<1>9. c = g
  BY <1>0, <1>2, <1>5, <1>7, <1>8, WorldShape DEF TypeOK
<1>10. Key(r[1]) = Key(f)
  BY <1>2, <1>5, <1>9 DEF Key
<1>. QED
  BY <1>3, <1>4, <1>10 DEF WasRejected

\* On GitHub, where no comment was moved, a finding is given to later reviews as
\* rejected only after a thumbs-down on a comment of ours about it
\* (db/feedback.rs rejected_findings_for_repo).
THEOREM RejectionsWereMade == Spec => []RejectedWasRejected
  BY PlatformInvariant, InvRejected, PTL

\* While the head has not moved, GitHub and GitLab take the line of every inline
\* comment of a queued review, whatever the patch and the findings: the lines
\* diff_lines reads as added are the ones a count within the hunk has as added,
\* and an anchor is always one of them (review.rs diff_lines,
\* nearest_added_line, validate).
THEOREM AnchorsAreAccepted == Spec => []AnchorsAccepted
  BY PlatformInvariant, InvAnchors, PTL

\* Only the two writes end an administrator's call.
LEMMA OnlyWritesWrite ==
    ASSUME PlatformInv, [Next]_vars
    PROVE  \A a \in Admins : Writes(a) /\ ~Unguarded(a) => Keeps(a)
<1>1. CASE editor' = editor
  BY <1>1 DEF Writes
<1>2. CASE Configure
  BY <1>2, ReadKeeps, WriteKeeps, WriteNewKeeps, RefusalKeeps, AuthorKeeps DEF Configure
<1>3. ASSUME NEW t \in Tasks, create_task(t) \/ finalize_review(t) \/ Deliver(t)
      PROVE  editor' = editor
  BY <1>3 DEF create_task, finalize_review, Deliver, claim_outbox, post_review,
     post_review_fails, upsert_review, store_review_comments, add_labels, mark_outbox_posted,
     deliveryRest, fileVars
<1>4. CASE Poll
  BY <1>1, <1>4 DEF Poll, poll_comment, fileVars
<1>5. CASE Human
  BY <1>1, <1>5 DEF Human, Push, Label, React, Delete, Remark, humanRest, fileVars
<1>6. CASE Crash
  BY <1>1, <1>6 DEF Crash, deliveryRest, fileVars
<1>7. CASE UNCHANGED vars
  BY <1>1, <1>7 DEF vars, fileVars
<1>. QED
  BY <1>1, <1>2, <1>3, <1>4, <1>5, <1>6, <1>7 DEF Next

\* A guarded write of the review configuration drops no key committed after it was
\* read (http/admin.rs set_preset, platform.rs update_repo_file).
THEOREM CommittedEditsSurvive == Spec => EditsSurvive
<1>1. PlatformInv /\ [Next]_vars
        => [\A a \in Admins : Writes(a) /\ ~Unguarded(a) => Keeps(a)]_vars
  BY OnlyWritesWrite
<1>. QED
  BY PlatformInvariant, <1>1, PTL DEF Spec, EditsSurvive
=============================================================================
