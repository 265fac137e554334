------------------------------- MODULE Intake -------------------------------
(***************************************************************************)
(* Webhook intake for one pull request of one repository: the platform     *)
(* sends events, `http/webhook.rs` records each delivery, routes it and    *)
(* handles it inline in the request, and the handlers insert and cancel    *)
(* rows of `tasks`.  Requests run concurrently (Slots), may arrive out of  *)
(* order, twice, or be dropped half way when the sender hangs up.          *)
(*                                                                         *)
(* Every SQL statement and platform call of a handler is one step.  What   *)
(* the queue does with a row afterwards is TaskQueue; here a row can end   *)
(* and a review parked behind an index can be released.                    *)
(***************************************************************************)
EXTENDS Naturals, Sequences, FiniteSets, FiniteSetsExt

CONSTANTS
    MaxHeads,       \* heads the pull request goes through
    MaxAttempts,    \* MAX_ATTEMPTS of create_explicit_task
    MaxSlots,       \* requests handled at the same time
    Worlds          \* the repositories considered: settings and model bounds

ASSUME IntakeBounds == {MaxHeads, MaxAttempts, MaxSlots} \subseteq Nat \ {0}

Platforms  == {"github", "gitlab", "bitbucket"}
Strategies == {"every", "debounce", "supersede"}

\* Settings of the repository, and what the environment may still do.
Settings == [platform : Platforms, strategy : Strategies,
             review_on_pr_open : BOOLEAN, review_on_push : BOOLEAN,
             bot : BOOLEAN, draft : BOOLEAN,
             slots : 1 .. MaxSlots, fifo : BOOLEAN]
Budget == [{"pushes", "resets", "mentions", "closes", "noise", "redeliveries", "faults",
            "indexes", "denials"} -> Nat]

ASSUME WorldSet == Worlds \subseteq [settings : Settings, left : Budget]

Slots == 1 .. MaxSlots
Heads == 1 .. MaxHeads

\* What the platform reports of a pull request ("edit": an update that moves no
\* commit), of the default branch ("branch": any other branch) and of comments
\* ("chatter": the bot is not mentioned); "foreign" is a payload of another
\* project, "unsigned" one whose signature does not verify, "other" an event no
\* router knows.
PullRequestKinds == {"open", "update", "close", "edit", "foreign"}
PushKinds        == {"base", "branch"}
CommentKinds     == {"mention", "chatter"}
NoiseKinds       == {"edit", "foreign", "branch", "chatter", "unsigned", "other"}
Kinds == PullRequestKinds \cup PushKinds \cup CommentKinds \cup {"unsigned", "other"}
Event == [kind : Kinds, head : Heads]

Waiting == {"queued", "waiting_for_index"}
Status  == Waiting \cup {"done", "cancelled"}

Idle == [pc |-> "idle", d |-> 0, head |-> 0, epoch |-> 0, attempt |-> 0]

VARIABLES
    settings,       \* settings of the repository (never changes)
    left,           \* model bound on the environment
    pr,             \* the platform's view: open, and the head commit
    approved,       \* repositories.status = 'approved'
    indexing,       \* an index task of the repository is in flight
    sent,           \* events by delivery id
    received,       \* deliveries that reached the service at least once
    deliveries,     \* webhook_deliveries
    handler,        \* the request each slot is handling
    tasks,          \* tasks of the pull request, in insertion order
    skipped         \* history: deliveries dropped by a gate or a failure

platformVars == <<settings, pr, sent>>
vars == <<platformVars, left, approved, indexing, received, deliveries, handler,
          tasks, skipped>>

\* Where a request past the delivery record can be.
Working == {"route", "handle", "index", "shas", "insert", "supersede", "cancel", "max",
            "explicit"}
Handler == [pc : {"idle", "persist"} \cup Working,
            d : Nat, head : Nat, epoch : Nat, attempt : Nat]
Task == [entry : {"pr_open", "pr_sync", "mention"}, head : Heads, epoch : Nat,
         delivery : Nat, delayed : BOOLEAN, status : Status]

TypeOK ==
    /\ settings \in Settings
    /\ left \in Budget
    /\ pr \in [open : BOOLEAN, head : Heads]
    /\ approved \in BOOLEAN
    /\ indexing \in BOOLEAN
    /\ sent \in Seq(Event)
    /\ received \subseteq DOMAIN sent
    /\ deliveries \subseteq received
    /\ skipped \subseteq received
    /\ tasks \in Seq(Task)
    /\ handler \in [Slots -> Handler]

Init ==
    /\ \E w \in Worlds : settings = w.settings /\ left = w.left
    /\ pr = [open |-> TRUE, head |-> 1]
    /\ approved = TRUE
    /\ indexing = FALSE
    /\ sent = <<[kind |-> "open", head |-> 1]>>
    /\ received = {}
    /\ deliveries = {}
    /\ handler = [s \in Slots |-> Idle]
    /\ tasks = <<>>
    /\ skipped = {}

Spend(b) ==
    /\ left[b] > 0
    /\ left' = [left EXCEPT ![b] = @ - 1]

-----------------------------------------------------------------------------
(* The platform and the rest of the service.                               *)

Send(kind, head) == sent' = Append(sent, [kind |-> kind, head |-> head])

serviceVars == <<approved, indexing, received, deliveries, handler, tasks, skipped>>

\* A commit is pushed to the pull request's branch.
pr_push ==
    /\ pr.open /\ pr.head < MaxHeads
    /\ Spend("pushes")
    /\ pr' = [pr EXCEPT !.head = @ + 1]
    /\ Send("update", pr.head + 1)
    /\ UNCHANGED <<settings, serviceVars>>

\* A forced push puts an earlier commit back.
pr_reset ==
    /\ pr.open
    /\ Spend("resets")
    /\ \E h \in 1 .. pr.head - 1 : pr' = [pr EXCEPT !.head = h] /\ Send("update", h)
    /\ UNCHANGED <<settings, serviceVars>>

\* The pull request is closed (or merged: GitHub reports both as closed).
pr_close ==
    /\ pr.open
    /\ Spend("closes")
    /\ pr' = [pr EXCEPT !.open = FALSE]
    /\ Send("close", pr.head)
    /\ UNCHANGED <<settings, serviceVars>>

\* A human comments "@handle review"; the same words every time.
pr_mention ==
    /\ Spend("mentions")
    /\ Send("mention", pr.head)
    /\ UNCHANGED <<settings, pr, serviceVars>>

pr_noise ==
    /\ Spend("noise")
    /\ \E k \in NoiseKinds :
         /\ settings.platform = "github" => k # "foreign"
         /\ Send(k, pr.head)
    /\ UNCHANGED <<settings, pr, serviceVars>>

\* An administrator denies the repository.
deny ==
    /\ approved
    /\ Spend("denials")
    /\ approved' = FALSE
    /\ UNCHANGED <<platformVars, indexing, received, deliveries, handler, tasks,
                   skipped>>

\* A commit is pushed to the default branch.
base_push ==
    /\ Spend("indexes")
    /\ Send("base", pr.head)
    /\ UNCHANGED <<settings, pr, serviceVars>>

\* release_reviews_waiting_on_index.
index_ends ==
    /\ indexing
    /\ indexing' = FALSE
    /\ tasks' = [t \in DOMAIN tasks |->
                   IF tasks[t].status = "waiting_for_index"
                   THEN [tasks[t] EXCEPT !.status = "queued"] ELSE tasks[t]]
    /\ UNCHANGED <<platformVars, left, approved, received, deliveries, handler,
                   skipped>>

\* run_after passes: a debounced row becomes claimable.
quiet_period_ends(t) ==
    /\ tasks[t].delayed
    /\ tasks' = [tasks EXCEPT ![t].delayed = FALSE]
    /\ UNCHANGED <<platformVars, left, approved, indexing, received, deliveries,
                   handler, skipped>>

\* A claimable row runs to its end (TaskQueue).
run_ends(t) ==
    /\ tasks[t].status = "queued" /\ ~tasks[t].delayed
    /\ tasks' = [tasks EXCEPT ![t].status = "done"]
    /\ UNCHANGED <<platformVars, left, approved, indexing, received, deliveries,
                   handler, skipped>>

-----------------------------------------------------------------------------
(* Which events each platform's router knows.                              *)

github_route(k) ==
    CASE k \in PullRequestKinds -> "pull_request"
      [] k \in PushKinds        -> "push"
      [] k \in CommentKinds     -> "comment"
      [] OTHER                  -> "none"

gitlab_route(k) ==
    CASE k \in PullRequestKinds -> "pull_request"
      [] k \in PushKinds        -> "push"
      [] k \in CommentKinds     -> "comment"
      [] OTHER                  -> "none"

\* pullrequest:updated is in no route.
bitbucket_route(k) ==
    CASE k \in PullRequestKinds \ {"update", "edit"} -> "pull_request"
      [] k \in PushKinds        -> "push"
      [] k \in CommentKinds     -> "comment"
      [] OTHER                  -> "none"

Route(e) ==
    CASE settings.platform = "github"    -> github_route(e.kind)
      [] settings.platform = "gitlab"    -> gitlab_route(e.kind)
      [] settings.platform = "bitbucket" -> bitbucket_route(e.kind)

is_routed_event(e) == Route(e) # "none"

is_sync(e) == e.kind = "update"

Automatic(t) == tasks[t].entry \in {"pr_open", "pr_sync"}
Active(t)    == tasks[t].status \in Waiting

-----------------------------------------------------------------------------
(* One request.                                                            *)

EventOf(s) == sent[handler[s].d]

Goto(s, pc) == handler' = [handler EXCEPT ![s].pc = pc]
Finish(s)   == handler' = [handler EXCEPT ![s] = Idle]
Skip(s)     == Finish(s) /\ skipped' = skipped \cup {handler[s].d}

\* The platform posts a delivery, for the first time or again.
receive(s, d) ==
    /\ handler[s].pc = "idle" /\ s <= settings.slots
    /\ \/ /\ d \notin received
          /\ settings.fifo => \A e \in 1 .. d - 1 : e \in received
          /\ UNCHANGED left
       \/ d \in received /\ Spend("redeliveries")
    /\ received' = received \cup {d}
    /\ handler' = [handler EXCEPT ![s] = [Idle EXCEPT !.pc = "persist", !.d = d]]
    /\ UNCHANGED <<platformVars, approved, indexing, deliveries, tasks, skipped>>

stepVars == <<platformVars, left, approved, indexing, received>>

\* Wrong variant: every replica remembers deliveries in its own memory.
persist_delivery_unchecked(s) ==
    /\ handler[s].pc = "persist" /\ EventOf(s).kind # "unsigned"
    /\ IF is_routed_event(EventOf(s))
       THEN /\ deliveries' = deliveries \cup {handler[s].d}
            /\ skipped' = skipped \ {handler[s].d}
            /\ Goto(s, "route")
       ELSE Finish(s) /\ UNCHANGED <<deliveries, skipped>>
    /\ UNCHANGED <<stepVars, tasks>>

\* persist_delivery: an event no router acts on is accepted and not recorded; a
\* recorded delivery is a duplicate.
persist_delivery(s) ==
    LET d == handler[s].d IN
    /\ handler[s].pc = "persist" /\ EventOf(s).kind # "unsigned"
    /\ IF is_routed_event(EventOf(s)) /\ d \notin deliveries
       THEN /\ deliveries' = deliveries \cup {d}
            /\ skipped' = skipped \ {d}
            /\ Goto(s, "route")
       ELSE Finish(s) /\ UNCHANGED <<deliveries, skipped>>
    /\ UNCHANGED <<stepVars, tasks>>

\* A signature that does not verify, an unknown installation: refused before the
\* delivery is looked at.
verified_payload(s) ==
    /\ handler[s].pc = "persist" /\ EventOf(s).kind = "unsigned"
    /\ Finish(s)
    /\ UNCHANGED <<stepVars, deliveries, tasks, skipped>>

\* github_webhook_body: a recorded delivery goes to its handler.
route_github_event(s) ==
    /\ handler[s].pc = "route" /\ settings.platform = "github"
    /\ Goto(s, "handle")
    /\ UNCHANGED <<stepVars, deliveries, tasks, skipped>>

\* gitlab_webhook_body compares the payload's project with the one of the path
\* only now: a refused delivery is on record.
gitlab_webhook_body(s) ==
    /\ handler[s].pc = "route" /\ settings.platform = "gitlab"
    /\ IF EventOf(s).kind = "foreign" THEN Finish(s) ELSE Goto(s, "handle")
    /\ UNCHANGED <<stepVars, deliveries, tasks, skipped>>

\* bitbucket_webhook_body: the same check on the repository's name.
bitbucket_webhook_body(s) ==
    /\ handler[s].pc = "route" /\ settings.platform = "bitbucket"
    /\ IF EventOf(s).kind = "foreign" THEN Finish(s) ELSE Goto(s, "handle")
    /\ UNCHANGED <<stepVars, deliveries, tasks, skipped>>

\* The handler of slot s is the platform's handler for one kind of event.
Handling(s, platform, handled) ==
    handler[s].pc = "handle" /\ settings.platform = platform
      /\ Route(EventOf(s)) = handled

\* An action the handler returns on.
Ignored(s, actions) ==
    /\ EventOf(s).kind \notin actions
    /\ Finish(s)
    /\ UNCHANGED <<stepVars, deliveries, tasks, skipped>>

\* The close, and a review the gates let through or hold back.
ForPullRequest(s, actions, wanted) ==
    LET e == EventOf(s) IN
    /\ e.kind \in actions
    /\ \/ e.kind = "close" /\ Goto(s, "cancel") /\ UNCHANGED skipped
       \/ e.kind # "close" /\ ~(approved /\ wanted) /\ Skip(s)
       \/ /\ e.kind # "close" /\ approved /\ wanted
          /\ handler' = [handler EXCEPT ![s].pc = "insert", ![s].head = e.head]
          /\ UNCHANGED skipped
    /\ UNCHANGED <<stepVars, deliveries, tasks>>

\* handle_pull_request returns unless the action is opened or closed, so its
\* synchronize arm and the draft gate in it never run.
handle_pull_request(s) ==
    /\ Handling(s, "github", "pull_request")
    /\ \/ Ignored(s, {"open", "close"})
       \/ ForPullRequest(s, {"open", "close"},
                         ~settings.bot /\ settings.review_on_pr_open)

\* handle_gitlab_merge_request also takes an update that carries oldrev, and skips
\* drafts on open as well.
handle_gitlab_merge_request(s) ==
    /\ Handling(s, "gitlab", "pull_request")
    /\ \/ Ignored(s, {"open", "update", "close"})
       \/ ForPullRequest(s, {"open", "update", "close"},
            /\ ~settings.draft /\ ~settings.bot
            /\ IF is_sync(EventOf(s)) THEN settings.review_on_push
                                      ELSE settings.review_on_pr_open)

\* handle_bitbucket_pullrequest has no draft gate, and never sees an update.
handle_bitbucket_pullrequest(s) ==
    /\ Handling(s, "bitbucket", "pull_request")
    /\ ForPullRequest(s, {"open", "close"}, ~settings.bot /\ settings.review_on_pr_open)

\* Only a push that moves the default branch of an approved repository.
ForPush(s) ==
    /\ \/ EventOf(s).kind = "branch" /\ Finish(s) /\ UNCHANGED skipped
       \/ EventOf(s).kind = "base" /\ ~approved /\ Skip(s)
       \/ EventOf(s).kind = "base" /\ approved /\ Goto(s, "index") /\ UNCHANGED skipped
    /\ UNCHANGED <<stepVars, deliveries, tasks>>

handle_push(s)           == Handling(s, "github", "push") /\ ForPush(s)
handle_gitlab_push(s)    == Handling(s, "gitlab", "push") /\ ForPush(s)
handle_bitbucket_push(s) == Handling(s, "bitbucket", "push") /\ ForPush(s)

\* create_index_task: reviews inserted while it is in flight wait for it; a
\* second one is not created.
create_index_task(s) ==
    /\ handler[s].pc = "index"
    /\ indexing' = TRUE
    /\ Finish(s)
    /\ UNCHANGED <<platformVars, left, approved, received, deliveries, tasks, skipped>>

\* Only a mention on an approved repository; its commits come from the platform.
ForComment(s) ==
    /\ \/ EventOf(s).kind = "chatter" /\ Finish(s) /\ UNCHANGED skipped
       \/ EventOf(s).kind = "mention" /\ ~approved /\ Skip(s)
       \/ EventOf(s).kind = "mention" /\ approved /\ Goto(s, "shas") /\ UNCHANGED skipped
    /\ UNCHANGED <<stepVars, deliveries, tasks>>

handle_issue_comment(s)     == Handling(s, "github", "comment") /\ ForComment(s)
handle_gitlab_note(s)       == Handling(s, "gitlab", "comment") /\ ForComment(s)
handle_bitbucket_comment(s) == Handling(s, "bitbucket", "comment") /\ ForComment(s)

\* A comment payload has no commits: pr_shas asks the platform for the head.
pr_shas(s) ==
    /\ handler[s].pc = "shas"
    /\ handler' = [handler EXCEPT ![s].pc = "max", ![s].head = pr.head,
                                  ![s].attempt = 1]
    /\ UNCHANGED <<stepVars, deliveries, tasks, skipped>>

\* INITIAL_TASK_STATUS_SQL.
initial_status == IF indexing THEN "waiting_for_index" ELSE "queued"

InsertTask(s, entry, epoch, delayed) ==
    tasks' = Append(tasks, [entry |-> entry, head |-> handler[s].head,
                            epoch |-> epoch, delivery |-> handler[s].d,
                            delayed |-> delayed, status |-> initial_status])

\* The rows tasks_idempotency_idx compares a new one with: command_text is
\* 'review' for an automatic task, the comment for a mention.
SameKey(s, automatic) ==
    {t \in DOMAIN tasks : Automatic(t) = automatic /\ tasks[t].head = handler[s].head}

\* Wrong variant: the idempotency index leaves head_sha out.
create_task_once_per_pr(s) ==
    /\ handler[s].pc = "insert"
    /\ IF \E t \in DOMAIN tasks : Automatic(t)
       THEN Finish(s) /\ UNCHANGED tasks
       ELSE InsertTask(s, "pr_open", 0, FALSE) /\ Finish(s)
    /\ UNCHANGED <<stepVars, deliveries, skipped>>

\* create_task at epoch 0 with ON CONFLICT DO NOTHING.
create_task(s) ==
    LET e == EventOf(s) IN
    /\ handler[s].pc = "insert"
    /\ IF \E t \in SameKey(s, TRUE) : tasks[t].epoch = 0
       THEN Finish(s) /\ UNCHANGED tasks
       ELSE /\ InsertTask(s, IF is_sync(e) THEN "pr_sync" ELSE "pr_open", 0,
                          is_sync(e) /\ settings.strategy = "debounce")
            /\ IF is_sync(e) /\ settings.strategy = "supersede"
               THEN Goto(s, "supersede") ELSE Finish(s)
    /\ UNCHANGED <<stepVars, deliveries, skipped>>

Cancel(S) ==
    tasks' = [t \in DOMAIN tasks |->
                IF t \in S THEN [tasks[t] EXCEPT !.status = "cancelled"] ELSE tasks[t]]

\* Wrong variant: no filter on entry_point.
supersede_every_review(s) ==
    /\ handler[s].pc = "supersede"
    /\ Cancel({t \in DOMAIN tasks : Active(t) /\ tasks[t].head # handler[s].head})
    /\ Finish(s)
    /\ UNCHANGED <<stepVars, deliveries, skipped>>

\* Wrong variant: the statuses of cancel_active_tasks_for_pr.
supersede_dispatched_reviews(s) ==
    /\ handler[s].pc = "supersede"
    /\ Cancel({t \in DOMAIN tasks : Automatic(t) /\ tasks[t].status = "queued"
                                     /\ tasks[t].head # handler[s].head})
    /\ Finish(s)
    /\ UNCHANGED <<stepVars, deliveries, skipped>>

\* cancel_superseded_pr_reviews: every automatic run of another head.
supersede_older_reviews(s) ==
    /\ handler[s].pc = "supersede"
    /\ Cancel({t \in DOMAIN tasks :
                 Automatic(t) /\ Active(t) /\ tasks[t].head # handler[s].head})
    /\ Finish(s)
    /\ UNCHANGED <<stepVars, deliveries, skipped>>

\* cancel_active_tasks_for_pr: a review waiting for an index is left alone.
cancel_active_tasks_for_pr(s) ==
    /\ handler[s].pc = "cancel"
    /\ Cancel({t \in DOMAIN tasks : tasks[t].status = "queued"})
    /\ Finish(s)
    /\ UNCHANGED <<stepVars, deliveries, skipped>>

\* create_explicit_task, first half of its statement: the next epoch as the
\* statement's snapshot shows it.
next_epoch(s) ==
    /\ handler[s].pc = "max"
    /\ handler' = [handler EXCEPT ![s].pc = "explicit",
                     ![s].epoch = IF SameKey(s, FALSE) = {} THEN 0
                                  ELSE Max({tasks[t].epoch : t \in SameKey(s, FALSE)}) + 1]
    /\ UNCHANGED <<stepVars, deliveries, tasks, skipped>>

\* Wrong variant: a unique violation is taken for a duplicate.
create_explicit_task_once(s) ==
    LET taken == \E t \in SameKey(s, FALSE) : tasks[t].epoch = handler[s].epoch IN
    /\ handler[s].pc = "explicit"
    /\ IF taken THEN UNCHANGED tasks
                 ELSE InsertTask(s, "mention", handler[s].epoch, FALSE)
    /\ Finish(s)
    /\ UNCHANGED <<stepVars, deliveries, skipped>>

\* Second half: the insert, which a row of the same epoch refuses (23505); up to
\* MAX_ATTEMPTS statements, then the error is logged and the mention is lost.
create_explicit_task(s) ==
    LET taken == \E t \in SameKey(s, FALSE) : tasks[t].epoch = handler[s].epoch IN
    /\ handler[s].pc = "explicit"
    /\ \/ ~taken /\ InsertTask(s, "mention", handler[s].epoch, FALSE) /\ Finish(s)
       \/ /\ taken /\ handler[s].attempt < MaxAttempts
          /\ handler' = [handler EXCEPT ![s].pc = "max", ![s].attempt = @ + 1]
          /\ UNCHANGED tasks
       \/ taken /\ handler[s].attempt = MaxAttempts /\ Finish(s) /\ UNCHANGED tasks
    /\ UNCHANGED <<stepVars, deliveries, skipped>>

\* A statement or a platform call fails, or the request's future is dropped (the
\* sender hung up, the process stopped).  Steps already taken stay.
request_fails(s) ==
    /\ handler[s].pc # "idle"
    /\ Spend("faults")
    /\ Skip(s)
    /\ UNCHANGED <<platformVars, approved, indexing, received, deliveries, tasks>>

-----------------------------------------------------------------------------
Handle(s) ==
    \/ handle_pull_request(s) \/ handle_gitlab_merge_request(s)
    \/ handle_bitbucket_pullrequest(s)
    \/ handle_push(s) \/ handle_gitlab_push(s) \/ handle_bitbucket_push(s)
    \/ handle_issue_comment(s) \/ handle_gitlab_note(s) \/ handle_bitbucket_comment(s)

Request(s) ==
    \/ verified_payload(s) \/ persist_delivery(s)
    \/ route_github_event(s) \/ gitlab_webhook_body(s) \/ bitbucket_webhook_body(s)
    \/ Handle(s) \/ pr_shas(s) \/ create_index_task(s)
    \/ create_task(s) \/ supersede_older_reviews(s)
    \/ cancel_active_tasks_for_pr(s)
    \/ next_epoch(s) \/ create_explicit_task(s)

Next ==
    \/ pr_push \/ pr_reset \/ pr_close \/ pr_mention \/ pr_noise
    \/ base_push \/ deny \/ index_ends
    \/ \E t \in DOMAIN tasks : quiet_period_ends(t) \/ run_ends(t)
    \/ \E s \in Slots : Request(s) \/ request_fails(s)
    \/ \E s \in Slots, d \in DOMAIN sent : receive(s, d)

Spec == Init /\ [][Next]_vars

-----------------------------------------------------------------------------
(* Properties.                                                             *)

\* Everything sent has been received and handled.
Quiet == received = DOMAIN sent /\ \A s \in Slots : handler[s].pc = "idle"

\* One delivery makes at most one task, however often the platform sends it and
\* wherever an earlier request for it stopped.  The mention path relies on this
\* alone: create_explicit_task inserts unconditionally.
OneTaskPerDelivery ==
    \A t, u \in DOMAIN tasks : tasks[t].delivery = tasks[u].delivery => t = u

\* Every mention that passed the gates made a task, whatever mentions raced it
\* for the same epoch, as long as there are at most MAX_ATTEMPTS of them.
MentionLands ==
    Quiet /\ Cardinality({d \in DOMAIN sent : sent[d].kind = "mention"}) <= MaxAttempts =>
      \A d \in deliveries \ skipped :
        sent[d].kind = "mention" => \E t \in DOMAIN tasks : tasks[t].delivery = d

\* A push, whatever its strategy, never cancels a review a human asked for: a
\* cancelled mention implies that the pull request was closed.
PushSparesMentions ==
    \A t \in DOMAIN tasks :
      tasks[t].entry = "mention" /\ tasks[t].status = "cancelled" => ~pr.open

\* Only GitLab's handler reviews a push to the pull request.
acted_on(e) == e.kind = "open" \/ (e.kind = "update" /\ settings.platform = "gitlab")

Announces(d) == sent[d].kind \in {"open", "update"} /\ sent[d].head = pr.head

\* When the service has caught up, an open pull request's newest head has an
\* automatic review that is not cancelled, provided the handler acts on the
\* event that announced it.
NewestHeadReviewed ==
    Quiet /\ pr.open =>
      \A d \in deliveries \ skipped :
        Announces(d) /\ acted_on(sent[d]) =>
          \E t \in DOMAIN tasks :
            Automatic(t) /\ tasks[t].head = pr.head /\ tasks[t].status # "cancelled"

\* Under the supersede strategy no automatic review of an older head is left to
\* run once the push that replaced it is handled.
SupersededStops ==
    Quiet /\ settings.strategy = "supersede" =>
      \A d \in deliveries \ skipped :
        sent[d].kind = "update" /\ acted_on(sent[d]) /\ sent[d].head = pr.head =>
          \A t \in DOMAIN tasks : Automatic(t) /\ Active(t) => tasks[t].head = pr.head

-----------------------------------------------------------------------------
(* The inductive invariant behind them.                                    *)

\* What a request at each statement knows of its delivery: past the record it is
\* recorded, and until it inserts nothing was inserted for it.
RequestOK(s) ==
    LET q == handler[s] IN
    /\ q.pc # "idle" => q.d \in received
    /\ q.pc \in Working => q.d \in deliveries
    /\ q.pc \in Working \ {"supersede"} => \A t \in DOMAIN tasks : tasks[t].delivery # q.d
    /\ q.pc \in {"insert", "supersede"} =>
          sent[q.d].kind \in {"open", "update"} /\ q.head = sent[q.d].head
    /\ q.pc = "supersede" => settings.strategy = "supersede"
    /\ q.pc = "cancel" => sent[q.d].kind = "close"
    /\ q.pc = "index" => sent[q.d].kind = "base"
    /\ q.pc \in {"shas", "max", "explicit"} => sent[q.d].kind = "mention"
    /\ q.pc \in {"max", "explicit"} => q.head \in Heads /\ q.attempt \in 1 .. MaxAttempts

\* The record lets one request through.
OneRequest ==
    \A s, u \in Slots :
        handler[s].pc \in Working /\ handler[u].pc \in Working /\ handler[s].d = handler[u].d
            => s = u

\* A task comes from a recorded delivery of its kind; only a close, or a
\* superseding push to an automatic review, cancels it.
TaskOK(t) ==
    /\ tasks[t].delivery \in deliveries
    /\ tasks[t].entry = "mention" <=> sent[tasks[t].delivery].kind = "mention"
    /\ tasks[t].status = "cancelled" =>
          ~pr.open \/ (tasks[t].entry # "mention" /\ settings.strategy = "supersede")

ClosedStays == \A d \in DOMAIN sent : sent[d].kind = "close" => ~pr.open

\* The mentions of head h have taken the epochs below n.
Reached(h, n) ==
    \A e \in 0 .. n - 1 :
        \E t \in DOMAIN tasks :
            tasks[t].entry = "mention" /\ tasks[t].head = h /\ tasks[t].epoch = e

\* Epochs are taken without gaps, and each attempt of create_explicit_task that
\* is refused found one more taken.
TaskEpochOK(t) ==
    tasks[t].entry = "mention" => tasks[t].epoch < t /\ Reached(tasks[t].head, tasks[t].epoch)

RequestEpochOK(s) ==
    /\ handler[s].pc = "max" => Reached(handler[s].head, handler[s].attempt - 1)
    /\ handler[s].pc = "explicit" =>
          /\ handler[s].epoch \in handler[s].attempt - 1 .. Len(tasks)
          /\ Reached(handler[s].head, handler[s].epoch)

\* A request is on its way to the insert of delivery d.
InProgress(d) ==
    \E s \in Slots : handler[s].d = d /\ handler[s].pc \in Working \ {"supersede"}

\* A mention has its task or lost MAX_ATTEMPTS races; an announced head has an
\* automatic task, its own or the one the insert found.
Answered(d) ==
    /\ sent[d].kind = "mention" => \/ \E t \in DOMAIN tasks : tasks[t].delivery = d
                                  \/ \E h \in Heads : Reached(h, MaxAttempts)
    /\ acted_on(sent[d]) => \E t \in DOMAIN tasks :
                                tasks[t].entry # "mention" /\ tasks[t].head = sent[d].head

\* A recorded delivery that was not dropped is on its way or answered.
Handled == \A d \in deliveries \ skipped : InProgress(d) \/ Answered(d)

IntakeInv ==
    /\ TypeOK
    /\ \A s \in Slots : RequestOK(s) /\ RequestEpochOK(s)
    /\ OneRequest
    /\ \A t \in DOMAIN tasks : TaskOK(t) /\ TaskEpochOK(t)
    /\ OneTaskPerDelivery
    /\ ClosedStays
    /\ Handled

-----------------------------------------------------------------------------
(* What superseding pushes need besides: requests one at a time, in the    *)
(* order of their events.                                                  *)

\* No commit is put back, and no request lost before its record is sent again
\* behind a later one.
Serially ==
    /\ settings.slots = 1 /\ settings.fifo
    /\ left.resets = 0
    /\ left.redeliveries = 0 \/ left.faults = 0

Heading(d) == sent[d].kind \in {"open", "update"}

\* Every push announces a head above the ones before, up to the newest.
HeadsRise ==
    \A d \in DOMAIN sent :
        Heading(d) => /\ sent[d].head <= pr.head
                      /\ \A e \in 1 .. d - 1 : Heading(e) => sent[e].head < sent[d].head

\* The delivery a request may still record or has recorded is the last received.
Newest(s) ==
    \/ handler[s].pc \in Working
    \/ /\ handler[s].pc = "persist" /\ handler[s].d \notin deliveries
       /\ is_routed_event(EventOf(s))

InOrder ==
    /\ \A d \in received : 1 .. d \subseteq received
    /\ \A s \in Slots :
         /\ handler[s].pc # "idle" => s = 1
         /\ Newest(s) => \A d \in received : d <= handler[s].d

\* While a delivery may be sent again, only one on its way is not on record.
OnRecord ==
    left.redeliveries > 0 =>
        \A d \in received : \/ d \in deliveries \/ ~is_routed_event(sent[d])
                            \/ \E s \in Slots : handler[s].pc = "persist" /\ handler[s].d = d

\* An automatic review is of the head its delivery announced, and is cancelled
\* for a close or a newer head.
ReviewsHead ==
    \A t \in DOMAIN tasks :
        Automatic(t) => /\ Heading(tasks[t].delivery)
                        /\ tasks[t].head = sent[tasks[t].delivery].head
                        /\ tasks[t].status = "cancelled" => ~pr.open \/ tasks[t].head < pr.head

\* A push is on its way, or no automatic review of an older head is left to run.
Superseded(d) ==
    \/ \E s \in Slots : handler[s].d = d /\ handler[s].pc \in Working
    \/ \A t \in DOMAIN tasks : Automatic(t) /\ Active(t) => sent[d].head <= tasks[t].head

SerialInv ==
    /\ Serially
    /\ HeadsRise
    /\ InOrder
    /\ OnRecord
    /\ ReviewsHead
    /\ settings.strategy = "supersede" =>
         \A d \in deliveries \ skipped :
             sent[d].kind = "update" /\ acted_on(sent[d]) => Superseded(d)

-----------------------------------------------------------------------------
\* Disagreements with the comments (each has a configuration of its own).

\* "`synchronize` -> a review of the new commits, gated on review_on_push".
PushIsReviewed ==
    Quiet /\ pr.open =>
      \A d \in deliveries \ skipped :
        Announces(d) =>
          \E t \in DOMAIN tasks : Automatic(t) /\ tasks[t].head = pr.head

\* "used when the PR is closed so its work stops": after the close was handled
\* no review of the pull request is left to run.
ClosedStopsWork ==
    Quiet =>
      \A d \in deliveries \ skipped :
        sent[d].kind = "close" => \A t \in DOMAIN tasks : ~(Automatic(t) /\ Active(t))

\* "it must ALWAYS create a task": a mention whose redeliveries were all
\* answered made a task, although an earlier request for it was dropped.
MentionSurvivesDrop ==
    Quiet =>
      \A d \in deliveries :
        sent[d].kind = "mention" /\ left.redeliveries = 0 /\ approved
          => \E t \in DOMAIN tasks : tasks[t].delivery = d

=============================================================================
