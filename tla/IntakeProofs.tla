---------------------------- MODULE IntakeProofs ----------------------------
(***************************************************************************)
(* Proofs about webhook intake (Intake.tla), for every number of slots,    *)
(* heads and attempts and every set of worlds.                             *)
(*                                                                         *)
(* The actions are first summarised as eight moves: what the platform does *)
(* (Outside), what the queue does to a row (Touched), and what a request   *)
(* does to its delivery (Received, Recorded, Left, Forward, Inserted,      *)
(* Swept).  Each part of IntakeInv is then kept by every move.             *)
(***************************************************************************)
EXTENDS Intake, SequenceTheorems, FiniteSetTheorems, WellFoundedInduction, TLAPS

-----------------------------------------------------------------------------
(* Extremes of sets of naturals.                                           *)

\* A non-empty set of naturals has a least element.
LEMMA LeastNatural ==
    ASSUME NEW T, T \subseteq Nat, T # {}
    PROVE  \E m \in T : \A y \in T : m <= y
<1>. DEFINE R == {ss \in Nat \X Nat : ss[1] < ss[2]}
<1>1. IsWellFoundedOn(R, Nat)
  BY NatLessThanWellFounded, Zenon DEF OpToRel
<1>2. \A x, y \in Nat : x < y => <<x, y>> \in R
  OBVIOUS
<1>. HIDE DEF R
<1>3. PICK m \in T : \A y \in T : ~(<<y, m>> \in R)
  BY <1>1, WFMin
<1>4. \A y \in T : ~(y < m)
  BY <1>2, <1>3, Zenon
<1>. QED
  BY <1>3, <1>4

\* A non-empty bounded set of naturals has a maximum.
LEMMA MaxOfBounded ==
    ASSUME NEW S, S \subseteq Nat, S # {}, NEW n \in Nat, \A x \in S : x <= n
    PROVE  Max(S) \in S /\ \A x \in S : x <= Max(S)
<1>. DEFINE T == {k \in Nat : n - k \in S}
<1>1. T \subseteq Nat
  OBVIOUS
<1>2. \A x \in S : n - x \in T /\ n - (n - x) = x
  OBVIOUS
<1>3. PICK m \in T : \A y \in T : m <= y
  <2>1. T # {}
    BY <1>2
  <2>. HIDE DEF T
  <2>. QED
    BY <1>1, <2>1, LeastNatural
<1>4. n - m \in S /\ m \in Nat
  BY <1>3
<1>5. \A y \in S : y <= n - m
  <2>. HIDE DEF T
  <2>. QED
    BY <1>2, <1>3, <1>4
<1>. QED
  BY <1>4, <1>5 DEF Max

-----------------------------------------------------------------------------
(* Types.                                                                  *)

\* Spending keeps the bounds typed.
LEMMA SpendTypes ==
    ASSUME left \in Budget, NEW b, Spend(b)
    PROVE  left' \in Budget
<1>1. CASE b \in {"pushes", "resets", "mentions", "closes", "noise", "redeliveries", "faults",
                  "indexes", "denials"}
  BY <1>1 DEF Spend, Budget
<1>2. CASE ~(b \in {"pushes", "resets", "mentions", "closes", "noise", "redeliveries", "faults",
                  "indexes", "denials"})
  BY <1>2 DEF Spend, Budget
<1>. QED
  BY <1>1, <1>2

\* Sending appends one event and keeps the ones before.
LEMMA SendTypes ==
    ASSUME sent \in Seq(Event), NEW k \in Kinds, NEW h \in Heads, Send(k, h)
    PROVE  /\ sent' \in Seq(Event)
           /\ DOMAIN sent \subseteq DOMAIN sent'
           /\ \A d \in DOMAIN sent : sent'[d] = sent[d]
           /\ \A d \in DOMAIN sent' : d \in DOMAIN sent \/ sent'[d].kind = k
<1>1. [kind |-> k, head |-> h] \in Event
  BY DEF Event
<1>2. /\ sent' \in Seq(Event) /\ Len(sent') = Len(sent) + 1
      /\ sent'[Len(sent) + 1] = [kind |-> k, head |-> h]
      /\ \A d \in 1 .. Len(sent) : sent'[d] = sent[d]
  BY <1>1, AppendProperties DEF Send
<1>3. DOMAIN sent' = 1 .. Len(sent') /\ DOMAIN sent = 1 .. Len(sent) /\ Len(sent) \in Nat
  BY <1>2
<1>. QED
  BY <1>2, <1>3

\* What the platform and its users do: nothing of the service moves.
Outside ==
    /\ UNCHANGED <<settings, indexing, received, deliveries, handler, tasks, skipped>>
    /\ sent' \in Seq(Event) /\ pr' \in [open : BOOLEAN, head : Heads]
    /\ left' \in Budget /\ approved' \in BOOLEAN
    /\ DOMAIN sent \subseteq DOMAIN sent'
    /\ \A d \in DOMAIN sent : sent'[d] = sent[d]
    /\ pr'.open => pr.open
    /\ \A d \in DOMAIN sent' : d \in DOMAIN sent \/ sent'[d].kind # "close" \/ ~pr'.open

\* The steps of the platform, its users and the administrator are such steps.
LEMMA OutsideSteps ==
    ASSUME TypeOK,
           \/ pr_push \/ pr_reset \/ pr_close \/ pr_mention \/ pr_noise \/ base_push \/ deny
    PROVE  Outside
<1>. USE DEF serviceVars, platformVars
<1>0. /\ left \in Budget /\ sent \in Seq(Event) /\ pr \in [open : BOOLEAN, head : Heads]
      /\ pr.head \in Heads /\ pr.open \in BOOLEAN /\ approved \in BOOLEAN
  BY DEF TypeOK
<1>1. NoiseKinds \subseteq Kinds /\ "update" \in Kinds /\ "close" \in Kinds /\ "mention" \in Kinds
      /\ "base" \in Kinds /\ "close" \notin NoiseKinds
  BY DEF NoiseKinds, Kinds, PullRequestKinds, PushKinds, CommentKinds
<1>2. CASE pr_push
  <2>1. pr.head + 1 \in Heads
    BY <1>0, <1>2, IntakeBounds DEF pr_push, Heads
  <2>2. pr' \in [open : BOOLEAN, head : Heads] /\ pr'.open = pr.open
    BY <1>0, <1>2, <2>1 DEF pr_push
  <2>. QED
    BY <1>0, <1>1, <1>2, <2>1, <2>2, SpendTypes, SendTypes DEF pr_push, Outside
<1>3. CASE pr_reset
  <2>1. PICK h \in 1 .. pr.head - 1 : pr' = [pr EXCEPT !.head = h] /\ Send("update", h)
    BY <1>3 DEF pr_reset
  <2>2. h \in Heads
    BY <1>0, <2>1, IntakeBounds DEF Heads
  <2>3. pr' \in [open : BOOLEAN, head : Heads] /\ pr'.open = pr.open
    BY <1>0, <2>1, <2>2
  <2>. QED
    BY <1>0, <1>1, <1>3, <2>1, <2>2, <2>3, SpendTypes, SendTypes DEF pr_reset, Outside
<1>4. CASE pr_close
  <2>1. pr' \in [open : BOOLEAN, head : Heads] /\ ~pr'.open
    BY <1>0, <1>4 DEF pr_close
  <2>. QED
    BY <1>0, <1>1, <1>4, <2>1, SpendTypes, SendTypes DEF pr_close, Outside
<1>5. CASE pr_mention \/ base_push
  BY <1>0, <1>1, <1>5, SpendTypes, SendTypes DEF pr_mention, base_push, Outside
<1>6. CASE pr_noise
  <2>1. PICK k \in NoiseKinds : Send(k, pr.head)
    BY <1>6 DEF pr_noise
  <2>. QED
    BY <1>0, <1>1, <1>6, <2>1, SpendTypes, SendTypes DEF pr_noise, Outside
<1>7. CASE deny
  BY <1>0, <1>7, SpendTypes DEF deny, Outside
<1>. QED
  BY <1>2, <1>3, <1>4, <1>5, <1>6, <1>7

-----------------------------------------------------------------------------
(* The moves.                                                              *)

\* The rows only gain rows and change in delayed and status.
Grows ==
    /\ tasks' \in Seq(Task)
    /\ DOMAIN tasks \subseteq DOMAIN tasks'
    /\ \A t \in DOMAIN tasks :
         /\ tasks'[t].entry = tasks[t].entry /\ tasks'[t].head = tasks[t].head
         /\ tasks'[t].epoch = tasks[t].epoch /\ tasks'[t].delivery = tasks[t].delivery

\* A status that became "cancelled" did so for a close or a superseding push.
CancelsJustified ==
    \A t \in DOMAIN tasks :
        tasks'[t].status = "cancelled" =>
            \/ tasks[t].status = "cancelled" \/ ~pr.open
            \/ tasks[t].entry # "mention" /\ settings.strategy = "supersede"

\* What the queue does to rows; no request moves.
Touched ==
    /\ UNCHANGED <<settings, pr, sent, left, approved, received, deliveries, handler, skipped>>
    /\ indexing' \in BOOLEAN
    /\ Grows /\ DOMAIN tasks' = DOMAIN tasks /\ CancelsJustified

\* Rows that change pointwise in delayed and status.
LEMMA PointwiseGrows ==
    ASSUME tasks \in Seq(Task),
           DOMAIN tasks' = DOMAIN tasks, tasks' = [t \in DOMAIN tasks |-> tasks'[t]],
           \A t \in DOMAIN tasks :
               \/ tasks'[t] = tasks[t]
               \/ \E st \in Status : tasks'[t] = [tasks[t] EXCEPT !.status = st]
               \/ tasks'[t] = [tasks[t] EXCEPT !.delayed = FALSE]
    PROVE  Grows /\ DOMAIN tasks' = DOMAIN tasks
<1>1. \A t \in DOMAIN tasks : tasks[t] \in Task
  OBVIOUS
<1>2. ASSUME NEW t \in DOMAIN tasks
      PROVE  /\ tasks'[t] \in Task
             /\ tasks'[t].entry = tasks[t].entry /\ tasks'[t].head = tasks[t].head
             /\ tasks'[t].epoch = tasks[t].epoch /\ tasks'[t].delivery = tasks[t].delivery
  <2>1. tasks[t] \in Task
    BY <1>1
  <2>. QED
    BY <2>1 DEF Task, Status
<1>3. DOMAIN tasks' = 1 .. Len(tasks) /\ Len(tasks) \in Nat
  OBVIOUS
<1>4. tasks' \in Seq(Task)
  BY <1>2, <1>3, IsASeq
<1>. QED
  BY <1>2, <1>4 DEF Grows

\* The queue's own steps.
LEMMA TouchSteps ==
    ASSUME TypeOK,
           index_ends \/ \E t \in DOMAIN tasks : quiet_period_ends(t) \/ run_ends(t)
    PROVE  Touched
<1>0. tasks \in Seq(Task) /\ indexing \in BOOLEAN /\ \A t \in DOMAIN tasks : tasks[t] \in Task
  BY DEF TypeOK
<1>1. CASE index_ends
  <2>1. \A t \in DOMAIN tasks :
           tasks'[t] = tasks[t] \/ tasks'[t] = [tasks[t] EXCEPT !.status = "queued"]
    BY <1>1 DEF index_ends
  <2>2. DOMAIN tasks' = DOMAIN tasks /\ tasks' = [t \in DOMAIN tasks |-> tasks'[t]]
    BY <1>1 DEF index_ends
  <2>3. "queued" \in Status
    BY DEF Status, Waiting
  <2>4. Grows /\ DOMAIN tasks' = DOMAIN tasks
    BY <1>0, <2>1, <2>2, <2>3, PointwiseGrows
  <2>5. CancelsJustified
    BY <1>0, <2>1 DEF CancelsJustified, Task
  <2>. QED
    BY <1>1, <2>4, <2>5 DEF index_ends, Touched, platformVars
<1>2. CASE \E t \in DOMAIN tasks : quiet_period_ends(t) \/ run_ends(t)
  <2>1. PICK t \in DOMAIN tasks : quiet_period_ends(t) \/ run_ends(t)
    BY <1>2
  <2>2. \A u \in DOMAIN tasks :
           \/ tasks'[u] = tasks[u] \/ tasks'[u] = [tasks[u] EXCEPT !.status = "done"]
           \/ tasks'[u] = [tasks[u] EXCEPT !.delayed = FALSE]
    BY <1>0, <2>1 DEF quiet_period_ends, run_ends
  <2>3. DOMAIN tasks' = DOMAIN tasks /\ tasks' = [u \in DOMAIN tasks |-> tasks'[u]]
    BY <1>0, <2>1 DEF quiet_period_ends, run_ends
  <2>4. "done" \in Status
    BY DEF Status, Waiting
  <2>5. Grows /\ DOMAIN tasks' = DOMAIN tasks
    BY <1>0, <2>2, <2>3, <2>4, PointwiseGrows
  <2>6. CancelsJustified
    <3>1. ASSUME NEW u \in DOMAIN tasks, tasks'[u].status = "cancelled"
          PROVE  tasks[u].status = "cancelled"
      <4>1. tasks[u] \in Task
        BY <1>0
      <4>. QED
        BY <2>2, <3>1, <4>1 DEF Task
    <3>. QED
      BY <3>1 DEF CancelsJustified
  <2>. QED
    BY <1>0, <2>1, <2>5, <2>6 DEF quiet_period_ends, run_ends, Touched, platformVars
<1>. QED
  BY <1>1, <1>2

\* Only slot s moves.
Elsewhere(s) ==
    /\ UNCHANGED <<settings, pr, sent>>
    /\ left' \in Budget /\ approved' \in BOOLEAN /\ indexing' \in BOOLEAN
    /\ handler' \in [Slots -> Handler]
    /\ \A u \in Slots \ {s} : handler'[u] = handler[u]

\* A delivery arrives.
Received(s) ==
    /\ Elsewhere(s) /\ UNCHANGED <<deliveries, tasks, skipped>>
    /\ received \subseteq received' /\ received' \subseteq DOMAIN sent
    /\ handler[s].pc = "idle" /\ handler'[s].pc = "persist" /\ handler'[s].d \in received'

\* It is recorded.
Recorded(s) ==
    LET d == handler[s].d IN
    /\ Elsewhere(s) /\ UNCHANGED <<received, tasks>>
    /\ handler[s].pc = "persist" /\ d \notin deliveries
    /\ deliveries' = deliveries \cup {d} /\ skipped' = skipped \ {d}
    /\ handler'[s].pc = "route" /\ handler'[s].d = d

\* The request ends without a row: before the record, dropped, or answered.
Left(s) ==
    /\ Elsewhere(s) /\ UNCHANGED <<received, deliveries, tasks>>
    /\ handler[s].pc # "idle" /\ handler'[s] = Idle
    /\ \/ skipped' = skipped \cup {handler[s].d}
       \/ skipped' = skipped /\ (handler[s].pc = "persist" \/ Answered(handler[s].d))

\* It goes on to the next statement.
Forward(s) ==
    /\ Elsewhere(s) /\ UNCHANGED <<received, deliveries, tasks, skipped>>
    /\ handler[s].pc \in Working \ {"supersede"} /\ handler'[s].pc \in Working \ {"supersede"}
    /\ handler'[s].d = handler[s].d
    /\ RequestOK(s)' /\ RequestEpochOK(s)'

\* It inserts its row.
Inserted(s, row) ==
    LET d == handler[s].d IN
    /\ Elsewhere(s) /\ UNCHANGED <<received, deliveries, skipped>>
    /\ handler[s].pc \in {"insert", "explicit"}
    /\ row \in Task /\ tasks' = Append(tasks, row)
    /\ row.delivery = d /\ row.status # "cancelled"
    /\ row.entry = "mention" => /\ sent[d].kind = "mention"
                                /\ row.epoch <= Len(tasks) /\ Reached(row.head, row.epoch)
    /\ row.entry # "mention" => sent[d].kind # "mention" /\ row.head = sent[d].head
    /\ \/ handler'[s] = Idle
       \/ /\ handler'[s].pc = "supersede" /\ settings.strategy = "supersede"
          /\ handler'[s].d = d /\ sent[d].kind \in {"open", "update"}
          /\ handler'[s].head = sent[d].head

\* It cancels rows.
Swept(s) ==
    /\ Elsewhere(s) /\ UNCHANGED <<received, deliveries, skipped>>
    /\ handler[s].pc \in {"supersede", "cancel"} /\ handler'[s] = Idle
    /\ Grows /\ DOMAIN tasks' = DOMAIN tasks /\ CancelsJustified

\* The record a slot is left with.
LEMMA SetHandler ==
    ASSUME handler \in [Slots -> Handler], NEW s \in Slots, NEW h \in Handler,
           handler' = [handler EXCEPT ![s] = h]
    PROVE  /\ handler' \in [Slots -> Handler] /\ handler'[s] = h
           /\ \A u \in Slots \ {s} : handler'[u] = handler[u]
  OBVIOUS

\* What a slot that handles nothing holds.
LEMMA IdleHandler == Idle \in Handler /\ Idle.pc = "idle"
  BY DEF Idle, Handler

\* Finish: the slot is idle, the others are left alone.
LEMMA FinishStep ==
    ASSUME handler \in [Slots -> Handler], NEW s \in Slots, Finish(s)
    PROVE  /\ handler' \in [Slots -> Handler] /\ handler'[s] = Idle
           /\ \A u \in Slots \ {s} : handler'[u] = handler[u]
  BY IdleHandler, SetHandler DEF Finish

\* Goto: the slot keeps its delivery and what it read.
LEMMA GotoStep ==
    ASSUME handler \in [Slots -> Handler], NEW s \in Slots, NEW pc \in Working, Goto(s, pc)
    PROVE  /\ handler' \in [Slots -> Handler]
           /\ handler'[s].pc = pc /\ handler'[s].d = handler[s].d
           /\ handler'[s].head = handler[s].head /\ handler'[s].epoch = handler[s].epoch
           /\ handler'[s].attempt = handler[s].attempt
           /\ \A u \in Slots \ {s} : handler'[u] = handler[u]
<1>1. handler[s] \in Handler
  OBVIOUS
<1>2. [handler[s] EXCEPT !.pc = pc] \in Handler
  BY <1>1 DEF Handler
<1>3. handler' = [handler EXCEPT ![s] = [handler[s] EXCEPT !.pc = pc]]
  BY DEF Goto
<1>4. /\ handler' \in [Slots -> Handler] /\ handler'[s] = [handler[s] EXCEPT !.pc = pc]
      /\ \A u \in Slots \ {s} : handler'[u] = handler[u]
  BY <1>2, <1>3, SetHandler
<1>. QED
  BY <1>1, <1>4 DEF Handler

\* The type facts the step lemmas use.
LEMMA Types ==
    ASSUME TypeOK
    PROVE  /\ settings \in Settings /\ left \in Budget /\ approved \in BOOLEAN
           /\ indexing \in BOOLEAN /\ sent \in Seq(Event) /\ tasks \in Seq(Task)
           /\ handler \in [Slots -> Handler] /\ received \subseteq DOMAIN sent
           /\ deliveries \subseteq received /\ skipped \subseteq received
           /\ pr \in [open : BOOLEAN, head : Heads]
           /\ DOMAIN sent \subseteq Nat /\ \A d \in DOMAIN sent : sent[d] \in Event
           /\ \A s \in Slots : handler[s] \in Handler
           /\ \A t \in DOMAIN tasks : tasks[t] \in Task
  BY DEF TypeOK

\* receive.
LEMMA ReceiveStep ==
    ASSUME TypeOK, NEW s \in Slots, NEW d \in DOMAIN sent, receive(s, d)
    PROVE  Received(s)
<1>1. [Idle EXCEPT !.pc = "persist", !.d = d] \in Handler
  BY Types DEF Idle, Handler
<1>2. /\ [Idle EXCEPT !.pc = "persist", !.d = d].pc = "persist"
      /\ [Idle EXCEPT !.pc = "persist", !.d = d].d = d
  BY DEF Idle
<1>3. left' \in Budget
  BY Types, SpendTypes DEF receive
<1>4. handler[s].pc = "idle" /\ received' = received \cup {d}
      /\ handler' = [handler EXCEPT ![s] = [Idle EXCEPT !.pc = "persist", !.d = d]]
      /\ UNCHANGED <<settings, pr, sent, approved, indexing, deliveries, tasks, skipped>>
  BY DEF receive, platformVars
<1>5. /\ handler' \in [Slots -> Handler]
      /\ handler'[s] = [Idle EXCEPT !.pc = "persist", !.d = d]
      /\ \A u \in Slots \ {s} : handler'[u] = handler[u]
  BY <1>1, <1>4, SetHandler, Types
<1>. QED
  BY <1>2, <1>3, <1>4, <1>5, Types DEF Received, Elsewhere

\* Up to the record.
LEMMA RecordSteps ==
    ASSUME TypeOK, NEW s \in Slots, verified_payload(s) \/ persist_delivery(s)
    PROVE  Recorded(s) \/ Left(s)
<1>. USE DEF stepVars, platformVars
<1>1. CASE verified_payload(s)
  BY <1>1, Types, FinishStep DEF verified_payload, Left, Elsewhere
<1>2. CASE persist_delivery(s) /\ Finish(s) /\ UNCHANGED <<deliveries, skipped>>
  BY <1>2, Types, FinishStep DEF persist_delivery, Left, Elsewhere
<1>3. CASE /\ persist_delivery(s) /\ handler[s].d \notin deliveries /\ Goto(s, "route")
           /\ deliveries' = deliveries \cup {handler[s].d}
           /\ skipped' = skipped \ {handler[s].d}
  <2>1. "route" \in Working
    BY DEF Working
  <2>. QED
    BY <1>3, <2>1, Types, GotoStep DEF persist_delivery, Recorded, Elsewhere
<1>. QED
  BY <1>1, <1>2, <1>3, Zenon DEF persist_delivery

\* request_fails: the delivery counts as dropped.
LEMMA FailStep ==
    ASSUME TypeOK, NEW s \in Slots, request_fails(s)
    PROVE  Left(s)
  BY Types, SpendTypes, FinishStep DEF request_fails, Skip, Left, Elsewhere, platformVars

-----------------------------------------------------------------------------
(* The actions of a request are moves.                                     *)

\* Only an event of a pull request reaches a pull request's handler.
LEMMA RoutedKinds ==
    ASSUME settings.platform \in Platforms, NEW e \in Event, Route(e) = "pull_request"
    PROVE  e.kind \in PullRequestKinds
<1>1. CASE settings.platform = "github"
  BY <1>1 DEF Route, github_route
<1>2. CASE settings.platform = "gitlab"
  BY <1>2 DEF Route, gitlab_route
<1>3. CASE settings.platform = "bitbucket"
  BY <1>3 DEF Route, bitbucket_route
<1>. QED
  BY <1>1, <1>2, <1>3 DEF Platforms

\* An event that asks for no review needs no task.
LEMMA NothingToAnswer ==
    ASSUME NEW d, sent[d].kind # "mention", ~acted_on(sent[d])
    PROVE  Answered(d)
  BY DEF Answered

\* A request goes on when its next statement suits the event.
LEMMA ForwardPlain ==
    ASSUME NEW s \in Slots, RequestOK(s), Elsewhere(s),
           UNCHANGED <<received, deliveries, tasks, skipped>>,
           handler[s].pc \in Working \ {"supersede"}, handler'[s].d = handler[s].d,
           \/ handler'[s].pc = "handle"
           \/ handler'[s].pc = "index" /\ EventOf(s).kind = "base"
           \/ handler'[s].pc = "cancel" /\ EventOf(s).kind = "close"
           \/ handler'[s].pc = "shas" /\ EventOf(s).kind = "mention"
           \/ /\ handler'[s].pc = "insert" /\ EventOf(s).kind \in {"open", "update"}
              /\ handler'[s].head = EventOf(s).head
    PROVE  Forward(s)
<1>1. handler'[s].pc \in Working \ {"supersede"}
  BY DEF Working
<1>2. RequestOK(s)'
  <2>1. handler[s].d \in received /\ handler[s].d \in deliveries
        /\ \A t \in DOMAIN tasks : tasks[t].delivery # handler[s].d
    BY DEF RequestOK, Working
  <2>. QED
    BY <2>1 DEF RequestOK, Elsewhere, EventOf
<1>3. RequestEpochOK(s)'
  BY DEF RequestEpochOK
<1>. QED
  BY <1>1, <1>2, <1>3 DEF Forward

\* From the record to the handler.
LEMMA RouteSteps ==
    ASSUME TypeOK, NEW s \in Slots, RequestOK(s),
           route_github_event(s) \/ gitlab_webhook_body(s) \/ bitbucket_webhook_body(s)
    PROVE  Forward(s) \/ Left(s)
<1>. USE DEF stepVars, platformVars
<1>0. "handle" \in Working /\ "route" \in Working \ {"supersede"}
  BY DEF Working
<1>1. /\ handler[s].pc = "route"
      /\ UNCHANGED <<settings, pr, sent, left, approved, indexing, received, deliveries,
                     tasks, skipped>>
      /\ Goto(s, "handle") \/ (Finish(s) /\ EventOf(s).kind = "foreign")
  BY DEF route_github_event, gitlab_webhook_body, bitbucket_webhook_body
<1>2. CASE Goto(s, "handle")
  <2>1. Elsewhere(s) /\ handler'[s].d = handler[s].d /\ handler'[s].pc = "handle"
    BY <1>0, <1>1, <1>2, Types, GotoStep DEF Elsewhere
  <2>. QED
    BY <1>0, <1>1, <2>1, ForwardPlain
<1>3. CASE Finish(s) /\ EventOf(s).kind = "foreign"
  <2>1. Answered(handler[s].d)
    BY <1>3, NothingToAnswer DEF EventOf, acted_on
  <2>2. Elsewhere(s) /\ handler'[s] = Idle
    BY <1>1, <1>3, Types, FinishStep DEF Elsewhere
  <2>. QED
    BY <1>1, <2>1, <2>2 DEF Left
<1>. QED
  BY <1>1, <1>2, <1>3

\* The handlers.  A delivery is dropped by a gate, answered by nothing because
\* it asks for nothing, or goes on.
LEMMA HandleSteps ==
    ASSUME TypeOK, NEW s \in Slots, RequestOK(s), Handle(s)
    PROVE  Forward(s) \/ Left(s)
<1>. USE DEF stepVars, platformVars
<1>. DEFINE d == handler[s].d
            e == EventOf(s)
            Same == UNCHANGED <<settings, pr, sent, left, approved, indexing, received,
                                deliveries, tasks>>
<1>0. "handle" \in Working \ {"supersede"} /\ {"cancel", "index", "shas", "insert"} \subseteq Working
  BY DEF Working
<1>1. handler[s].pc = "handle"
  BY DEF Handle, handle_pull_request, handle_gitlab_merge_request,
         handle_bitbucket_pullrequest, handle_push, handle_gitlab_push,
         handle_bitbucket_push, handle_issue_comment, handle_gitlab_note,
         handle_bitbucket_comment, Handling
<1>2. d \in DOMAIN sent /\ e \in Event /\ settings.platform \in Platforms
  <2>1. d \in received
    BY <1>1 DEF RequestOK
  <2>. QED
    BY <2>1, Types DEF EventOf, Settings
<1>3. /\ Same
      /\ \/ Finish(s) /\ UNCHANGED skipped /\ e.kind # "mention" /\ ~acted_on(e)
         \/ Skip(s)
         \/ /\ UNCHANGED skipped
            /\ \/ Goto(s, "cancel") /\ e.kind = "close"
               \/ Goto(s, "index") /\ e.kind = "base"
               \/ Goto(s, "shas") /\ e.kind = "mention"
               \/ /\ handler' = [handler EXCEPT ![s].pc = "insert", ![s].head = e.head]
                  /\ e.kind \in {"open", "update"}
  <2>1. CASE handle_pull_request(s)
    <3>1. e.kind \in PullRequestKinds /\ settings.platform = "github"
      BY <1>2, <2>1, RoutedKinds DEF handle_pull_request, Handling
    <3>. QED
      BY <2>1, <3>1 DEF handle_pull_request, Ignored, ForPullRequest, acted_on,
                        PullRequestKinds
  <2>2. CASE handle_gitlab_merge_request(s)
    <3>1. e.kind \in PullRequestKinds
      BY <1>2, <2>2, RoutedKinds DEF handle_gitlab_merge_request, Handling
    <3>. QED
      BY <2>2, <3>1 DEF handle_gitlab_merge_request, Ignored, ForPullRequest, acted_on,
                        PullRequestKinds
  <2>3. CASE handle_bitbucket_pullrequest(s)
    BY <2>3 DEF handle_bitbucket_pullrequest, ForPullRequest
  <2>4. CASE handle_push(s) \/ handle_gitlab_push(s) \/ handle_bitbucket_push(s)
    BY <2>4 DEF handle_push, handle_gitlab_push, handle_bitbucket_push, ForPush, acted_on
  <2>5. CASE handle_issue_comment(s) \/ handle_gitlab_note(s) \/ handle_bitbucket_comment(s)
    BY <2>5 DEF handle_issue_comment, handle_gitlab_note, handle_bitbucket_comment,
                ForComment, acted_on
  <2>. QED
    BY <2>1, <2>2, <2>3, <2>4, <2>5, Zenon DEF Handle
<1>4. CASE Finish(s) /\ UNCHANGED skipped /\ e.kind # "mention" /\ ~acted_on(e)
  <2>1. Answered(d)
    BY <1>4, NothingToAnswer DEF EventOf
  <2>2. Elsewhere(s) /\ handler'[s] = Idle
    BY <1>3, <1>4, Types, FinishStep DEF Elsewhere
  <2>. QED
    BY <1>1, <1>3, <1>4, <2>1, <2>2 DEF Left
<1>5. CASE Skip(s)
  <2>1. Elsewhere(s) /\ handler'[s] = Idle
    BY <1>3, <1>5, Types, FinishStep DEF Elsewhere, Skip
  <2>. QED
    BY <1>1, <1>3, <1>5, <2>1 DEF Left, Skip
<1>6. ASSUME UNCHANGED skipped, NEW pc \in {"cancel", "index", "shas"}, Goto(s, pc),
             \/ pc = "cancel" /\ e.kind = "close"
             \/ pc = "index" /\ e.kind = "base"
             \/ pc = "shas" /\ e.kind = "mention"
      PROVE  Forward(s)
  <2>1. Elsewhere(s) /\ handler'[s].d = handler[s].d /\ handler'[s].pc = pc
    BY <1>0, <1>3, <1>6, Types, GotoStep DEF Elsewhere
  <2>. QED
    BY <1>0, <1>1, <1>3, <1>6, <2>1, ForwardPlain
<1>7. CASE /\ UNCHANGED skipped /\ e.kind \in {"open", "update"}
           /\ handler' = [handler EXCEPT ![s].pc = "insert", ![s].head = e.head]
  <2>. DEFINE q == [handler[s] EXCEPT !.pc = "insert", !.head = e.head]
  <2>1. handler[s] \in Handler /\ e.head \in Nat
    BY <1>2, Types, IntakeBounds DEF Event, Heads
  <2>2. q \in Handler /\ q.pc = "insert" /\ q.head = e.head /\ q.d = d
    BY <1>0, <2>1 DEF Handler
  <2>3. handler' = [handler EXCEPT ![s] = q]
    BY <1>7, Types
  <2>. HIDE DEF q
  <2>4. handler'[s] = q /\ Elsewhere(s)
    BY <1>3, <2>2, <2>3, Types, SetHandler DEF Elsewhere
  <2>. QED
    BY <1>0, <1>1, <1>3, <1>7, <2>2, <2>4, ForwardPlain
<1>. QED
  BY <1>3, <1>4, <1>5, <1>6, <1>7

\* Fewer epochs are taken when more are.
LEMMA ReachedLess ==
    ASSUME NEW h, NEW n \in Nat, NEW m \in Nat, m <= n, Reached(h, n)
    PROVE  Reached(h, m)
  BY DEF Reached

\* An epoch found taken extends them.
LEMMA ReachedMore ==
    ASSUME NEW h, NEW n \in Nat, Reached(h, n), NEW t \in DOMAIN tasks,
           tasks[t].entry = "mention", tasks[t].head = h, tasks[t].epoch = n
    PROVE  Reached(h, n + 1)
  BY DEF Reached

\* The rows the idempotency index compares with.
LEMMA Rivals ==
    ASSUME TypeOK, NEW s \in Slots
    PROVE  /\ \A t : t \in SameKey(s, FALSE) <=>
                 t \in DOMAIN tasks /\ tasks[t].entry = "mention" /\ tasks[t].head = handler[s].head
           /\ \A t : t \in SameKey(s, TRUE) <=>
                 t \in DOMAIN tasks /\ tasks[t].entry # "mention" /\ tasks[t].head = handler[s].head
<1>1. \A t \in DOMAIN tasks : tasks[t].entry \in {"pr_open", "pr_sync", "mention"}
  BY Types DEF Task
<1>2. \A t \in DOMAIN tasks : Automatic(t) <=> tasks[t].entry # "mention"
  BY <1>1 DEF Automatic
<1>3. \A t \in DOMAIN tasks : Automatic(t) \in BOOLEAN
  BY DEF Automatic
<1>4. \A t : t \in SameKey(s, FALSE) <=>
         t \in DOMAIN tasks /\ ~Automatic(t) /\ tasks[t].head = handler[s].head
  BY <1>3, Zenon DEF SameKey
<1>5. \A t : t \in SameKey(s, TRUE) <=>
         t \in DOMAIN tasks /\ Automatic(t) /\ tasks[t].head = handler[s].head
  BY <1>3, Zenon DEF SameKey
<1>. QED
  BY <1>2, <1>4, <1>5

\* pr_shas.
LEMMA ShasStep ==
    ASSUME TypeOK, NEW s \in Slots, RequestOK(s), pr_shas(s)
    PROVE  Forward(s)
<1>. DEFINE q == [handler[s] EXCEPT !.pc = "max", !.head = pr.head, !.attempt = 1]
<1>1. handler[s] \in Handler /\ pr.head \in Heads /\ pr.head \in Nat /\ 1 \in 1 .. MaxAttempts
      /\ {"shas", "max"} \subseteq Working \ {"supersede"}
  BY Types, IntakeBounds DEF Heads, Working
<1>2. q \in Handler /\ q.pc = "max" /\ q.head = pr.head /\ q.d = handler[s].d /\ q.attempt = 1
  BY <1>1 DEF Handler
<1>3. handler' = [handler EXCEPT ![s] = q] /\ handler[s].pc = "shas"
      /\ UNCHANGED <<settings, pr, sent, left, approved, indexing, received, deliveries,
                     tasks, skipped>>
  BY Types DEF pr_shas, stepVars, platformVars
<1>. HIDE DEF q
<1>4. handler'[s] = q /\ Elsewhere(s)
  BY <1>2, <1>3, Types, SetHandler DEF Elsewhere
<1>5. RequestOK(s)'
  <2>1. handler[s].d \in received /\ handler[s].d \in deliveries
        /\ sent[handler[s].d].kind = "mention"
        /\ \A t \in DOMAIN tasks : tasks[t].delivery # handler[s].d
    BY <1>1, <1>3 DEF RequestOK
  <2>. QED
    BY <1>1, <1>2, <1>3, <1>4, <2>1 DEF RequestOK
<1>6. RequestEpochOK(s)'
  BY <1>2, <1>4 DEF RequestEpochOK, Reached
<1>. QED
  BY <1>1, <1>2, <1>3, <1>4, <1>5, <1>6 DEF Forward

\* create_index_task: a push to the default branch asks for no review.
LEMMA IndexStep ==
    ASSUME TypeOK, NEW s \in Slots, RequestOK(s), create_index_task(s)
    PROVE  Left(s)
<1>1. Answered(handler[s].d)
  BY NothingToAnswer DEF create_index_task, RequestOK, acted_on
<1>2. Elsewhere(s) /\ handler'[s] = Idle
  BY Types, FinishStep DEF create_index_task, Elsewhere, platformVars
<1>. QED
  BY <1>1, <1>2 DEF create_index_task, Left

\* Cancelling rows changes their status only.
LEMMA CancelRows ==
    ASSUME TypeOK, NEW S, Cancel(S)
    PROVE  /\ Grows /\ DOMAIN tasks' = DOMAIN tasks
           /\ \A t \in DOMAIN tasks :
                tasks'[t].status = "cancelled" => t \in S \/ tasks[t].status = "cancelled"
<1>1. \A t \in DOMAIN tasks :
         \/ t \in S /\ tasks'[t] = [tasks[t] EXCEPT !.status = "cancelled"]
         \/ tasks'[t] = tasks[t]
  BY DEF Cancel
<1>2. DOMAIN tasks' = DOMAIN tasks /\ tasks' = [t \in DOMAIN tasks |-> tasks'[t]]
  BY DEF Cancel
<1>3. "cancelled" \in Status
  BY DEF Status
<1>4. Grows /\ DOMAIN tasks' = DOMAIN tasks
  BY <1>1, <1>2, <1>3, PointwiseGrows, Types
<1>. QED
  BY <1>1, <1>4

\* The two cancelling statements: a superseding push cancels automatic reviews, a
\* close happened before it is handled.
LEMMA SweepSteps ==
    ASSUME TypeOK, NEW s \in Slots, RequestOK(s), ClosedStays,
           supersede_older_reviews(s) \/ cancel_active_tasks_for_pr(s)
    PROVE  Swept(s)
<1>1. /\ handler[s].pc \in {"supersede", "cancel"} /\ Finish(s)
      /\ UNCHANGED <<settings, pr, sent, left, approved, indexing, received, deliveries, skipped>>
  BY DEF supersede_older_reviews, cancel_active_tasks_for_pr, stepVars, platformVars
<1>2. Elsewhere(s) /\ handler'[s] = Idle
  BY <1>1, Types, FinishStep DEF Elsewhere
<1>3. Grows /\ DOMAIN tasks' = DOMAIN tasks /\ CancelsJustified
  <2>1. CASE supersede_older_reviews(s)
    <3>1. settings.strategy = "supersede"
      BY <2>1 DEF supersede_older_reviews, RequestOK
    <3>2. PICK S : /\ Cancel(S)
                   /\ S = {t \in DOMAIN tasks :
                             Automatic(t) /\ Active(t) /\ tasks[t].head # handler[s].head}
      BY <2>1 DEF supersede_older_reviews
    <3>3. \A t \in DOMAIN tasks : t \in S => tasks[t].entry # "mention"
      BY <3>2 DEF Automatic
    <3>. QED
      BY <3>1, <3>2, <3>3, CancelRows DEF CancelsJustified
  <2>2. CASE cancel_active_tasks_for_pr(s)
    <3>1. ~pr.open
      BY <2>2, Types DEF cancel_active_tasks_for_pr, RequestOK, ClosedStays
    <3>. QED
      BY <2>2, <3>1, CancelRows DEF cancel_active_tasks_for_pr, CancelsJustified
  <2>. QED
    BY <2>1, <2>2
<1>. QED
  BY <1>1, <1>2, <1>3 DEF Swept

\* A new row is not cancelled.
LEMMA InitialStatus == initial_status \in Status /\ initial_status # "cancelled"
  BY DEF initial_status, Status, Waiting

\* create_task: the insert at epoch 0, or the row it conflicts with.
LEMMA CreateStep ==
    ASSUME TypeOK, NEW s \in Slots, RequestOK(s), create_task(s)
    PROVE  Left(s) \/ \E row \in Task : Inserted(s, row)
<1>. USE DEF stepVars, platformVars
<1>. DEFINE d == handler[s].d
            e == EventOf(s)
<1>0. {"insert", "supersede"} \subseteq Working
  BY DEF Working
<1>1. /\ handler[s].pc = "insert"
      /\ UNCHANGED <<settings, pr, sent, left, approved, indexing, received, deliveries, skipped>>
  BY DEF create_task
<1>2. /\ d \in received /\ e = sent[d] /\ sent[d].kind \in {"open", "update"}
      /\ handler[s].head = sent[d].head
      /\ d \in Nat /\ sent[d].head \in Heads
  <2>1. d \in received /\ sent[d].kind \in {"open", "update"} /\ handler[s].head = sent[d].head
    BY <1>1 DEF RequestOK
  <2>2. d \in DOMAIN sent
    BY <2>1, Types
  <2>3. d \in Nat /\ sent[d] \in Event
    BY <2>2, Types
  <2>. QED
    BY <2>1, <2>3 DEF EventOf, Event
<1>3. CASE \E t \in SameKey(s, TRUE) : tasks[t].epoch = 0
  <2>1. Finish(s) /\ UNCHANGED tasks
    BY <1>3 DEF create_task
  <2>2. Answered(d)
    <3>1. PICK t \in DOMAIN tasks : tasks[t].entry # "mention" /\ tasks[t].head = sent[d].head
      BY <1>2, <1>3, Rivals
    <3>2. sent[d].kind # "mention"
      BY <1>2
    <3>. QED
      BY <3>1, <3>2 DEF Answered
  <2>3. Elsewhere(s) /\ handler'[s] = Idle
    BY <1>1, <2>1, Types, FinishStep DEF Elsewhere
  <2>. QED
    BY <1>1, <2>1, <2>2, <2>3 DEF Left
<1>4. CASE ~\E t \in SameKey(s, TRUE) : tasks[t].epoch = 0
  <2>. DEFINE entry == IF is_sync(e) THEN "pr_sync" ELSE "pr_open"
              delayed == is_sync(e) /\ settings.strategy = "debounce"
              row == [entry |-> entry, head |-> handler[s].head, epoch |-> 0, delivery |-> d,
                      delayed |-> delayed, status |-> initial_status]
  <2>1. /\ InsertTask(s, entry, 0, delayed)
        /\ \/ is_sync(e) /\ settings.strategy = "supersede" /\ Goto(s, "supersede")
           \/ Finish(s)
    BY <1>4, Zenon DEF create_task
  <2>2. entry \in {"pr_open", "pr_sync"} /\ delayed \in BOOLEAN
    OBVIOUS
  <2>3. tasks' = Append(tasks, row)
    BY <2>1 DEF InsertTask
  <2>. HIDE DEF entry, delayed
  <2>4. row \in Task /\ row.entry # "mention" /\ row.delivery = d
        /\ row.status # "cancelled" /\ row.head = sent[d].head
    BY <1>2, <2>2, InitialStatus DEF Task
  <2>. HIDE DEF row
  <2>5. CASE Finish(s)
    <3>1. Elsewhere(s) /\ handler'[s] = Idle
      BY <1>1, <2>5, Types, FinishStep DEF Elsewhere
    <3>. QED
      BY <1>1, <1>2, <2>3, <2>4, <3>1 DEF Inserted
  <2>6. CASE is_sync(e) /\ settings.strategy = "supersede" /\ Goto(s, "supersede")
    <3>1. /\ Elsewhere(s) /\ handler'[s].pc = "supersede" /\ handler'[s].d = d
          /\ handler'[s].head = sent[d].head
      BY <1>0, <1>1, <1>2, <2>6, Types, GotoStep DEF Elsewhere
    <3>. QED
      BY <1>1, <1>2, <2>3, <2>4, <2>6, <3>1 DEF Inserted
  <2>. QED
    BY <2>1, <2>5, <2>6
<1>. QED
  BY <1>3, <1>4

\* next_epoch: one above the epochs taken, none of which is left out.
LEMMA EpochStep ==
    ASSUME TypeOK, NEW s \in Slots, RequestOK(s), RequestEpochOK(s),
           \A t \in DOMAIN tasks : TaskEpochOK(t), next_epoch(s)
    PROVE  Forward(s)
<1>. DEFINE h == handler[s].head
            a == handler[s].attempt
            K == SameKey(s, FALSE)
            E == IF K = {} THEN 0 ELSE Max({tasks[t].epoch : t \in K}) + 1
<1>1. /\ handler[s].pc = "max" /\ h \in Heads /\ a \in 1 .. MaxAttempts
      /\ handler[s].d \in received /\ handler[s].d \in deliveries
      /\ sent[handler[s].d].kind = "mention"
      /\ \A t \in DOMAIN tasks : tasks[t].delivery # handler[s].d
      /\ Reached(h, a - 1)
  BY DEF next_epoch, RequestOK, RequestEpochOK, Working
<1>2. a \in Nat /\ a - 1 \in Nat /\ Len(tasks) \in Nat /\ DOMAIN tasks = 1 .. Len(tasks)
  BY <1>1, IntakeBounds, Types
<1>3. E \in a - 1 .. Len(tasks) /\ Reached(h, E)
  <2>0. \A t \in DOMAIN tasks : tasks[t].epoch \in Nat
    BY Types DEF Task
  <2>1. CASE K = {}
    <3>1. a - 1 = 0
      <4>1. SUFFICES ASSUME a - 1 # 0 PROVE FALSE
        OBVIOUS
      <4>2. 0 \in 0 .. (a - 1) - 1
        BY <1>2, <4>1
      <4>3. PICK t \in DOMAIN tasks :
               tasks[t].entry = "mention" /\ tasks[t].head = h /\ tasks[t].epoch = 0
        BY <1>1, <4>2 DEF Reached
      <4>. QED
        BY <2>1, <4>3, Rivals
    <3>. QED
      BY <1>1, <1>2, <2>1, <3>1
  <2>2. CASE K # {}
    <3>. DEFINE T == {tasks[t].epoch : t \in K}
                m == Max(T)
    <3>1. \A t \in K : /\ t \in DOMAIN tasks /\ tasks[t].entry = "mention" /\ tasks[t].head = h
                       /\ tasks[t].epoch < t /\ Reached(h, tasks[t].epoch)
      BY Rivals DEF TaskEpochOK
    <3>2. T \subseteq Nat /\ T # {} /\ \A x \in T : x <= Len(tasks)
      <4>1. \A t \in K : tasks[t].epoch \in Nat /\ tasks[t].epoch <= Len(tasks)
        <5>1. ASSUME NEW t \in K PROVE tasks[t].epoch \in Nat /\ tasks[t].epoch <= Len(tasks)
          <6>1. t \in 1 .. Len(tasks) /\ tasks[t].epoch < t /\ tasks[t].epoch \in Nat
            BY <1>2, <2>0, <3>1
          <6>. QED
            BY <1>2, <6>1
        <5>. QED
          BY <5>1
      <4>. HIDE DEF K
      <4>. QED
        BY <2>2, <4>1
    <3>3. m \in T /\ \A x \in T : x <= m
      <4>. HIDE DEF T
      <4>. QED
        BY <1>2, <3>2, MaxOfBounded
    <3>. HIDE DEF m
    <3>4. PICK t \in K : m = tasks[t].epoch
      BY <3>3
    <3>5. m \in Nat /\ m + 1 <= Len(tasks) /\ Reached(h, m + 1)
      <4>1. /\ t \in DOMAIN tasks /\ tasks[t].entry = "mention" /\ tasks[t].head = h
            /\ m \in Nat /\ m < t /\ Reached(h, m)
        BY <2>0, <3>1, <3>4
      <4>2. Reached(h, m + 1)
        BY <3>4, <4>1, ReachedMore
      <4>. QED
        BY <1>2, <4>1, <4>2
    <3>6. a - 1 <= m + 1
      <4>1. SUFFICES ASSUME a - 1 > m + 1 PROVE FALSE
        BY <1>2, <3>5
      <4>2. m + 1 \in 0 .. (a - 1) - 1
        BY <1>2, <3>5, <4>1
      <4>3. PICK u \in DOMAIN tasks :
               tasks[u].entry = "mention" /\ tasks[u].head = h /\ tasks[u].epoch = m + 1
        BY <1>1, <4>2 DEF Reached
      <4>4. u \in K
        BY <4>3, Rivals
      <4>5. m + 1 \in T
        BY <4>3, <4>4
      <4>. QED
        <5>1. m + 1 <= m
          <6>. HIDE DEF T
          <6>. QED
            BY <3>3, <4>5
        <5>. QED
          BY <3>5, <5>1
    <3>7. E = m + 1
      BY <2>2 DEF m
    <3>. HIDE DEF E
    <3>. QED
      BY <1>2, <3>5, <3>6, <3>7
  <2>. QED
    BY <2>1, <2>2
<1>4. handler' = [handler EXCEPT ![s].pc = "explicit", ![s].epoch = E]
      /\ UNCHANGED <<settings, pr, sent, left, approved, indexing, received, deliveries,
                     tasks, skipped>>
  BY DEF next_epoch, stepVars, platformVars
<1>. HIDE DEF E
<1>. DEFINE q == [handler[s] EXCEPT !.pc = "explicit", !.epoch = E]
<1>5. handler' = [handler EXCEPT ![s] = q]
  BY <1>4, Types
<1>6. handler[s] \in Handler /\ E \in Nat /\ {"max", "explicit"} \subseteq Working \ {"supersede"}
  BY <1>2, <1>3, Types DEF Working
<1>7. /\ q \in Handler /\ q.pc = "explicit" /\ q.d = handler[s].d /\ q.head = h
      /\ q.attempt = a /\ q.epoch = E
  BY <1>6 DEF Handler
<1>. HIDE DEF q
<1>8. handler'[s] = q /\ Elsewhere(s)
  BY <1>4, <1>5, <1>7, Types, SetHandler DEF Elsewhere
<1>9. /\ handler'[s].pc = "explicit" /\ handler'[s].d = handler[s].d
      /\ handler'[s].head = h /\ handler'[s].attempt = a /\ handler'[s].epoch = E
  BY <1>7, <1>8
<1>10. RequestOK(s)'
  <2>1. /\ handler[s].d \in received /\ handler[s].d \in deliveries
        /\ sent[handler[s].d].kind = "mention" /\ h \in Heads /\ a \in 1 .. MaxAttempts
        /\ \A t \in DOMAIN tasks : tasks[t].delivery # handler[s].d
    BY <1>1
  <2>2. UNCHANGED <<settings, sent, received, deliveries, tasks>>
    BY <1>4
  <2>. QED
    BY <1>9, <2>1, <2>2 DEF RequestOK
<1>11. RequestEpochOK(s)'
  BY <1>3, <1>4, <1>9 DEF RequestEpochOK, Reached
<1>. QED
  BY <1>1, <1>4, <1>6, <1>8, <1>9, <1>10, <1>11 DEF Forward

\* create_explicit_task: the insert, another attempt, or MAX_ATTEMPTS lost races.
LEMMA ExplicitStep ==
    ASSUME TypeOK, NEW s \in Slots, RequestOK(s), RequestEpochOK(s), create_explicit_task(s)
    PROVE  Forward(s) \/ Left(s) \/ \E row \in Task : Inserted(s, row)
<1>. DEFINE d == handler[s].d
            h == handler[s].head
            a == handler[s].attempt
            n == handler[s].epoch
            taken == \E t \in SameKey(s, FALSE) : tasks[t].epoch = n
<1>1. /\ handler[s].pc = "explicit" /\ h \in Heads /\ a \in 1 .. MaxAttempts
      /\ d \in received /\ d \in deliveries /\ sent[d].kind = "mention"
      /\ \A t \in DOMAIN tasks : tasks[t].delivery # d
      /\ n \in a - 1 .. Len(tasks) /\ Reached(h, n)
  BY DEF create_explicit_task, RequestOK, RequestEpochOK, Working
<1>2. a \in Nat /\ a - 1 \in Nat /\ n \in Nat /\ d \in Nat /\ Len(tasks) \in Nat
      /\ MaxAttempts \in Nat
  <2>1. d \in DOMAIN sent
    BY <1>1, Types
  <2>. QED
    BY <1>1, <2>1, IntakeBounds, Types
<1>3. UNCHANGED <<settings, pr, sent, left, approved, indexing, received, deliveries, skipped>>
  BY DEF create_explicit_task, stepVars, platformVars
<1>4. ASSUME taken PROVE Reached(h, a)
  <2>1. PICK t \in DOMAIN tasks :
           tasks[t].entry = "mention" /\ tasks[t].head = h /\ tasks[t].epoch = n
    BY <1>4, Rivals
  <2>4. n \in Nat /\ Reached(h, n)
    BY <1>1, <1>2
  <2>2. Reached(h, n + 1)
    BY <2>1, <2>4, ReachedMore
  <2>3. a <= n + 1 /\ n + 1 \in Nat
    BY <1>1, <1>2
  <2>. QED
    BY <1>2, <2>2, <2>3, ReachedLess
<1>5. CASE InsertTask(s, "mention", n, FALSE) /\ Finish(s)
  <2>. DEFINE row == [entry |-> "mention", head |-> h, epoch |-> n, delivery |-> d,
                      delayed |-> FALSE, status |-> initial_status]
  <2>1. tasks' = Append(tasks, row)
    BY <1>5 DEF InsertTask
  <2>2. row \in Task
    BY <1>1, <1>2, InitialStatus DEF Task
  <2>3. row.entry = "mention" /\ row.head = h /\ row.epoch = n /\ row.delivery = d
        /\ row.status # "cancelled"
    BY InitialStatus
  <2>. HIDE DEF row
  <2>4. Elsewhere(s) /\ handler'[s] = Idle
    BY <1>3, <1>5, Types, FinishStep DEF Elsewhere
  <2>. QED
    BY <1>1, <1>2, <1>3, <2>1, <2>2, <2>3, <2>4 DEF Inserted
<1>6. CASE /\ taken /\ a < MaxAttempts /\ UNCHANGED tasks
           /\ handler' = [handler EXCEPT ![s].pc = "max", ![s].attempt = a + 1]
  <2>. DEFINE q == [handler[s] EXCEPT !.pc = "max", !.attempt = a + 1]
  <2>1. handler' = [handler EXCEPT ![s] = q]
    BY <1>6, Types
  <2>2. handler[s] \in Handler /\ a + 1 \in Nat /\ a + 1 \in 1 .. MaxAttempts
        /\ {"max", "explicit"} \subseteq Working \ {"supersede"}
    BY <1>2, <1>6, Types DEF Working
  <2>3. q \in Handler /\ q.pc = "max" /\ q.d = d /\ q.head = h /\ q.attempt = a + 1
    BY <2>2 DEF Handler
  <2>. HIDE DEF q
  <2>4. handler'[s] = q /\ Elsewhere(s)
    BY <1>3, <2>1, <2>3, Types, SetHandler DEF Elsewhere
  <2>5. /\ handler'[s].pc = "max" /\ handler'[s].d = d /\ handler'[s].head = h
        /\ handler'[s].attempt = a + 1
    BY <2>3, <2>4
  <2>6. RequestOK(s)'
    <3>1. /\ d \in received /\ d \in deliveries /\ sent[d].kind = "mention" /\ h \in Heads
          /\ a + 1 \in 1 .. MaxAttempts
          /\ \A t \in DOMAIN tasks : tasks[t].delivery # d
      BY <1>1, <2>2
    <3>2. UNCHANGED <<settings, sent, received, deliveries, tasks>>
      BY <1>3, <1>6
    <3>. QED
      BY <2>5, <3>1, <3>2 DEF RequestOK
  <2>7. RequestEpochOK(s)'
    <3>1. Reached(h, a)
      BY <1>4, <1>6
    <3>2. (a + 1) - 1 = a
      BY <1>2
    <3>3. handler'[s].attempt - 1 = a
      BY <2>5, <3>2
    <3>4. UNCHANGED tasks
      BY <1>6
    <3>. HIDE DEF h, a
    <3>. QED
      BY <2>5, <3>1, <3>3, <3>4 DEF RequestEpochOK, Reached
  <2>. QED
    BY <1>1, <1>3, <1>6, <2>2, <2>4, <2>5, <2>6, <2>7 DEF Forward
<1>7. CASE taken /\ a = MaxAttempts /\ Finish(s) /\ UNCHANGED tasks
  <2>1. Answered(d)
    BY <1>1, <1>4, <1>7 DEF Answered, acted_on
  <2>2. Elsewhere(s) /\ handler'[s] = Idle
    BY <1>3, <1>7, Types, FinishStep DEF Elsewhere
  <2>. QED
    BY <1>1, <1>3, <1>7, <2>1, <2>2 DEF Left
<1>8. \/ InsertTask(s, "mention", n, FALSE) /\ Finish(s)
      \/ /\ taken /\ a < MaxAttempts /\ UNCHANGED tasks
         /\ handler' = [handler EXCEPT ![s].pc = "max", ![s].attempt = a + 1]
      \/ taken /\ a = MaxAttempts /\ Finish(s) /\ UNCHANGED tasks
  BY Types, Zenon DEF create_explicit_task
<1>. QED
  BY <1>5, <1>6, <1>7, <1>8

-----------------------------------------------------------------------------
(* What every step keeps.                                                  *)

\* Rows, records and events stay, cancelling has its reasons, a closed pull
\* request stays closed.
Common ==
    /\ Grows /\ CancelsJustified
    /\ received \subseteq received' /\ deliveries \subseteq deliveries'
    /\ settings' = settings
    /\ \A d \in DOMAIN sent : d \in DOMAIN sent' /\ sent'[d] = sent[d]
    /\ pr'.open => pr.open

\* Slot s moves.
Moved(s) == \/ Received(s) \/ Recorded(s) \/ Left(s) \/ Forward(s) \/ Swept(s)
            \/ \E row \in Task : Inserted(s, row)

\* Every step is one of the moves.
LEMMA Moves ==
    ASSUME IntakeInv, [Next]_vars
    PROVE  Outside \/ Touched \/ \E s \in Slots : Moved(s)
<1>0. /\ TypeOK /\ ClosedStays /\ \A t \in DOMAIN tasks : TaskEpochOK(t)
      /\ \A s \in Slots : RequestOK(s) /\ RequestEpochOK(s)
  BY DEF IntakeInv
<1>1. CASE pr_push \/ pr_reset \/ pr_close \/ pr_mention \/ pr_noise \/ base_push \/ deny
  BY <1>0, <1>1, OutsideSteps
<1>2. CASE index_ends \/ \E t \in DOMAIN tasks : quiet_period_ends(t) \/ run_ends(t)
  BY <1>0, <1>2, TouchSteps
<1>3. ASSUME NEW s \in Slots, Request(s) PROVE Moved(s)
  <2>. USE <1>0, <1>3 DEF Moved
  <2>1. CASE verified_payload(s) \/ persist_delivery(s)
    BY <2>1, RecordSteps
  <2>2. CASE route_github_event(s) \/ gitlab_webhook_body(s) \/ bitbucket_webhook_body(s)
    BY <2>2, RouteSteps
  <2>3. CASE Handle(s)
    BY <2>3, HandleSteps
  <2>4. CASE pr_shas(s)
    BY <2>4, ShasStep
  <2>5. CASE create_index_task(s)
    BY <2>5, IndexStep
  <2>6. CASE create_task(s)
    BY <2>6, CreateStep
  <2>7. CASE supersede_older_reviews(s) \/ cancel_active_tasks_for_pr(s)
    BY <2>7, SweepSteps
  <2>8. CASE next_epoch(s)
    BY <2>8, EpochStep
  <2>9. CASE create_explicit_task(s)
    BY <2>9, ExplicitStep
  <2>. QED
    BY <2>1, <2>2, <2>3, <2>4, <2>5, <2>6, <2>7, <2>8, <2>9, Zenon DEF Request
<1>4. ASSUME NEW s \in Slots, request_fails(s) PROVE Moved(s)
  BY <1>0, <1>4, FailStep DEF Moved
<1>5. ASSUME NEW s \in Slots, NEW d \in DOMAIN sent, receive(s, d) PROVE Moved(s)
  BY <1>0, <1>5, ReceiveStep DEF Moved
<1>6. CASE UNCHANGED vars
  <2>1. UNCHANGED <<settings, pr, sent, left, approved, indexing, received, deliveries,
                    handler, tasks, skipped>>
    BY <1>6 DEF vars, platformVars
  <2>. QED
    BY <1>0, <2>1, Types DEF Touched, Grows, CancelsJustified
<1>. QED
  BY <1>1, <1>2, <1>3, <1>4, <1>5, <1>6, Zenon DEF Next

\* An appended row.
LEMMA AppendedRow ==
    ASSUME TypeOK, NEW row \in Task, tasks' = Append(tasks, row)
    PROVE  /\ Grows /\ CancelsJustified
           /\ Len(tasks) \in Nat /\ DOMAIN tasks = 1 .. Len(tasks)
           /\ DOMAIN tasks' = 1 .. Len(tasks) + 1
           /\ tasks'[Len(tasks) + 1] = row
<1>1. tasks \in Seq(Task)
  BY Types
<1>2. /\ tasks' \in Seq(Task) /\ Len(tasks') = Len(tasks) + 1
      /\ tasks'[Len(tasks) + 1] = row
      /\ \A t \in 1 .. Len(tasks) : tasks'[t] = tasks[t]
  BY <1>1, AppendProperties
<1>3. DOMAIN tasks' = 1 .. Len(tasks') /\ DOMAIN tasks = 1 .. Len(tasks) /\ Len(tasks) \in Nat
  BY <1>1, <1>2
<1>. QED
  BY <1>2, <1>3 DEF Grows, CancelsJustified

\* All moves have what is common.
LEMMA EveryMove ==
    ASSUME TypeOK, Outside \/ Touched \/ \E s \in Slots : Moved(s)
    PROVE  Common
<1>0. UNCHANGED tasks => Grows /\ CancelsJustified
  BY Types DEF Grows, CancelsJustified
<1>1. CASE Outside
  BY <1>0, <1>1 DEF Outside, Common
<1>2. CASE Touched
  BY <1>2 DEF Touched, Common
<1>3. ASSUME NEW s \in Slots, Moved(s) PROVE Common
  <2>0. Elsewhere(s) /\ settings' = settings /\ pr' = pr /\ sent' = sent
    BY <1>3 DEF Moved, Received, Recorded, Left, Forward, Swept, Inserted, Elsewhere
  <2>1. CASE Received(s) \/ Recorded(s) \/ Left(s) \/ Forward(s)
    BY <1>0, <2>0, <2>1 DEF Received, Recorded, Left, Forward, Common
  <2>2. CASE Swept(s)
    BY <2>0, <2>2 DEF Swept, Common
  <2>3. ASSUME NEW row \in Task, Inserted(s, row) PROVE Common
    BY <2>0, <2>3, AppendedRow DEF Inserted, Common
  <2>. QED
    BY <1>3, <2>1, <2>2, <2>3 DEF Moved
<1>. QED
  BY <1>1, <1>2, <1>3

\* Taken epochs stay taken.
LEMMA KeepReached ==
    ASSUME NEW h, NEW n, Grows, Reached(h, n)
    PROVE  Reached(h, n)'
<1>. SUFFICES ASSUME NEW e \in 0 .. n - 1
              PROVE  \E t \in DOMAIN tasks' :
                        tasks'[t].entry = "mention" /\ tasks'[t].head = h /\ tasks'[t].epoch = e
  BY DEF Reached
<1>1. PICK t \in DOMAIN tasks :
         tasks[t].entry = "mention" /\ tasks[t].head = h /\ tasks[t].epoch = e
  BY DEF Reached
<1>. QED
  BY <1>1 DEF Grows

\* A request that does not move, while no row for its delivery appears.
LEMMA KeepRequest ==
    ASSUME TypeOK, Common, NEW u \in Slots, RequestOK(u), handler'[u] = handler[u],
           \A t \in DOMAIN tasks' :
               \/ t \in DOMAIN tasks \/ tasks'[t].delivery # handler[u].d
               \/ handler[u].pc \notin Working \ {"supersede"}
    PROVE  RequestOK(u)'
<1>1. handler[u].pc # "idle" => /\ handler[u].d \in received'
                                /\ sent'[handler[u].d] = sent[handler[u].d]
  BY Types DEF RequestOK, Common
<1>2. handler[u].pc \in Working => handler[u].d \in deliveries'
  BY DEF RequestOK, Common
<1>3. handler[u].pc \in Working \ {"supersede"} =>
         \A t \in DOMAIN tasks' : tasks'[t].delivery # handler[u].d
  BY DEF RequestOK, Common, Grows
<1>4. settings' = settings
  BY DEF Common
<1>. QED
  BY <1>1, <1>2, <1>3, <1>4 DEF RequestOK

\* What it knows of the epochs stays true.
LEMMA KeepRequestEpoch ==
    ASSUME TypeOK, Common, NEW u \in Slots, RequestEpochOK(u), handler'[u] = handler[u]
    PROVE  RequestEpochOK(u)'
<1>1. PICK h, n, m : h = handler[u].head /\ n = handler[u].attempt - 1 /\ m = handler[u].epoch
  OBVIOUS
<1>2. CASE handler[u].pc = "max"
  <2>1. Reached(h, n)
    BY <1>1, <1>2 DEF RequestEpochOK
  <2>2. Reached(h, n)'
    BY <2>1, KeepReached DEF Common
  <2>. QED
    BY <1>1, <1>2, <2>2 DEF RequestEpochOK, Reached
<1>3. CASE handler[u].pc = "explicit"
  <2>1. Reached(h, m) /\ m \in n .. Len(tasks)
    BY <1>1, <1>3 DEF RequestEpochOK
  <2>2. Reached(h, m)'
    BY <2>1, KeepReached DEF Common
  <2>3. m \in n .. Len(tasks)'
    <3>1. Len(tasks)' \in Nat /\ Len(tasks) \in Nat /\ Len(tasks) <= Len(tasks)'
      <4>1. tasks \in Seq(Task) /\ tasks' \in Seq(Task) /\ DOMAIN tasks \subseteq DOMAIN tasks'
        BY Types DEF Common, Grows
      <4>2. Len(tasks) \in Nat /\ Len(tasks') \in Nat /\ 1 .. Len(tasks) \subseteq 1 .. Len(tasks')
        BY <4>1
      <4>. QED
        BY <4>2
    <3>2. n \in Int
      BY <1>1, Types DEF Handler
    <3>. QED
      BY <2>1, <3>1, <3>2
  <2>. QED
    BY <1>1, <1>3, <2>2, <2>3 DEF RequestEpochOK, Reached
<1>4. CASE handler[u].pc \notin {"max", "explicit"}
  BY <1>4 DEF RequestEpochOK
<1>. QED
  BY <1>2, <1>3, <1>4

\* A task keeps its origin and its reason to be cancelled.
LEMMA KeepTask ==
    ASSUME TypeOK, Common, NEW t \in DOMAIN tasks, TaskOK(t)
    PROVE  TaskOK(t)'
<1>1. tasks[t].delivery \in DOMAIN sent
  BY Types DEF TaskOK
<1>2. /\ tasks'[t].delivery = tasks[t].delivery /\ tasks'[t].entry = tasks[t].entry
      /\ sent'[tasks[t].delivery] = sent[tasks[t].delivery]
      /\ tasks[t].delivery \in deliveries'
      /\ settings' = settings
  BY <1>1 DEF Common, Grows, TaskOK
<1>3. tasks'[t].status = "cancelled" =>
         ~pr'.open \/ (tasks[t].entry # "mention" /\ settings.strategy = "supersede")
  BY DEF Common, CancelsJustified, TaskOK
<1>4. tasks'[t].entry = "mention" <=> sent'[tasks'[t].delivery].kind = "mention"
  BY <1>2 DEF TaskOK
<1>. QED
  BY <1>2, <1>3, <1>4 DEF TaskOK

\* The epochs below a task stay taken.
LEMMA KeepTaskEpoch ==
    ASSUME Grows, NEW t \in DOMAIN tasks, TaskEpochOK(t)
    PROVE  TaskEpochOK(t)'
<1>1. CASE tasks[t].entry = "mention"
  <2>1. PICK h, n : h = tasks[t].head /\ n = tasks[t].epoch
    OBVIOUS
  <2>2. Reached(h, n) /\ n < t
    BY <1>1, <2>1 DEF TaskEpochOK
  <2>3. Reached(h, n)'
    BY <2>2, KeepReached
  <2>4. tasks'[t].head = h /\ tasks'[t].epoch = n
    BY <2>1 DEF Grows
  <2>. QED
    BY <2>2, <2>3, <2>4 DEF TaskEpochOK, Reached
<1>2. CASE tasks[t].entry # "mention"
  BY <1>2 DEF TaskEpochOK, Grows
<1>. QED
  BY <1>1, <1>2

\* An answered delivery stays answered.
LEMMA KeepAnswered ==
    ASSUME Common, NEW d \in DOMAIN sent, Answered(d)
    PROVE  Answered(d)'
<1>1. sent'[d] = sent[d] /\ settings' = settings
  BY DEF Common
<1>2. Grows
  BY DEF Common
<1>3. sent[d].kind = "mention" => \/ \E t \in DOMAIN tasks' : tasks'[t].delivery = d
                                \/ \E h \in Heads : Reached(h, MaxAttempts)'
  <2>1. CASE \E t \in DOMAIN tasks : tasks[t].delivery = d
    BY <1>2, <2>1 DEF Grows
  <2>2. CASE \E h \in Heads : Reached(h, MaxAttempts)
    BY <1>2, <2>2, KeepReached
  <2>. QED
    BY <2>1, <2>2 DEF Answered
<1>4. acted_on(sent[d]) => \E t \in DOMAIN tasks' :
                              tasks'[t].entry # "mention" /\ tasks'[t].head = sent[d].head
  BY <1>2 DEF Grows, Answered
<1>5. acted_on(sent[d])' = acted_on(sent[d])
  BY <1>1 DEF acted_on
<1>. QED
  BY <1>1, <1>3, <1>4, <1>5 DEF Answered

-----------------------------------------------------------------------------
(* Each part of the invariant, against the moves.                          *)

\* One of the moves happens.
AnyMove == Outside \/ Touched \/ \E s \in Slots : Moved(s)

\* TypeOK.
LEMMA KeepTypes ==
    ASSUME IntakeInv, AnyMove
    PROVE  TypeOK'
<1>0. TypeOK
  BY DEF IntakeInv
<1>1. CASE Outside
  <2>1. /\ UNCHANGED <<settings, indexing, received, deliveries, handler, tasks, skipped>>
        /\ sent' \in Seq(Event) /\ pr' \in [open : BOOLEAN, head : Heads]
        /\ left' \in Budget /\ approved' \in BOOLEAN /\ DOMAIN sent \subseteq DOMAIN sent'
    BY <1>1 DEF Outside
  <2>. QED
    BY <1>0, <2>1 DEF TypeOK
<1>2. CASE Touched
  <2>1. /\ UNCHANGED <<settings, pr, sent, left, approved, received, deliveries, handler, skipped>>
        /\ indexing' \in BOOLEAN /\ tasks' \in Seq(Task)
    BY <1>2 DEF Touched, Grows
  <2>. QED
    BY <1>0, <2>1 DEF TypeOK
<1>3. ASSUME NEW s \in Slots, Moved(s) PROVE TypeOK'
  <2>1. Elsewhere(s)
    BY <1>3 DEF Moved, Received, Recorded, Left, Forward, Swept, Inserted
  <2>2. tasks' \in Seq(Task)
    BY <1>0, <1>3, EveryMove DEF Common, Grows
  <2>3. handler[s].pc # "idle" => handler[s].d \in received
    BY DEF IntakeInv, RequestOK
  <2>4. /\ received \subseteq received' /\ received' \subseteq DOMAIN sent
        /\ deliveries' \subseteq received' /\ skipped' \subseteq received'
    BY <1>0, <1>3, <2>3, Types DEF Moved, Received, Recorded, Left, Forward, Swept, Inserted
  <2>. QED
    BY <1>0, <2>1, <2>2, <2>4 DEF TypeOK, Elsewhere
<1>. QED
  BY <1>1, <1>2, <1>3 DEF AnyMove

\* RequestOK and RequestEpochOK: an insert cannot be for the delivery of another
\* request, because the record let only one through.
LEMMA KeepRequests ==
    ASSUME IntakeInv, AnyMove, NEW u \in Slots
    PROVE  RequestOK(u)' /\ RequestEpochOK(u)'
<1>0. TypeOK /\ RequestOK(u) /\ RequestEpochOK(u) /\ Common
  BY EveryMove DEF IntakeInv, AnyMove
<1>1. ASSUME handler'[u] = handler[u], DOMAIN tasks' = DOMAIN tasks
      PROVE  RequestOK(u)' /\ RequestEpochOK(u)'
  BY <1>0, <1>1, KeepRequest, KeepRequestEpoch
<1>2. CASE Outside \/ Touched
  BY <1>1, <1>2 DEF Outside, Touched
<1>3. ASSUME NEW s \in Slots, Moved(s), s # u PROVE RequestOK(u)' /\ RequestEpochOK(u)'
  <2>1. handler'[u] = handler[u]
    BY <1>3 DEF Moved, Received, Recorded, Left, Forward, Swept, Inserted, Elsewhere
  <2>2. CASE Received(s) \/ Recorded(s) \/ Left(s) \/ Forward(s) \/ Swept(s)
    BY <1>1, <2>1, <2>2 DEF Received, Recorded, Left, Forward, Swept
  <2>3. ASSUME NEW row \in Task, Inserted(s, row) PROVE RequestOK(u)' /\ RequestEpochOK(u)'
    <3>1. handler[s].pc \in Working /\ tasks' = Append(tasks, row) /\ row.delivery = handler[s].d
      BY <2>3 DEF Inserted, Working
    <3>2. handler[u].pc \in Working => handler[u].d # handler[s].d
      BY <1>3, <3>1 DEF IntakeInv, OneRequest
    <3>3. \A t \in DOMAIN tasks' : t \in DOMAIN tasks \/ tasks'[t].delivery = handler[s].d
      BY <1>0, <3>1, AppendedRow
    <3>. QED
      BY <1>0, <2>1, <3>2, <3>3, KeepRequest, KeepRequestEpoch
  <2>. QED
    BY <1>3, <2>2, <2>3 DEF Moved
<1>4. CASE Moved(u)
  <2>1. CASE handler'[u] = Idle
    BY <2>1, IdleHandler DEF RequestOK, RequestEpochOK, Working
  <2>2. CASE Received(u)
    BY <2>2 DEF Received, RequestOK, RequestEpochOK, Working
  <2>3. CASE Recorded(u)
    <3>1. handler[u].d \in received /\ handler[u].d \notin deliveries
      BY <1>0, <2>3 DEF Recorded, RequestOK
    <3>2. \A t \in DOMAIN tasks : tasks[t].delivery # handler[u].d
      BY <3>1 DEF IntakeInv, TaskOK
    <3>3. /\ handler'[u].pc = "route" /\ handler'[u].d = handler[u].d
          /\ UNCHANGED <<received, tasks>> /\ handler[u].d \in deliveries'
      BY <2>3 DEF Recorded
    <3>. QED
      BY <3>1, <3>2, <3>3 DEF RequestOK, RequestEpochOK
  <2>4. CASE Forward(u)
    BY <2>4 DEF Forward
  <2>5. ASSUME NEW row \in Task, Inserted(u, row), handler'[u] # Idle
        PROVE  RequestOK(u)' /\ RequestEpochOK(u)'
    <3>1. handler[u].d \in received /\ handler[u].d \in deliveries
      BY <1>0, <2>5 DEF Inserted, RequestOK, Working
    <3>2. /\ handler'[u].pc = "supersede" /\ settings.strategy = "supersede"
          /\ handler'[u].d = handler[u].d /\ sent[handler[u].d].kind \in {"open", "update"}
          /\ handler'[u].head = sent[handler[u].d].head
          /\ UNCHANGED <<settings, sent, received, deliveries>>
      BY <2>5 DEF Inserted, Elsewhere
    <3>. QED
      BY <3>1, <3>2 DEF RequestOK, RequestEpochOK, Working
  <2>. QED
    BY <1>4, <2>1, <2>2, <2>3, <2>4, <2>5 DEF Moved, Left, Swept
<1>. QED
  BY <1>2, <1>3, <1>4 DEF AnyMove

\* OneRequest: a delivery that is recorded now was not on record.
LEMMA KeepOneRequest ==
    ASSUME IntakeInv, AnyMove
    PROVE  OneRequest'
<1>1. CASE Outside \/ Touched
  BY <1>1 DEF Outside, Touched, OneRequest, IntakeInv
<1>2. ASSUME NEW s \in Slots, Moved(s) PROVE OneRequest'
  <2>1. \A u \in Slots \ {s} : handler'[u] = handler[u]
    BY <1>2 DEF Moved, Received, Recorded, Left, Forward, Swept, Inserted, Elsewhere
  <2>2. \A u \in Slots : handler[u].pc \in Working => handler[u].d \in deliveries
    BY DEF IntakeInv, RequestOK
  <2>3. handler'[s].pc \in Working =>
           /\ handler'[s].d = handler[s].d
           /\ handler[s].pc \in Working \/ handler[s].d \notin deliveries
    BY <1>2, IdleHandler DEF Moved, Received, Recorded, Left, Forward, Swept, Inserted, Working
  <2>. QED
    BY <2>1, <2>2, <2>3 DEF OneRequest, IntakeInv
<1>. QED
  BY <1>1, <1>2 DEF AnyMove

\* TaskOK, TaskEpochOK and OneTaskPerDelivery: only an insert adds a row.
LEMMA KeepTasks ==
    ASSUME IntakeInv, AnyMove
    PROVE  /\ \A t \in DOMAIN tasks' : TaskOK(t)' /\ TaskEpochOK(t)'
           /\ OneTaskPerDelivery'
<1>0. TypeOK /\ Common /\ Grows
  BY EveryMove DEF IntakeInv, AnyMove, Common
<1>1. \A t \in DOMAIN tasks : TaskOK(t)' /\ TaskEpochOK(t)'
  BY <1>0, KeepTask, KeepTaskEpoch DEF IntakeInv
<1>2. CASE DOMAIN tasks' = DOMAIN tasks
  BY <1>0, <1>1, <1>2 DEF Grows, OneTaskPerDelivery, IntakeInv
<1>3. ASSUME NEW s \in Slots, NEW row \in Task, Inserted(s, row)
      PROVE  /\ \A t \in DOMAIN tasks' : TaskOK(t)' /\ TaskEpochOK(t)'
             /\ OneTaskPerDelivery'
  <2>1. /\ tasks' = Append(tasks, row) /\ row.delivery = handler[s].d
        /\ row.status # "cancelled"
        /\ UNCHANGED <<deliveries, sent>>
        /\ row.entry = "mention" => /\ sent[handler[s].d].kind = "mention"
                                    /\ row.epoch <= Len(tasks) /\ Reached(row.head, row.epoch)
        /\ row.entry # "mention" => sent[handler[s].d].kind # "mention"
    BY <1>3 DEF Inserted, Elsewhere
  <2>2. handler[s].d \in deliveries /\ \A t \in DOMAIN tasks : tasks[t].delivery # handler[s].d
    BY <1>3 DEF Inserted, IntakeInv, RequestOK, Working
  <2>3. Len(tasks) \in Nat /\ DOMAIN tasks = 1 .. Len(tasks)
        /\ DOMAIN tasks' = 1 .. Len(tasks) + 1 /\ tasks'[Len(tasks) + 1] = row
    BY <1>0, <2>1, AppendedRow
  <2>4. PICK n \in Nat : n = Len(tasks) + 1
    BY <2>3
  <2>5. /\ \A t \in DOMAIN tasks' : t \in DOMAIN tasks \/ t = n
        /\ n \notin DOMAIN tasks /\ tasks'[n] = row
    BY <2>3, <2>4
  <2>6. TaskOK(n)'
    <3>1. tasks'[n].delivery \in deliveries' /\ tasks'[n].status # "cancelled"
      BY <2>1, <2>2, <2>5
    <3>2. tasks'[n].entry = "mention" <=> sent'[tasks'[n].delivery].kind = "mention"
      BY <2>1, <2>5
    <3>. QED
      BY <3>1, <3>2 DEF TaskOK
  <2>7. TaskEpochOK(n)'
    <3>1. CASE row.entry = "mention"
      <4>1. PICK h, e : h = row.head /\ e = row.epoch
        OBVIOUS
      <4>2. Reached(h, e) /\ e < n
        <5>1. e \in Nat
          BY <4>1 DEF Task
        <5>. QED
          BY <2>1, <2>3, <2>4, <3>1, <4>1, <5>1
      <4>3. Reached(h, e)'
        BY <1>0, <4>2, KeepReached
      <4>. QED
        BY <2>5, <4>1, <4>2, <4>3 DEF TaskEpochOK, Reached
    <3>2. CASE row.entry # "mention"
      BY <2>5, <3>2 DEF TaskEpochOK
    <3>. QED
      BY <3>1, <3>2
  <2>8. OneTaskPerDelivery'
    <3>1. \A t \in DOMAIN tasks : tasks'[t].delivery = tasks[t].delivery
      BY <1>0 DEF Grows
    <3>2. tasks'[n].delivery = handler[s].d
      BY <2>1, <2>5
    <3>3. OneTaskPerDelivery
      BY DEF IntakeInv
    <3>. QED
      BY <2>2, <2>5, <3>1, <3>2, <3>3 DEF OneTaskPerDelivery
  <2>. QED
    BY <1>1, <2>5, <2>6, <2>7, <2>8
<1>4. ASSUME NEW s \in Slots, Moved(s), ~\E row \in Task : Inserted(s, row)
      PROVE  DOMAIN tasks' = DOMAIN tasks
  BY <1>4 DEF Moved, Received, Recorded, Left, Forward, Swept
<1>5. Outside \/ Touched => DOMAIN tasks' = DOMAIN tasks
  BY DEF Outside, Touched
<1>. QED
  BY <1>2, <1>3, <1>4, <1>5 DEF AnyMove

\* ClosedStays: nothing reopens a pull request.
LEMMA KeepClosed ==
    ASSUME IntakeInv, AnyMove
    PROVE  ClosedStays'
<1>0. ClosedStays
  BY DEF IntakeInv
<1>1. CASE Outside
  BY <1>0, <1>1 DEF Outside, ClosedStays
<1>2. CASE Touched
  BY <1>0, <1>2 DEF Touched, ClosedStays
<1>3. ASSUME NEW s \in Slots, Moved(s) PROVE ClosedStays'
  <2>1. UNCHANGED <<sent, pr>>
    BY <1>3 DEF Moved, Received, Recorded, Left, Forward, Swept, Inserted, Elsewhere
  <2>. QED
    BY <1>0, <2>1 DEF ClosedStays
<1>. QED
  BY <1>1, <1>2, <1>3 DEF AnyMove

\* A recorded delivery keeps its request or gets its answer.
LEMMA KeepHandled ==
    ASSUME IntakeInv, AnyMove
    PROVE  Handled'
<1>0. /\ TypeOK /\ Common /\ \A u \in Slots : RequestOK(u)
      /\ deliveries \subseteq DOMAIN sent
      /\ Handled
  BY EveryMove, Types DEF IntakeInv, AnyMove
<1>1. \A d \in deliveries : Answered(d) => Answered(d)'
  BY <1>0, KeepAnswered
<1>2. CASE Outside \/ Touched
  <2>1. UNCHANGED <<handler, deliveries, skipped>>
    BY <1>2 DEF Outside, Touched
  <2>2. \A d : InProgress(d) => InProgress(d)'
    BY <2>1 DEF InProgress
  <2>. QED
    BY <1>0, <1>1, <2>1, <2>2 DEF Handled
<1>3. ASSUME NEW s \in Slots, Moved(s) PROVE Handled'
  <2>1. SUFFICES ASSUME NEW d \in deliveries' \ skipped' PROVE InProgress(d)' \/ Answered(d)'
    BY DEF Handled
  <2>2. \A u \in Slots \ {s} : handler'[u] = handler[u]
    BY <1>3 DEF Moved, Received, Recorded, Left, Forward, Swept, Inserted, Elsewhere
  <2>3. ASSUME NEW u \in Slots \ {s}, handler[u].d = d, handler[u].pc \in Working \ {"supersede"}
        PROVE  InProgress(d)'
    BY <2>2, <2>3 DEF InProgress
  <2>4. CASE handler'[s].d = d /\ handler'[s].pc \in Working \ {"supersede"}
    BY <2>4 DEF InProgress
  <2>5. CASE d \notin deliveries \ skipped
    <3>1. Recorded(s) /\ d = handler[s].d
      BY <1>3, <2>1, <2>5 DEF Moved, Received, Recorded, Left, Forward, Swept, Inserted
    <3>. QED
      BY <2>4, <3>1 DEF Recorded, Working
  <2>6. CASE d \in deliveries \ skipped /\ Answered(d)
    BY <1>1, <2>6
  <2>7. CASE /\ d \in deliveries \ skipped /\ handler[s].d = d
             /\ handler[s].pc \in Working \ {"supersede"}
    <3>0. handler[s].pc \notin {"idle", "persist", "supersede"}
      BY <2>7 DEF Working
    <3>1. CASE Left(s)
      BY <2>1, <2>6, <2>7, <3>0, <3>1 DEF Left
    <3>2. CASE Forward(s)
      BY <2>4, <2>7, <3>2 DEF Forward
    <3>3. CASE Swept(s)
      <4>1. sent[d].kind = "close"
        BY <1>0, <2>7, <3>0, <3>3 DEF Swept, RequestOK
      <4>2. Answered(d)
        BY <4>1, NothingToAnswer DEF acted_on
      <4>. QED
        BY <2>6, <2>7, <4>2
    <3>4. ASSUME NEW row \in Task, Inserted(s, row) PROVE Answered(d)'
      <4>1. /\ tasks' = Append(tasks, row) /\ row.delivery = d /\ UNCHANGED <<sent, settings>>
            /\ row.entry = "mention" => sent[d].kind = "mention"
            /\ row.entry # "mention" => sent[d].kind # "mention" /\ row.head = sent[d].head
        BY <2>7, <3>4 DEF Inserted, Elsewhere
      <4>2. \E t \in DOMAIN tasks' : tasks'[t] = row
        BY <1>0, <4>1, AppendedRow
      <4>. QED
        BY <4>1, <4>2 DEF Answered, acted_on
    <3>. QED
      BY <1>3, <3>0, <3>1, <3>2, <3>3, <3>4 DEF Moved, Received, Recorded
  <2>. QED
    BY <1>0, <2>3, <2>5, <2>6, <2>7 DEF Handled, InProgress
<1>. QED
  BY <1>2, <1>3 DEF AnyMove

\* The initial states.
LEMMA IntakeInit == ASSUME Init PROVE IntakeInv
<1>1. PICK w \in Worlds : settings = w.settings /\ left = w.left
  BY DEF Init
<1>2. settings \in Settings /\ left \in Budget
  BY <1>1, WorldSet
<1>3. [kind |-> "open", head |-> 1] \in Event /\ 1 \in Heads
  BY IntakeBounds DEF Event, Heads, Kinds, PullRequestKinds
<1>4. sent \in Seq(Event) /\ \A d \in DOMAIN sent : sent[d].kind # "close"
  BY <1>3 DEF Init
<1>5. tasks \in Seq(Task) /\ DOMAIN tasks = {}
  BY DEF Init
<1>6. handler \in [Slots -> Handler] /\ \A s \in Slots : handler[s].pc = "idle"
  BY IdleHandler DEF Init
<1>7. TypeOK
  BY <1>2, <1>3, <1>4, <1>5, <1>6 DEF Init, TypeOK
<1>8. \A s \in Slots : RequestOK(s) /\ RequestEpochOK(s)
  BY <1>6 DEF RequestOK, RequestEpochOK, Working
<1>. QED
  BY <1>4, <1>5, <1>6, <1>7, <1>8
     DEF Init, IntakeInv, OneRequest, OneTaskPerDelivery, ClosedStays, Handled, Working

\* The inductive invariant of webhook intake: what each request, task and delivery
\* knows of the others, in every interleaving of requests, redeliveries and failures.
THEOREM IntakeInvariant == Spec => []IntakeInv
<1>1. Init => IntakeInv
  BY IntakeInit
<1>2. IntakeInv /\ [Next]_vars => IntakeInv'
  <2>. SUFFICES ASSUME IntakeInv, [Next]_vars PROVE IntakeInv'
    OBVIOUS
  <2>1. AnyMove
    BY Moves DEF AnyMove
  <2>2. TypeOK' /\ OneRequest' /\ OneTaskPerDelivery' /\ ClosedStays' /\ Handled'
    BY <2>1, KeepTypes, KeepOneRequest, KeepTasks, KeepClosed, KeepHandled
  <2>3. \A u \in Slots : RequestOK(u)' /\ RequestEpochOK(u)'
    BY <2>1, KeepRequests
  <2>4. \A t \in DOMAIN tasks' : TaskOK(t)' /\ TaskEpochOK(t)'
    BY <2>1, KeepTasks
  <2>. QED
    BY <2>2, <2>3, <2>4 DEF IntakeInv
<1>. QED
  BY <1>1, <1>2, PTL DEF Spec

-----------------------------------------------------------------------------
(* What follows from it.                                                   *)

\* MAX_ATTEMPTS lost races need as many other mentions.
LEMMA LostRaces ==
    ASSUME IntakeInv, NEW d \in DOMAIN sent, sent[d].kind = "mention",
           \A t \in DOMAIN tasks : tasks[t].delivery # d,
           NEW h \in Heads, Reached(h, MaxAttempts)
    PROVE  Cardinality({x \in DOMAIN sent : sent[x].kind = "mention"}) > MaxAttempts
<1>. DEFINE M == {x \in DOMAIN sent : sent[x].kind = "mention"}
            E == 0 .. MaxAttempts - 1
            row(e) == CHOOSE t \in DOMAIN tasks :
                        tasks[t].entry = "mention" /\ tasks[t].head = h /\ tasks[t].epoch = e
            f == [e \in E |-> tasks[row(e)].delivery]
<1>0. MaxAttempts \in Nat /\ MaxAttempts >= 1 /\ TypeOK
  BY IntakeBounds DEF IntakeInv
<1>1. \A e \in E : /\ row(e) \in DOMAIN tasks /\ tasks[row(e)].entry = "mention"
                   /\ tasks[row(e)].epoch = e
  BY DEF Reached
<1>. HIDE DEF row
<1>2. ASSUME NEW e \in E PROVE f[e] \in M \ {d}
  <2>1. row(e) \in DOMAIN tasks /\ tasks[row(e)].entry = "mention" /\ TaskOK(row(e))
    BY <1>1 DEF IntakeInv
  <2>2. tasks[row(e)].delivery \in deliveries /\ sent[tasks[row(e)].delivery].kind = "mention"
        /\ tasks[row(e)].delivery # d
    BY <2>1 DEF TaskOK
  <2>3. deliveries \subseteq DOMAIN sent
    BY <1>0, Types
  <2>. QED
    BY <2>2, <2>3
<1>3. f \in Injection(E, M \ {d})
  <2>1. f \in [E -> M \ {d}]
    BY <1>2
  <2>2. ASSUME NEW a \in E, NEW b \in E, f[a] = f[b] PROVE a = b
    <3>1. tasks[row(a)].delivery = tasks[row(b)].delivery
      BY <2>2
    <3>2. row(a) = row(b)
      BY <1>1, <3>1 DEF IntakeInv, OneTaskPerDelivery
    <3>. QED
      BY <1>1, <3>2
  <2>. QED
    BY <2>1, <2>2 DEF Injection, IsInjective
<1>4. IsFiniteSet(M)
  <2>1. DOMAIN sent = 1 .. Len(sent) /\ Len(sent) \in Nat
    BY <1>0, Types
  <2>2. IsFiniteSet(DOMAIN sent)
    BY <2>1, FS_Interval
  <2>. QED
    BY <2>2, FS_Subset
<1>. HIDE DEF f, M
<1>5. IsFiniteSet(E) /\ Cardinality(E) = MaxAttempts
  BY <1>0, FS_Interval
<1>6. d \in M
  BY DEF M
<1>7. IsFiniteSet(M \ {d}) /\ Cardinality(M \ {d}) = Cardinality(M) - 1
  BY <1>4, <1>6, FS_RemoveElement
<1>8. Cardinality(E) <= Cardinality(M \ {d})
  BY <1>3, <1>5, <1>7, FS_Injection
<1>9. Cardinality(M) \in Nat
  BY <1>4, FS_CardinalityType
<1>. QED
  BY <1>0, <1>5, <1>7, <1>8, <1>9 DEF M

\* When no request is left, every recorded delivery that was not dropped is answered.
LEMMA QuietAnswers ==
    ASSUME IntakeInv, Quiet, NEW d \in deliveries \ skipped
    PROVE  Answered(d)
<1>1. ~InProgress(d)
  BY DEF Quiet, InProgress, Working
<1>. QED
  BY <1>1 DEF IntakeInv, Handled

\* However often a delivery is sent and wherever its requests stop, it makes at
\* most one task: persist_delivery lets one request through and that one inserts
\* once.
THEOREM DeliveriesMakeOneTask == Spec => []OneTaskPerDelivery
<1>1. IntakeInv => OneTaskPerDelivery
  BY DEF IntakeInv
<1>. QED
  BY <1>1, IntakeInvariant, PTL

\* A mention that passed the gates has its task when the service is quiet, if no
\* more than MAX_ATTEMPTS mentions were sent: every refused attempt of
\* create_explicit_task found one more epoch taken, each by another mention.
THEOREM MentionsLand == Spec => []MentionLands
<1>1. IntakeInv => MentionLands
  <2>1. SUFFICES ASSUME IntakeInv, Quiet,
                        Cardinality({x \in DOMAIN sent : sent[x].kind = "mention"}) <= MaxAttempts,
                        NEW d \in deliveries \ skipped, sent[d].kind = "mention"
                 PROVE  \E t \in DOMAIN tasks : tasks[t].delivery = d
    BY DEF MentionLands
  <2>2. Answered(d)
    BY <2>1, QuietAnswers
  <2>3. d \in DOMAIN sent /\ TypeOK
    BY <2>1, Types DEF IntakeInv
  <2>4. ASSUME NEW h \in Heads, Reached(h, MaxAttempts),
               \A t \in DOMAIN tasks : tasks[t].delivery # d
        PROVE  FALSE
    <3>. DEFINE c == Cardinality({x \in DOMAIN sent : sent[x].kind = "mention"})
    <3>1. c > MaxAttempts
      BY <2>1, <2>3, <2>4, LostRaces
    <3>2. IsFiniteSet({x \in DOMAIN sent : sent[x].kind = "mention"})
      <4>1. DOMAIN sent = 1 .. Len(sent) /\ Len(sent) \in Nat
        BY <2>3, Types
      <4>2. IsFiniteSet(DOMAIN sent)
        BY <4>1, FS_Interval
      <4>. QED
        BY <4>2, FS_Subset
    <3>3. c \in Nat /\ MaxAttempts \in Nat
      BY <3>2, FS_CardinalityType, IntakeBounds
    <3>4. c <= MaxAttempts
      BY <2>1
    <3>. HIDE DEF c
    <3>. QED
      BY <3>1, <3>3, <3>4
  <2>. QED
    BY <2>1, <2>2, <2>4 DEF Answered
<1>. QED
  BY <1>1, IntakeInvariant, PTL

\* A review a human asked for is cancelled only after the pull request was closed,
\* under every push strategy.
THEOREM PushesSpareMentions == Spec => []PushSparesMentions
<1>1. IntakeInv => PushSparesMentions
  BY DEF IntakeInv, TaskOK, PushSparesMentions
<1>. QED
  BY <1>1, IntakeInvariant, PTL

\* Unless pushes supersede, the newest head of an open pull request has a review
\* that is not cancelled once the event that announced it is handled, for any
\* number of concurrent and reordered requests.
THEOREM NewestHeadsReviewed ==
    Spec => [](settings.strategy # "supersede" => NewestHeadReviewed)
<1>1. IntakeInv => (settings.strategy # "supersede" => NewestHeadReviewed)
  <2>1. SUFFICES ASSUME IntakeInv, settings.strategy # "supersede", Quiet, pr.open,
                        NEW d \in deliveries \ skipped, Announces(d), acted_on(sent[d])
                 PROVE  \E t \in DOMAIN tasks :
                          Automatic(t) /\ tasks[t].head = pr.head /\ tasks[t].status # "cancelled"
    BY DEF NewestHeadReviewed
  <2>2. PICK t \in DOMAIN tasks : tasks[t].entry # "mention" /\ tasks[t].head = sent[d].head
    BY <2>1, QuietAnswers DEF Answered
  <2>3. TaskOK(t) /\ TypeOK
    BY <2>1 DEF IntakeInv
  <2>4. tasks[t].status # "cancelled"
    BY <2>1, <2>3 DEF TaskOK
  <2>5. Automatic(t)
    BY <2>2, <2>3, Types DEF Automatic, Task
  <2>. QED
    BY <2>1, <2>2, <2>4, <2>5 DEF Announces
<1>. QED
  BY <1>1, IntakeInvariant, PTL

-----------------------------------------------------------------------------
(* Superseding pushes, handled one at a time and in order.                 *)

\* The bounds on the environment only fall, and the settings stay.
LEMMA SeriallyStays ==
    ASSUME TypeOK, Serially, [Next]_vars
    PROVE  /\ Serially' /\ ~pr_reset /\ settings' = settings
           /\ left'.redeliveries > 0 => left.redeliveries > 0
<1>0. left \in Budget
  BY Types
<1>1. settings' = settings
  BY DEF Next, vars, platformVars, pr_push, pr_reset, pr_close, pr_mention, pr_noise, base_push,
         deny, index_ends, quiet_period_ends, run_ends, Request, Handle, verified_payload,
         persist_delivery, route_github_event, gitlab_webhook_body, bitbucket_webhook_body,
         handle_pull_request, handle_gitlab_merge_request, handle_bitbucket_pullrequest,
         handle_push, handle_gitlab_push, handle_bitbucket_push, handle_issue_comment,
         handle_gitlab_note, handle_bitbucket_comment, Ignored, ForPullRequest, ForPush,
         ForComment, pr_shas, create_index_task, create_task, supersede_older_reviews,
         cancel_active_tasks_for_pr, next_epoch, create_explicit_task, request_fails, receive,
         stepVars
<1>2. \/ UNCHANGED left
      \/ \E b \in {"pushes", "resets", "mentions", "closes", "noise", "redeliveries", "faults",
                   "indexes", "denials"} : Spend(b)
  BY DEF Next, vars, platformVars, pr_push, pr_reset, pr_close, pr_mention, pr_noise, base_push,
         deny, index_ends, quiet_period_ends, run_ends, Request, Handle, verified_payload,
         persist_delivery, route_github_event, gitlab_webhook_body, bitbucket_webhook_body,
         handle_pull_request, handle_gitlab_merge_request, handle_bitbucket_pullrequest,
         handle_push, handle_gitlab_push, handle_bitbucket_push, handle_issue_comment,
         handle_gitlab_note, handle_bitbucket_comment, Ignored, ForPullRequest, ForPush,
         ForComment, pr_shas, create_index_task, create_task, supersede_older_reviews,
         cancel_active_tasks_for_pr, next_epoch, create_explicit_task, request_fails, receive,
         stepVars
<1>3. \A b \in {"resets", "redeliveries", "faults"} :
          left[b] \in Nat /\ left'[b] \in Nat /\ left'[b] <= left[b]
  BY <1>0, <1>2 DEF Spend, Budget
<1>4. ~pr_reset
  BY DEF pr_reset, Spend, Serially
<1>. QED
  BY <1>1, <1>3, <1>4 DEF Serially

\* What is there at the start.
LEMMA SerialInit == ASSUME Init, Serially PROVE SerialInv
<1>1. DOMAIN sent = {1} /\ sent[1].head = 1 /\ pr.head = 1
  BY DEF Init
<1>2. HeadsRise
  BY <1>1 DEF HeadsRise
<1>3. DOMAIN tasks = {} /\ received = {} /\ deliveries = {}
  BY DEF Init
<1>4. \A s \in Slots : handler[s].pc = "idle"
  BY IdleHandler DEF Init
<1>5. InOrder
  BY <1>3, <1>4 DEF InOrder, Newest, Working
<1>. QED
  BY <1>2, <1>3, <1>5 DEF SerialInv, OnRecord, ReviewsHead

\* What the parts of SerialInv say of numbers.
LEMMA SerialTypes ==
    ASSUME TypeOK
    PROVE  /\ DOMAIN sent = 1 .. Len(sent) /\ Len(sent) \in Nat
           /\ \A d \in DOMAIN sent : sent[d].head \in Nat
           /\ pr.head \in Nat
           /\ \A t \in DOMAIN tasks : tasks[t].head \in Nat /\ tasks[t].delivery \in Nat
           /\ \A s \in Slots : handler[s].d \in Nat
<1>1. Heads \subseteq Nat
  BY IntakeBounds DEF Heads
<1>2. sent \in Seq(Event) /\ pr \in [open : BOOLEAN, head : Heads]
  BY Types
<1>3. \A d \in DOMAIN sent : sent[d] \in Event
  BY Types
<1>4. \A t \in DOMAIN tasks : tasks[t] \in Task
  BY Types
<1>5. \A s \in Slots : handler[s] \in Handler
  BY Types
<1>6. DOMAIN sent = 1 .. Len(sent) /\ Len(sent) \in Nat
  BY <1>2
<1>. QED
  BY <1>1, <1>2, <1>3, <1>4, <1>5, <1>6 DEF Event, Task, Handler

\* The automatic review of a head comes from the one delivery that announced it,
\* so a request on its way to its insert finds none.
LEMMA NoReviewYet ==
    ASSUME IntakeInv, SerialInv, NEW s \in Slots, handler[s].pc \in Working \ {"supersede"},
           sent[handler[s].d].kind = "update", acted_on(sent[handler[s].d])
    PROVE  ~Answered(handler[s].d)
<1>. DEFINE d == handler[s].d
<1>1. SUFFICES ASSUME Answered(d) PROVE FALSE
  OBVIOUS
<1>2. PICK t \in DOMAIN tasks : tasks[t].entry # "mention" /\ tasks[t].head = sent[d].head
  BY <1>1 DEF Answered
<1>0. TypeOK
  BY DEF IntakeInv
<1>3. tasks[t].delivery \in deliveries /\ Automatic(t)
  BY <1>0, <1>2, Types DEF IntakeInv, TaskOK, Automatic, Task
<1>4. tasks[t].delivery \in DOMAIN sent /\ Heading(tasks[t].delivery)
      /\ sent[tasks[t].delivery].head = sent[d].head
  BY <1>0, <1>2, <1>3, Types DEF SerialInv, ReviewsHead
<1>5. d \in DOMAIN sent /\ Heading(d) /\ tasks[t].delivery # d
  BY <1>0, Types DEF IntakeInv, RequestOK, Heading, Working
<1>6. sent[d].head \in Nat /\ d \in 1 .. Len(sent) /\ tasks[t].delivery \in 1 .. Len(sent)
      /\ Len(sent) \in Nat
  BY <1>0, <1>4, <1>5, SerialTypes
<1>. HIDE DEF d
<1>7. /\ tasks[t].delivery < d => sent[tasks[t].delivery].head < sent[d].head
      /\ d < tasks[t].delivery => sent[d].head < sent[tasks[t].delivery].head
  BY <1>4, <1>5, <1>6 DEF SerialInv, HeadsRise
<1>. QED
  BY <1>4, <1>5, <1>6, <1>7

\* The routers know the same events after a step that changes no settings.
LEMMA RoutesStay ==
    ASSUME settings' = settings, sent' = sent, NEW d
    PROVE  is_routed_event(sent[d])' <=> is_routed_event(sent[d])
  BY DEF is_routed_event, Route, github_route, gitlab_route, bitbucket_route

\* A request past its record goes on, is dropped, or ends where it asked for nothing.
LEMMA SerialForward ==
    ASSUME IntakeInv, SerialInv, Serially', NEW s \in Slots, Elsewhere(s),
           left'.redeliveries > 0 => left.redeliveries > 0,
           UNCHANGED <<received, deliveries, tasks>>, skipped \subseteq skipped',
           handler[s].pc \in Working,
           \/ handler'[s].pc \in Working /\ handler'[s].d = handler[s].d
           \/ /\ handler'[s] = Idle
              /\ \/ handler[s].d \in skipped'
                 \/ handler[s].pc # "supersede" /\ Answered(handler[s].d)
    PROVE  SerialInv'
<1>0. /\ UNCHANGED <<settings, pr, sent>> /\ \A u \in Slots \ {s} : handler'[u] = handler[u]
      /\ "persist" \notin Working /\ "idle" \notin Working /\ Idle.pc = "idle"
  BY IdleHandler DEF Elsewhere, Working
<1>1. HeadsRise'
  BY <1>0 DEF SerialInv, HeadsRise, Heading
<1>2. \A u \in Slots : handler'[u].pc # "idle" =>
          /\ handler[u].pc # "idle" /\ handler'[u].d = handler[u].d
          /\ handler'[u].pc \in Working <=> handler[u].pc \in Working
          /\ handler'[u].pc = "persist" <=> handler[u].pc = "persist"
  BY <1>0
<1>3. \A u \in Slots : Newest(u)' => Newest(u) /\ handler'[u].d = handler[u].d
  BY <1>0, <1>2, RoutesStay DEF Newest, EventOf
<1>4. InOrder'
  BY <1>2, <1>3 DEF SerialInv, InOrder
<1>5. OnRecord'
  <2>1. \A u \in Slots : handler[u].pc = "persist" => handler'[u] = handler[u]
    BY <1>0
  <2>. QED
    BY <1>0, <2>1, RoutesStay DEF SerialInv, OnRecord
<1>6. ReviewsHead'
  BY <1>0 DEF SerialInv, ReviewsHead, Heading, Automatic
<1>7. ASSUME settings.strategy = "supersede", NEW d \in deliveries \ skipped',
             sent[d].kind = "update", acted_on(sent[d])
      PROVE  Superseded(d)'
  <2>1. Superseded(d)
    BY <1>7 DEF SerialInv
  <2>2. ASSUME NEW u \in Slots, handler[u].d = d, handler[u].pc \in Working
        PROVE  \E v \in Slots : handler'[v].d = d /\ handler'[v].pc \in Working
    <3>1. CASE u # s
      BY <1>0, <2>2, <3>1
    <3>2. CASE u = s
      BY <1>7, <2>2, <3>2, NoReviewYet
    <3>. QED
      BY <3>1, <3>2
  <2>. QED
    BY <1>0, <2>1, <2>2 DEF Superseded, Automatic, Active
<1>. QED
  BY <1>0, <1>1, <1>4, <1>5, <1>6, <1>7 DEF SerialInv, acted_on

\* Before its record a request ends.
LEMMA SerialRefused ==
    ASSUME IntakeInv, SerialInv, Serially', NEW s \in Slots, Elsewhere(s),
           left'.redeliveries > 0 =>
               /\ left.redeliveries > 0
               /\ handler[s].d \in deliveries \/ ~is_routed_event(EventOf(s)),
           UNCHANGED <<received, deliveries, tasks>>, skipped \subseteq skipped',
           handler[s].pc = "persist", handler'[s] = Idle
    PROVE  SerialInv'
<1>0. /\ UNCHANGED <<settings, pr, sent>> /\ \A u \in Slots \ {s} : handler'[u] = handler[u]
      /\ "persist" \notin Working /\ "idle" \notin Working /\ Idle.pc = "idle"
  BY IdleHandler DEF Elsewhere, Working
<1>1. HeadsRise'
  BY <1>0 DEF SerialInv, HeadsRise, Heading
<1>2. \A u \in Slots : handler'[u].pc # "idle" => handler'[u] = handler[u]
  BY <1>0
<1>3. \A u \in Slots : Newest(u)' => Newest(u) /\ handler'[u].d = handler[u].d
  BY <1>0, <1>2, RoutesStay DEF Newest, EventOf
<1>4. InOrder'
  BY <1>2, <1>3 DEF SerialInv, InOrder
<1>5. OnRecord'
  BY <1>0, RoutesStay DEF SerialInv, OnRecord, EventOf
<1>6. ReviewsHead'
  BY <1>0 DEF SerialInv, ReviewsHead, Heading, Automatic
<1>7. ASSUME settings.strategy = "supersede", NEW d \in deliveries \ skipped',
             sent[d].kind = "update", acted_on(sent[d])
      PROVE  Superseded(d)'
  <2>1. Superseded(d)
    BY <1>7 DEF SerialInv
  <2>. QED
    BY <1>0, <2>1 DEF Superseded, Automatic, Active
<1>. QED
  BY <1>0, <1>1, <1>4, <1>5, <1>6, <1>7 DEF SerialInv, acted_on

\* persist_delivery lets the request through.
LEMMA SerialRecorded ==
    ASSUME IntakeInv, SerialInv, Serially', NEW s \in Slots, Recorded(s),
           left'.redeliveries > 0 => left.redeliveries > 0, is_routed_event(EventOf(s))
    PROVE  SerialInv'
<1>. DEFINE d == handler[s].d
<1>0. /\ UNCHANGED <<settings, pr, sent, received, tasks>>
      /\ \A u \in Slots \ {s} : handler'[u] = handler[u]
      /\ handler[s].pc = "persist" /\ d \notin deliveries
      /\ deliveries' = deliveries \cup {d} /\ skipped' = skipped \ {d}
      /\ handler'[s].pc = "route" /\ handler'[s].d = d
      /\ "persist" \notin Working /\ "idle" \notin Working /\ "route" \in Working
  BY DEF Recorded, Elsewhere, Working
<1>1. HeadsRise'
  BY <1>0 DEF SerialInv, HeadsRise, Heading
<1>2. \A u \in Slots : Newest(u)' => Newest(u) /\ handler'[u].d = handler[u].d
  BY <1>0, RoutesStay DEF Newest, EventOf
<1>3. InOrder'
  BY <1>0, <1>2 DEF SerialInv, InOrder
<1>4. OnRecord'
  BY <1>0, RoutesStay DEF SerialInv, OnRecord
<1>5. ReviewsHead'
  BY <1>0 DEF SerialInv, ReviewsHead, Heading, Automatic
<1>6. ASSUME settings.strategy = "supersede", NEW e \in deliveries' \ skipped',
             sent[e].kind = "update", acted_on(sent[e])
      PROVE  Superseded(e)'
  <2>1. CASE e = d
    BY <1>0, <2>1 DEF Superseded
  <2>2. CASE e # d
    <3>1. Superseded(e)
      BY <1>0, <1>6, <2>2 DEF SerialInv
    <3>. QED
      BY <1>0, <2>2, <3>1 DEF Superseded, Automatic, Active
  <2>. QED
    BY <2>1, <2>2
<1>. QED
  BY <1>0, <1>1, <1>3, <1>4, <1>5, <1>6 DEF SerialInv, acted_on

\* A delivery arrives: the next one, or one that is on record.
LEMMA SerialReceived ==
    ASSUME IntakeInv, SerialInv, Serially', NEW s \in Slots, NEW d \in DOMAIN sent,
           receive(s, d), left'.redeliveries > 0 => left.redeliveries > 0
    PROVE  SerialInv'
<1>. DEFINE q == [Idle EXCEPT !.pc = "persist", !.d = d]
<1>1. q \in Handler /\ q.pc = "persist" /\ q.d = d
  BY Types DEF Idle, Handler, IntakeInv
<1>2. /\ UNCHANGED <<settings, pr, sent, deliveries, tasks, skipped>>
      /\ received' = received \cup {d} /\ handler' = [handler EXCEPT ![s] = q]
      /\ handler[s].pc = "idle" /\ s <= settings.slots
      /\ \/ d \notin received /\ 1 .. d - 1 \subseteq received
         \/ d \in received /\ left.redeliveries > 0
  BY DEF receive, platformVars, SerialInv, Serially, Spend
<1>. HIDE DEF q
<1>3. handler'[s] = q /\ \A u \in Slots \ {s} : handler'[u] = handler[u]
  BY <1>1, <1>2, SetHandler, Types DEF IntakeInv
<1>4. s = 1
  BY <1>2, IntakeBounds DEF SerialInv, Serially, Slots
<1>5. \A u \in Slots : u # s => handler[u].pc = "idle"
  BY <1>4 DEF SerialInv, InOrder
<1>6. HeadsRise'
  BY <1>2 DEF SerialInv, HeadsRise, Heading
<1>7. d \in 1 .. Len(sent) /\ Len(sent) \in Nat /\ received \subseteq 1 .. Len(sent)
  BY SerialTypes, Types DEF IntakeInv
<1>8. InOrder'
  <2>1. \A e \in received' : 1 .. e \subseteq received'
    BY <1>2, <1>7 DEF SerialInv, InOrder
  <2>2. ASSUME NEW u \in Slots, Newest(u)', NEW e \in received' PROVE e <= handler'[u].d
    <3>1. u = s /\ handler'[u].d = d
      BY <1>1, <1>3, <1>5, <2>2 DEF Newest, Working
    <3>2. d \notin deliveries /\ is_routed_event(sent[d])
      <4>1. /\ handler'[s].pc = "persist" /\ handler'[s].d = d
            /\ "persist" \notin Working
        BY <1>1, <1>3 DEF Working
      <4>. QED
        BY <1>2, <2>2, <3>1, <4>1, RoutesStay DEF Newest, EventOf
    <3>3. d \notin received
      <4>1. ASSUME d \in received PROVE FALSE
        <5>1. \E v \in Slots : handler[v].pc = "persist"
          BY <1>2, <3>2, <4>1 DEF SerialInv, OnRecord
        <5>. QED
          BY <1>2, <1>5, <5>1
      <4>. QED
        BY <4>1
    <3>4. \A f \in received : f < d
      BY <1>7, <3>3 DEF SerialInv, InOrder
    <3>. QED
      BY <1>2, <1>7, <3>1, <3>4
  <2>3. \A u \in Slots : handler'[u].pc # "idle" => u = 1
    BY <1>3, <1>4, <1>5
  <2>. QED
    BY <2>1, <2>2, <2>3 DEF InOrder
<1>9. OnRecord'
  <2>1. ASSUME left.redeliveries > 0, NEW e \in received, e \notin deliveries
        PROVE  ~is_routed_event(sent[e])
    BY <1>2, <1>5, <2>1 DEF SerialInv, OnRecord
  <2>2. handler'[s].pc = "persist" /\ handler'[s].d = d
    BY <1>1, <1>3
  <2>. QED
    BY <1>2, <2>1, <2>2, RoutesStay DEF OnRecord
<1>10. ReviewsHead'
  BY <1>2 DEF SerialInv, ReviewsHead, Heading, Automatic
<1>11. ASSUME settings.strategy = "supersede", NEW e \in deliveries \ skipped,
             sent[e].kind = "update", acted_on(sent[e])
      PROVE  Superseded(e)'
  <2>1. Superseded(e)
    BY <1>11 DEF SerialInv
  <2>2. \A u \in Slots : handler[u].pc \notin Working
    BY <1>2, <1>5 DEF Working
  <2>. QED
    BY <1>2, <2>1, <2>2 DEF Superseded, Automatic, Active
<1>. QED
  BY <1>2, <1>6, <1>8, <1>9, <1>10, <1>11 DEF SerialInv, acted_on

\* A step of the platform: only a push announces a head, and it is a new one.
LEMMA SerialOutside ==
    ASSUME IntakeInv, SerialInv, Serially', ~pr_reset,
           left'.redeliveries > 0 => left.redeliveries > 0,
           pr_push \/ pr_close \/ pr_mention \/ pr_noise \/ base_push \/ deny
    PROVE  SerialInv'
<1>. DEFINE n == Len(sent)
<1>0. TypeOK /\ Outside
  BY OutsideSteps DEF IntakeInv
<1>1. sent \in Seq(Event) /\ n \in Nat /\ DOMAIN sent = 1 .. n /\ pr \in [open : BOOLEAN, head : Heads]
  BY <1>0, Types, SerialTypes
<1>2. /\ UNCHANGED <<settings, received, deliveries, handler, tasks, skipped>>
      /\ DOMAIN sent \subseteq DOMAIN sent' /\ \A d \in DOMAIN sent : sent'[d] = sent[d]
      /\ pr'.open => pr.open
  BY <1>0 DEF Outside
<1>3. /\ pr'.head >= pr.head
      /\ \A d \in DOMAIN sent' \ DOMAIN sent :
            d = n + 1 /\ (Heading(d)' => sent'[d].head = pr'.head /\ pr'.head > pr.head)
  <2>0. pr.head \in Nat
    BY <1>0, SerialTypes
  <2>1. ASSUME NEW k, NEW h, Send(k, h)
        PROVE  /\ DOMAIN sent' = 1 .. n + 1 /\ sent'[n + 1].kind = k /\ sent'[n + 1].head = h
    BY <1>1, <2>1 DEF Send
  <2>2. CASE pr_push
    BY <1>1, <2>0, <2>1, <2>2 DEF pr_push
  <2>3. CASE pr_close \/ pr_mention \/ base_push
    <3>1. PICK k \in {"close", "mention", "base"} : Send(k, pr.head) /\ pr'.head = pr.head
      BY <1>1, <2>3 DEF pr_close, pr_mention, base_push
    <3>. QED
      BY <1>1, <2>0, <2>1, <3>1 DEF Heading
  <2>4. CASE pr_noise
    <3>1. PICK k \in NoiseKinds : Send(k, pr.head) /\ pr'.head = pr.head
      BY <2>4 DEF pr_noise
    <3>. QED
      BY <1>1, <2>0, <2>1, <3>1 DEF Heading, NoiseKinds
  <2>5. CASE deny
    BY <2>0, <2>5 DEF deny, platformVars
  <2>. QED
    BY <2>2, <2>3, <2>4, <2>5
<1>4. \A d \in DOMAIN sent : Heading(d)' <=> Heading(d)
  BY <1>2 DEF Heading
<1>5. HeadsRise'
  <2>0. pr.head \in Nat /\ pr'.head \in Nat /\ \A d \in DOMAIN sent : sent[d].head \in Nat
    <3>1. pr' \in [open : BOOLEAN, head : Heads]
      BY <1>0 DEF Outside
    <3>. QED
      BY <1>0, <3>1, SerialTypes, IntakeBounds DEF Heads
  <2>1. ASSUME NEW d \in DOMAIN sent', Heading(d)'
        PROVE  /\ sent'[d].head <= pr'.head
               /\ \A e \in 1 .. d - 1 : Heading(e)' => sent'[e].head < sent'[d].head
    <3>1. CASE d \in DOMAIN sent
      <4>1. sent[d].head <= pr.head /\ \A e \in 1 .. d - 1 : Heading(e) => sent[e].head < sent[d].head
        BY <1>4, <2>1, <3>1 DEF SerialInv, HeadsRise
      <4>2. 1 .. d - 1 \subseteq DOMAIN sent
        BY <1>1, <3>1
      <4>. QED
        BY <1>2, <1>3, <1>4, <2>0, <3>1, <4>1, <4>2
    <3>2. CASE d \notin DOMAIN sent
      <4>1. d = n + 1 /\ sent'[d].head = pr'.head /\ pr'.head > pr.head
        BY <1>3, <2>1, <3>2
      <4>2. \A e \in DOMAIN sent : Heading(e) => sent[e].head <= pr.head
        BY DEF SerialInv, HeadsRise
      <4>3. 1 .. d - 1 = DOMAIN sent
        BY <1>1, <4>1
      <4>. QED
        BY <1>2, <1>4, <2>0, <4>1, <4>2, <4>3
    <3>. QED
      BY <3>1, <3>2
  <2>. QED
    BY <2>1 DEF HeadsRise
<1>6. received \subseteq DOMAIN sent /\ deliveries \subseteq DOMAIN sent
      /\ \A s \in Slots : handler[s].pc # "idle" => handler[s].d \in DOMAIN sent
  BY <1>0, Types DEF IntakeInv, RequestOK
<1>7. \A d \in DOMAIN sent : is_routed_event(sent[d])' <=> is_routed_event(sent[d])
  BY <1>2 DEF is_routed_event, Route, github_route, gitlab_route, bitbucket_route
<1>8. InOrder' /\ OnRecord'
  <2>1. \A s \in Slots : Newest(s)' => Newest(s)
    <3>1. ASSUME NEW s \in Slots, Newest(s)' PROVE Newest(s)
      <4>1. CASE handler[s].pc = "idle"
        BY <1>2, <3>1, <4>1 DEF Newest, Working
      <4>2. CASE handler[s].pc # "idle"
        <5>1. is_routed_event(EventOf(s))' <=> is_routed_event(EventOf(s))
          <6>1. handler[s].d \in DOMAIN sent /\ sent'[handler[s].d] = sent[handler[s].d]
            BY <1>2, <1>6, <4>2
          <6>. QED
            BY <1>2, <6>1 DEF EventOf, is_routed_event, Route, github_route, gitlab_route,
                              bitbucket_route
        <5>. QED
          BY <1>2, <3>1, <5>1 DEF Newest
      <4>. QED
        BY <4>1, <4>2
    <3>. QED
      BY <3>1
  <2>2. InOrder'
    BY <1>2, <2>1 DEF SerialInv, InOrder
  <2>3. OnRecord'
    BY <1>2, <1>6, <1>7 DEF SerialInv, OnRecord
  <2>. QED
    BY <2>2, <2>3
<1>9. ReviewsHead'
  <2>1. \A t \in DOMAIN tasks : tasks[t].delivery \in DOMAIN sent /\ tasks[t].head \in Nat
    BY <1>0, <1>6, SerialTypes DEF IntakeInv, TaskOK
  <2>2. pr.head \in Nat /\ pr'.head \in Nat
    <3>1. pr' \in [open : BOOLEAN, head : Heads]
      BY <1>0 DEF Outside
    <3>. QED
      BY <1>0, <3>1, SerialTypes, IntakeBounds DEF Heads
  <2>. QED
    BY <1>2, <1>3, <1>4, <2>1, <2>2 DEF SerialInv, ReviewsHead, Automatic
<1>10. ASSUME settings.strategy = "supersede", NEW e \in deliveries \ skipped,
             sent[e].kind = "update", acted_on(sent[e])
      PROVE  Superseded(e)'
  <2>1. Superseded(e) /\ sent'[e] = sent[e]
    BY <1>2, <1>6, <1>10 DEF SerialInv
  <2>. QED
    BY <1>2, <2>1 DEF Superseded, Automatic, Active
<1>11. \A e \in deliveries : sent'[e] = sent[e] /\ (acted_on(sent[e])' <=> acted_on(sent[e]))
  BY <1>2, <1>6 DEF acted_on
<1>. QED
  BY <1>2, <1>5, <1>8, <1>9, <1>10, <1>11 DEF SerialInv

\* Rows end and start; nothing is revived and nothing cancelled.
LEMMA SerialQueue ==
    ASSUME IntakeInv, SerialInv, Serially',
           left'.redeliveries > 0 => left.redeliveries > 0,
           index_ends \/ \E t \in DOMAIN tasks : quiet_period_ends(t) \/ run_ends(t)
    PROVE  SerialInv'
<1>0. TypeOK /\ Touched
  BY TouchSteps DEF IntakeInv
<1>1. /\ UNCHANGED <<settings, pr, sent, received, deliveries, handler, skipped>>
      /\ DOMAIN tasks' = DOMAIN tasks
      /\ \A t \in DOMAIN tasks :
            /\ tasks'[t].entry = tasks[t].entry /\ tasks'[t].head = tasks[t].head
            /\ tasks'[t].delivery = tasks[t].delivery
  BY <1>0 DEF Touched, Grows
<1>2. ASSUME NEW t \in DOMAIN tasks
      PROVE  /\ tasks'[t].status \in Waiting => tasks[t].status \in Waiting
             /\ tasks'[t].status = "cancelled" => tasks[t].status = "cancelled"
  <2>0. tasks[t] \in Task
    BY <1>0, Types
  <2>1. \/ tasks'[t] = tasks[t]
        \/ tasks[t].status \in Waiting /\ tasks'[t] = [tasks[t] EXCEPT !.status = "queued"]
        \/ tasks'[t] = [tasks[t] EXCEPT !.status = "done"]
        \/ tasks'[t] = [tasks[t] EXCEPT !.delayed = FALSE]
    <3>1. tasks \in Seq(Task)
      BY <1>0, Types
    <3>. QED
      BY <3>1 DEF index_ends, quiet_period_ends, run_ends, Waiting
  <2>2. "done" \notin Waiting /\ "cancelled" \notin Waiting
    BY DEF Waiting
  <2>. QED
    BY <2>0, <2>1, <2>2 DEF Task
<1>3. HeadsRise'
  BY <1>1 DEF SerialInv, HeadsRise, Heading
<1>4. InOrder' /\ OnRecord'
  <2>1. \A s \in Slots : Newest(s)' <=> Newest(s)
    BY <1>1, RoutesStay DEF Newest, EventOf
  <2>2. OnRecord'
    BY <1>1, RoutesStay DEF SerialInv, OnRecord
  <2>. QED
    BY <1>1, <2>1, <2>2 DEF SerialInv, InOrder
<1>5. ReviewsHead'
  BY <1>1, <1>2 DEF SerialInv, ReviewsHead, Heading, Automatic
<1>6. ASSUME settings.strategy = "supersede", NEW e \in deliveries \ skipped,
             sent[e].kind = "update", acted_on(sent[e])
      PROVE  Superseded(e)'
  <2>1. Superseded(e)
    BY <1>6 DEF SerialInv
  <2>. QED
    BY <1>1, <1>2, <2>1 DEF Superseded, Automatic, Active
<1>. QED
  BY <1>1, <1>3, <1>4, <1>5, <1>6 DEF SerialInv, acted_on

\* A row is inserted: a newer head than those of the pushes handled before, and
\* under the supersede strategy its request goes on to cancel.
LEMMA SerialInserted ==
    ASSUME IntakeInv, SerialInv, Serially', NEW s \in Slots, NEW row \in Task, Inserted(s, row),
           left'.redeliveries > 0 => left.redeliveries > 0,
           settings.strategy = "supersede" /\ sent[handler[s].d].kind = "update"
               => handler'[s].pc = "supersede"
    PROVE  SerialInv'
<1>. DEFINE d == handler[s].d
            n == Len(tasks)
<1>0. /\ UNCHANGED <<settings, pr, sent, received, deliveries, skipped>>
      /\ \A u \in Slots \ {s} : handler'[u] = handler[u]
      /\ handler[s].pc \in {"insert", "explicit"} /\ tasks' = Append(tasks, row)
      /\ row.delivery = d /\ row.status # "cancelled"
      /\ row.entry = "mention" => sent[d].kind = "mention"
      /\ row.entry # "mention" => sent[d].kind # "mention" /\ row.head = sent[d].head
      /\ handler'[s] = Idle \/ (handler'[s].pc = "supersede" /\ handler'[s].d = d)
  BY DEF Inserted, Elsewhere
<1>1. /\ "persist" \notin Working /\ "idle" \notin Working /\ Idle.pc = "idle"
      /\ {"insert", "explicit", "supersede"} \subseteq Working
  BY IdleHandler DEF Working
<1>2. TypeOK /\ RequestOK(s)
  BY DEF IntakeInv
<1>3. /\ n \in Nat /\ DOMAIN tasks = 1 .. n /\ DOMAIN tasks' = 1 .. n + 1
      /\ tasks'[n + 1] = row /\ \A t \in DOMAIN tasks : tasks'[t] = tasks[t]
  BY <1>0, <1>2, Types
<1>4. d \in received /\ d \in DOMAIN sent /\ (row.entry # "mention" => Heading(d))
  BY <1>0, <1>1, <1>2, Types DEF RequestOK, Heading
<1>5. HeadsRise'
  BY <1>0 DEF SerialInv, HeadsRise, Heading
<1>6. \A u \in Slots : Newest(u)' => Newest(u) /\ handler'[u].d = handler[u].d
  BY <1>0, <1>1, RoutesStay DEF Newest, EventOf
<1>7. InOrder' /\ OnRecord'
  <2>1. InOrder'
    BY <1>0, <1>1, <1>6 DEF SerialInv, InOrder
  <2>2. \A u \in Slots : handler[u].pc = "persist" => handler'[u] = handler[u]
    BY <1>0
  <2>3. OnRecord'
    BY <1>0, <2>2, RoutesStay DEF SerialInv, OnRecord
  <2>. QED
    BY <2>1, <2>3
<1>8. ReviewsHead'
  <2>1. ASSUME NEW t \in DOMAIN tasks', Automatic(t)'
        PROVE  /\ Heading(tasks[t].delivery)' /\ tasks'[t].head = sent[tasks'[t].delivery].head
               /\ tasks'[t].status = "cancelled" => ~pr.open \/ tasks'[t].head < pr.head
    <3>1. CASE t \in DOMAIN tasks
      BY <1>0, <1>3, <2>1, <3>1 DEF SerialInv, ReviewsHead, Heading, Automatic
    <3>2. CASE t = n + 1
      <4>1. tasks'[t] = row /\ row.entry # "mention"
        BY <1>3, <2>1, <3>2 DEF Automatic
      <4>. QED
        BY <1>0, <1>4, <4>1 DEF Heading
    <3>. QED
      BY <1>3, <3>1, <3>2
  <2>. QED
    BY <1>0, <2>1 DEF ReviewsHead, Heading
<1>9. ASSUME settings.strategy = "supersede", NEW e \in deliveries \ skipped,
             sent[e].kind = "update", acted_on(sent[e])
      PROVE  Superseded(e)'
  <2>1. CASE e = d
    <3>1. row.entry # "mention" /\ handler'[s].pc = "supersede"
      BY <1>0, <1>9, <2>1
    <3>. QED
      BY <1>0, <1>1, <2>1, <3>1 DEF Superseded
  <2>2. CASE e # d
    <3>1. Superseded(e)
      BY <1>9 DEF SerialInv
    <3>2. ASSUME row.entry # "mention" PROVE sent[e].head <= row.head
      <4>1. e \in received /\ e \in 1 .. Len(sent) /\ d \in 1 .. Len(sent) /\ Len(sent) \in Nat
            /\ sent[e].head \in Nat /\ sent[d].head \in Nat
        BY <1>2, <1>4, Types, SerialTypes
      <4>2. e <= d
        BY <1>0, <1>1, <4>1 DEF SerialInv, InOrder, Newest
      <4>3. sent[e].head < sent[d].head
        <5>1. Heading(e) /\ Heading(d) /\ e \in 1 .. d - 1
          BY <1>4, <1>9, <2>2, <3>2, <4>1, <4>2 DEF Heading
        <5>. QED
          BY <1>4, <5>1 DEF SerialInv, HeadsRise
      <4>. QED
        BY <1>0, <3>2, <4>1, <4>3
    <3>3. ASSUME \A t \in DOMAIN tasks : Automatic(t) /\ Active(t) => sent[e].head <= tasks[t].head,
                 NEW t \in DOMAIN tasks', Automatic(t)', Active(t)'
          PROVE  sent[e].head <= tasks'[t].head
      <4>1. CASE t \in DOMAIN tasks
        BY <1>3, <3>3, <4>1 DEF Automatic, Active
      <4>2. CASE t = n + 1
        BY <1>3, <3>2, <3>3, <4>2 DEF Automatic
      <4>. QED
        BY <1>3, <4>1, <4>2
    <3>4. \A u \in Slots : handler[u].d = e => u # s /\ handler'[u] = handler[u]
      BY <1>0, <2>2
    <3>. QED
      BY <1>0, <3>1, <3>3, <3>4 DEF Superseded
  <2>. QED
    BY <2>1, <2>2
<1>. QED
  BY <1>0, <1>5, <1>7, <1>8, <1>9 DEF SerialInv, acted_on

\* The cancelling statements: a push cancels the reviews of the heads below its
\* own, and what it leaves to run is above every push handled before.
LEMMA SerialSwept ==
    ASSUME IntakeInv, SerialInv, Serially', NEW s \in Slots,
           left'.redeliveries > 0 => left.redeliveries > 0,
           supersede_older_reviews(s) \/ cancel_active_tasks_for_pr(s)
    PROVE  SerialInv'
<1>. DEFINE d == handler[s].d
<1>0. TypeOK /\ RequestOK(s) /\ ClosedStays
  BY DEF IntakeInv
<1>1. Swept(s)
  BY <1>0, SweepSteps
<1>2. /\ UNCHANGED <<settings, pr, sent, received, deliveries, skipped>>
      /\ \A u \in Slots \ {s} : handler'[u] = handler[u]
      /\ handler[s].pc \in {"supersede", "cancel"} /\ handler'[s] = Idle
      /\ DOMAIN tasks' = DOMAIN tasks
      /\ \A t \in DOMAIN tasks :
            /\ tasks'[t].entry = tasks[t].entry /\ tasks'[t].head = tasks[t].head
            /\ tasks'[t].delivery = tasks[t].delivery
  BY <1>1 DEF Swept, Elsewhere, Grows
<1>3. /\ "persist" \notin Working /\ "idle" \notin Working /\ Idle.pc = "idle"
      /\ {"supersede", "cancel"} \subseteq Working
  BY IdleHandler DEF Working
<1>4. d \in received /\ d \in 1 .. Len(sent) /\ Len(sent) \in Nat /\ sent[d].head \in Nat
      /\ pr.head \in Nat /\ DOMAIN sent = 1 .. Len(sent)
  BY <1>0, <1>2, Types, SerialTypes DEF RequestOK
<1>5. \A e \in received : e <= d /\ e \in 1 .. Len(sent) /\ sent[e].head \in Nat
  BY <1>0, <1>2, <1>3, Types, SerialTypes DEF SerialInv, InOrder, Newest
<1>6. ASSUME NEW e \in received, Heading(e), Heading(d), e # d
      PROVE  sent[e].head < sent[d].head
  BY <1>4, <1>5, <1>6 DEF SerialInv, HeadsRise
<1>7. ASSUME NEW t \in DOMAIN tasks, Automatic(t)
      PROVE  /\ Active(t)' => Active(t)
             /\ handler[s].pc = "supersede" /\ Active(t)' => tasks[t].head = sent[d].head
             /\ tasks'[t].status = "cancelled" => \/ tasks[t].status = "cancelled" \/ ~pr.open
                                                  \/ tasks[t].head < pr.head
  <2>0. tasks[t] \in Task
    BY <1>0, Types
  <2>1. "cancelled" \notin Waiting
    BY DEF Waiting
  <2>2. CASE supersede_older_reviews(s)
    <3>1. handler[s].pc = "supersede" /\ handler[s].head = sent[d].head /\ Heading(d)
      BY <1>0, <2>2 DEF supersede_older_reviews, RequestOK, Heading
    <3>2. tasks'[t] = IF Active(t) /\ tasks[t].head # sent[d].head
                      THEN [tasks[t] EXCEPT !.status = "cancelled"] ELSE tasks[t]
      BY <1>7, <2>2, <3>1 DEF supersede_older_reviews, Cancel
    <3>3. ASSUME tasks[t].head # sent[d].head PROVE tasks[t].head < pr.head
      <4>1. tasks[t].delivery \in received /\ Heading(tasks[t].delivery)
            /\ tasks[t].head = sent[tasks[t].delivery].head
        BY <1>0, <1>7, Types DEF IntakeInv, TaskOK, SerialInv, ReviewsHead
      <4>2. tasks[t].head < sent[d].head /\ tasks[t].head \in Nat
        BY <1>5, <1>6, <3>1, <3>3, <4>1
      <4>3. sent[d].head <= pr.head
        BY <1>4, <3>1 DEF SerialInv, HeadsRise
      <4>. QED
        BY <1>4, <4>2, <4>3
    <3>. QED
      BY <2>0, <2>1, <3>1, <3>2, <3>3 DEF Active, Task
  <2>3. CASE cancel_active_tasks_for_pr(s)
    <3>1. ~pr.open /\ handler[s].pc = "cancel"
      BY <1>0, <2>3, Types DEF cancel_active_tasks_for_pr, RequestOK, ClosedStays
    <3>2. tasks'[t] = tasks[t] \/ tasks'[t] = [tasks[t] EXCEPT !.status = "cancelled"]
      BY <2>3 DEF cancel_active_tasks_for_pr, Cancel
    <3>. QED
      BY <2>0, <2>1, <3>1, <3>2 DEF Active, Task
  <2>. QED
    BY <2>2, <2>3
<1>8. HeadsRise'
  BY <1>2 DEF SerialInv, HeadsRise, Heading
<1>9. InOrder' /\ OnRecord'
  <2>1. \A u \in Slots : Newest(u)' => Newest(u) /\ handler'[u].d = handler[u].d
    BY <1>2, <1>3, RoutesStay DEF Newest, EventOf
  <2>2. InOrder'
    BY <1>2, <1>3, <2>1 DEF SerialInv, InOrder
  <2>3. \A u \in Slots : handler[u].pc = "persist" => handler'[u] = handler[u]
    BY <1>2
  <2>4. OnRecord'
    BY <1>2, <2>3, RoutesStay DEF SerialInv, OnRecord
  <2>. QED
    BY <2>2, <2>4
<1>10. ReviewsHead'
  <2>1. \A t \in DOMAIN tasks : Automatic(t)' <=> Automatic(t)
    BY <1>2 DEF Automatic
  <2>. QED
    BY <1>2, <1>7, <2>1 DEF SerialInv, ReviewsHead, Heading
<1>11. ASSUME settings.strategy = "supersede", NEW e \in deliveries \ skipped,
              sent[e].kind = "update", acted_on(sent[e])
       PROVE  Superseded(e)'
  <2>0. e \in received /\ Heading(e)
    BY <1>0, <1>11, Types DEF Heading
  <2>1. \A t \in DOMAIN tasks : Automatic(t)' <=> Automatic(t)
    BY <1>2 DEF Automatic
  <2>2. CASE handler[s].pc = "supersede"
    <3>1. Heading(d)
      BY <1>0, <2>2 DEF RequestOK, Heading
    <3>2. sent[e].head <= sent[d].head
      BY <1>4, <1>5, <1>6, <2>0, <3>1
    <3>. QED
      BY <1>2, <1>7, <2>1, <2>2, <3>2 DEF Superseded
  <2>3. CASE handler[s].pc = "cancel"
    <3>1. Superseded(e) /\ e # d
      BY <1>0, <1>11, <2>3 DEF SerialInv, RequestOK
    <3>2. \A u \in Slots : handler[u].d = e => handler'[u] = handler[u]
      BY <1>2, <3>1
    <3>. QED
      BY <1>2, <1>7, <2>1, <3>1, <3>2 DEF Superseded
  <2>. QED
    BY <1>2, <2>2, <2>3
<1>. QED
  BY <1>2, <1>8, <1>9, <1>10, <1>11 DEF SerialInv, acted_on

\* Every step of a request, whatever it handles.
LEMMA SerialRequest ==
    ASSUME IntakeInv, SerialInv, Serially', left'.redeliveries > 0 => left.redeliveries > 0,
           NEW s \in Slots, Request(s)
    PROVE  SerialInv'
<1>0. /\ TypeOK /\ RequestOK(s) /\ RequestEpochOK(s) /\ ClosedStays
      /\ \A t \in DOMAIN tasks : TaskEpochOK(t)
  BY DEF IntakeInv
<1>1. ASSUME Forward(s) PROVE SerialInv'
  BY <1>1, SerialForward DEF Forward
<1>2. ASSUME Left(s), handler[s].pc \in Working \ {"supersede"} PROVE SerialInv'
  <2>1. handler[s].pc # "persist" /\ skipped \subseteq skipped'
        /\ (handler[s].d \in skipped' \/ Answered(handler[s].d))
    BY <1>2 DEF Left, Working
  <2>. QED
    BY <1>2, <2>1, SerialForward DEF Left
<1>3. CASE verified_payload(s) \/ persist_delivery(s)
  <2>1. CASE verified_payload(s)
    <3>1. Elsewhere(s) /\ handler'[s] = Idle /\ handler[s].pc = "persist"
          /\ UNCHANGED <<received, deliveries, tasks, skipped>>
      BY <1>0, <2>1, Types, FinishStep DEF verified_payload, Elsewhere, stepVars, platformVars
    <3>2. ~is_routed_event(EventOf(s))
      <4>1. EventOf(s).kind = "unsigned"
        BY <2>1 DEF verified_payload
      <4>2. settings.platform \in Platforms
        BY <1>0, Types DEF Settings
      <4>. QED
        BY <4>1, <4>2 DEF is_routed_event, Route, github_route, gitlab_route, bitbucket_route,
                          PullRequestKinds, PushKinds, CommentKinds, Platforms
    <3>. QED
      BY <3>1, <3>2, SerialRefused
  <2>2. CASE persist_delivery(s) /\ ~(is_routed_event(EventOf(s)) /\ handler[s].d \notin deliveries)
    <3>1. Elsewhere(s) /\ handler'[s] = Idle /\ handler[s].pc = "persist"
          /\ UNCHANGED <<received, deliveries, tasks, skipped>>
      BY <1>0, <2>2, Types, FinishStep DEF persist_delivery, Elsewhere, stepVars, platformVars
    <3>. QED
      BY <2>2, <3>1, SerialRefused
  <2>3. CASE persist_delivery(s) /\ is_routed_event(EventOf(s)) /\ handler[s].d \notin deliveries
    <3>1. "route" \in Working
      BY DEF Working
    <3>2. /\ handler[s].pc = "persist" /\ Goto(s, "route")
          /\ deliveries' = deliveries \cup {handler[s].d} /\ skipped' = skipped \ {handler[s].d}
          /\ UNCHANGED <<settings, pr, sent, left, approved, indexing, received, tasks>>
      BY <2>3 DEF persist_delivery, stepVars, platformVars
    <3>3. Recorded(s)
      BY <1>0, <2>3, <3>1, <3>2, Types, GotoStep DEF Recorded, Elsewhere
    <3>. QED
      BY <2>3, <3>3, SerialRecorded
  <2>. QED
    BY <1>3, <2>1, <2>2, <2>3, Zenon
<1>4. CASE route_github_event(s) \/ gitlab_webhook_body(s) \/ bitbucket_webhook_body(s)
  <2>1. handler[s].pc \in Working \ {"supersede"}
    BY <1>4 DEF route_github_event, gitlab_webhook_body, bitbucket_webhook_body, Working
  <2>. QED
    BY <1>0, <1>1, <1>2, <1>4, <2>1, RouteSteps
<1>5. CASE Handle(s)
  <2>1. handler[s].pc \in Working \ {"supersede"}
    BY <1>5 DEF Handle, handle_pull_request, handle_gitlab_merge_request,
                handle_bitbucket_pullrequest, handle_push, handle_gitlab_push,
                handle_bitbucket_push, handle_issue_comment, handle_gitlab_note,
                handle_bitbucket_comment, Handling, Working
  <2>. QED
    BY <1>0, <1>1, <1>2, <1>5, <2>1, HandleSteps
<1>6. CASE pr_shas(s)
  BY <1>0, <1>1, <1>6, ShasStep
<1>7. CASE create_index_task(s)
  <2>1. handler[s].pc \in Working \ {"supersede"}
    BY <1>7 DEF create_index_task, Working
  <2>. QED
    BY <1>0, <1>2, <1>7, <2>1, IndexStep
<1>8. CASE create_task(s)
  <2>1. handler[s].pc \in Working \ {"supersede"}
    BY <1>8 DEF create_task, Working
  <2>2. ASSUME NEW row \in Task, Inserted(s, row), settings.strategy = "supersede",
               sent[handler[s].d].kind = "update"
        PROVE  handler'[s].pc = "supersede"
    <3>1. tasks' # tasks
      <4>1. tasks \in Seq(Task) /\ tasks' = Append(tasks, row)
        BY <1>0, <2>2, Types DEF Inserted
      <4>2. Len(tasks') # Len(tasks)
        BY <4>1, AppendProperties
      <4>. QED
        BY <4>2, Zenon
    <3>2. Goto(s, "supersede")
      <4>1. is_sync(EventOf(s))
        BY <2>2 DEF is_sync, EventOf
      <4>. QED
        BY <1>8, <2>2, <3>1, <4>1 DEF create_task
    <3>3. "supersede" \in Working
      BY DEF Working
    <3>. QED
      BY <1>0, <3>2, <3>3, GotoStep, Types
  <2>3. ASSUME NEW row \in Task, Inserted(s, row) PROVE SerialInv'
    BY <2>2, <2>3, SerialInserted
  <2>. QED
    BY <1>0, <1>2, <1>8, <2>1, <2>3, CreateStep
<1>9. CASE supersede_older_reviews(s) \/ cancel_active_tasks_for_pr(s)
  BY <1>9, SerialSwept
<1>10. CASE next_epoch(s)
  BY <1>0, <1>1, <1>10, EpochStep
<1>11. CASE create_explicit_task(s)
  <2>1. handler[s].pc \in Working \ {"supersede"}
    BY <1>11 DEF create_explicit_task, Working
  <2>2. sent[handler[s].d].kind = "mention"
    BY <1>0, <1>11 DEF create_explicit_task, RequestOK
  <2>3. ASSUME NEW row \in Task, Inserted(s, row) PROVE SerialInv'
    <3>1. sent[handler[s].d].kind # "update"
      BY <2>2
    <3>. QED
      BY <2>3, <3>1, SerialInserted
  <2>. QED
    BY <1>0, <1>1, <1>2, <1>11, <2>1, <2>3, ExplicitStep
<1>. QED
  BY <1>3, <1>4, <1>5, <1>6, <1>7, <1>8, <1>9, <1>10, <1>11, Zenon DEF Request

\* The invariant of a repository whose requests run one at a time and in order.
THEOREM SerialInvariant == Spec /\ Serially => []SerialInv
<1>1. Init /\ Serially => SerialInv
  BY SerialInit
<1>2. IntakeInv /\ SerialInv /\ [Next]_vars => SerialInv'
  <2>. SUFFICES ASSUME IntakeInv, SerialInv, [Next]_vars PROVE SerialInv'
    OBVIOUS
  <2>0. TypeOK /\ Serially
    BY DEF IntakeInv, SerialInv
  <2>1. /\ Serially' /\ ~pr_reset /\ settings' = settings
        /\ left'.redeliveries > 0 => left.redeliveries > 0
    BY <2>0, SeriallyStays
  <2>2. CASE pr_push \/ pr_close \/ pr_mention \/ pr_noise \/ base_push \/ deny
    BY <2>1, <2>2, SerialOutside
  <2>3. CASE index_ends \/ \E t \in DOMAIN tasks : quiet_period_ends(t) \/ run_ends(t)
    BY <2>1, <2>3, SerialQueue
  <2>4. ASSUME NEW s \in Slots, Request(s) PROVE SerialInv'
    BY <2>1, <2>4, SerialRequest
  <2>5. ASSUME NEW s \in Slots, request_fails(s) PROVE SerialInv'
    <3>0. Left(s) /\ skipped' = skipped \cup {handler[s].d} /\ left.faults > 0
      BY <2>0, <2>5, FailStep DEF request_fails, Skip, Spend
    <3>1. left.redeliveries = 0
      BY <2>0, <3>0 DEF Serially
    <3>2. handler[s].pc \in Working \/ handler[s].pc = "persist"
      BY <2>0, <2>5, Types DEF request_fails, Handler
    <3>3. CASE handler[s].pc \in Working
      BY <2>1, <3>0, <3>3, SerialForward DEF Left
    <3>4. CASE handler[s].pc = "persist"
      BY <2>1, <3>0, <3>1, <3>4, SerialRefused DEF Left
    <3>. QED
      BY <3>2, <3>3, <3>4
  <2>6. ASSUME NEW s \in Slots, NEW d \in DOMAIN sent, receive(s, d) PROVE SerialInv'
    BY <2>1, <2>6, SerialReceived
  <2>7. CASE UNCHANGED vars
    <3>1. UNCHANGED <<settings, pr, sent, left, received, deliveries, handler, tasks, skipped>>
      BY <2>7 DEF vars, platformVars
    <3>2. \A u \in Slots : Newest(u)' <=> Newest(u)
      BY <3>1, RoutesStay DEF Newest, EventOf
    <3>3. InOrder' /\ HeadsRise' /\ ReviewsHead'
      BY <3>1, <3>2 DEF SerialInv, InOrder, HeadsRise, ReviewsHead, Heading, Automatic
    <3>4. OnRecord'
      BY <3>1, RoutesStay DEF SerialInv, OnRecord
    <3>5. \A e \in deliveries : Superseded(e)' <=> Superseded(e)
      BY <3>1 DEF Superseded, Automatic, Active
    <3>. QED
      BY <2>1, <3>1, <3>3, <3>4, <3>5 DEF SerialInv, acted_on
  <2>. QED
    BY <2>1, <2>2, <2>3, <2>4, <2>5, <2>6, <2>7, Zenon DEF Next
<1>. QED
  BY <1>1, <1>2, IntakeInvariant, PTL DEF Spec

\* Where requests are handled one at a time and in order, a push under the
\* supersede strategy leaves no automatic review of an older head to run once it is
\* handled: the newer head's row is inserted before the older rows are cancelled.
THEOREM SupersededReviewsStop == Spec /\ Serially => []SupersededStops
<1>1. IntakeInv /\ SerialInv => SupersededStops
  <2>1. SUFFICES ASSUME IntakeInv, SerialInv, Quiet, settings.strategy = "supersede",
                        NEW d \in deliveries \ skipped, sent[d].kind = "update",
                        acted_on(sent[d]), sent[d].head = pr.head,
                        NEW t \in DOMAIN tasks, Automatic(t), Active(t)
                 PROVE  tasks[t].head = pr.head
    BY DEF SupersededStops
  <2>2. TypeOK /\ tasks[t].delivery \in DOMAIN sent
    BY <2>1, Types DEF IntakeInv, TaskOK
  <2>3. tasks[t].head <= pr.head
    BY <2>1, <2>2 DEF SerialInv, ReviewsHead, HeadsRise
  <2>4. pr.head <= tasks[t].head
    <3>1. Superseded(d) /\ \A s \in Slots : handler[s].pc \notin Working
      BY <2>1 DEF SerialInv, Quiet, Working
    <3>. QED
      BY <2>1, <3>1 DEF Superseded
  <2>. QED
    BY <2>2, <2>3, <2>4, SerialTypes
<1>. QED
  BY <1>1, IntakeInvariant, SerialInvariant, PTL

\* There the newest head of an open pull request keeps its review, under the
\* supersede strategy too: a push cancels only the reviews of heads below its own.
THEOREM NewestHeadsKept == Spec /\ Serially => []NewestHeadReviewed
<1>1. IntakeInv /\ SerialInv => NewestHeadReviewed
  <2>1. SUFFICES ASSUME IntakeInv, SerialInv, Quiet, pr.open,
                        NEW d \in deliveries \ skipped, Announces(d), acted_on(sent[d])
                 PROVE  \E t \in DOMAIN tasks :
                          Automatic(t) /\ tasks[t].head = pr.head /\ tasks[t].status # "cancelled"
    BY DEF NewestHeadReviewed
  <2>2. PICK t \in DOMAIN tasks : tasks[t].entry # "mention" /\ tasks[t].head = sent[d].head
    BY <2>1, QuietAnswers DEF Answered
  <2>3. TypeOK /\ tasks[t] \in Task /\ pr.head \in Nat
    BY <2>1, Types, SerialTypes DEF IntakeInv
  <2>4. Automatic(t) /\ tasks[t].head = pr.head
    BY <2>1, <2>2, <2>3 DEF Automatic, Task, Announces
  <2>5. tasks[t].status # "cancelled"
    BY <2>1, <2>3, <2>4 DEF SerialInv, ReviewsHead
  <2>. QED
    BY <2>4, <2>5
<1>. QED
  BY <1>1, IntakeInvariant, SerialInvariant, PTL

=============================================================================
