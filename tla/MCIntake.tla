----------------------------- MODULE MCIntake -----------------------------
(* Small repositories for Intake: who configured what, and what happens. *)
EXTENDS Intake

Quietly == [pushes |-> 0, resets |-> 0, mentions |-> 0, closes |-> 0, noise |-> 0,
            redeliveries |-> 0, faults |-> 0, indexes |-> 0, denials |-> 0]

Defaults == [platform |-> "gitlab", strategy |-> "every",
             review_on_pr_open |-> TRUE, review_on_push |-> TRUE,
             bot |-> FALSE, draft |-> FALSE, slots |-> 2, fifo |-> FALSE]

World(s, b) == [settings |-> s, left |-> b]

\* Pushes handled one at a time, in order, beside an index and a mention.
Serial(strategy) ==
    World([Defaults EXCEPT !.strategy = strategy, !.slots = 1, !.fifo = TRUE],
          [Quietly EXCEPT !.pushes = 2, !.mentions = 1, !.indexes = 1, !.closes = 1])

\* Requests overlapping, reordered, repeated and dropped.
Overlapping(platform, strategy) ==
    World([Defaults EXCEPT !.platform = platform, !.strategy = strategy],
          [Quietly EXCEPT !.pushes = 1, !.mentions = 1, !.redeliveries = 1,
                          !.faults = 1, !.closes = 1])

\* A forced push puts back a commit that has its review already.
PutBack(strategy) ==
    World([Defaults EXCEPT !.strategy = strategy, !.fifo = TRUE],
          [Quietly EXCEPT !.pushes = 1, !.resets = 1])

\* Equal mentions, up to one more than create_explicit_task makes attempts.
Mentions == World([Defaults EXCEPT !.platform = "github", !.slots = 3],
                  [Quietly EXCEPT !.mentions = 3, !.redeliveries = 1])

\* The gates of an automatic review.
Gated == {World([Defaults EXCEPT !.platform = p, !.bot = b, !.draft = d,
                                 !.review_on_pr_open = o, !.review_on_push = u],
                [Quietly EXCEPT !.pushes = 1, !.denials = 1]) :
             p \in Platforms, b, d, o, u \in BOOLEAN}

\* Events nothing acts on, beside a push to the default branch and a mention.
Noisy == {World([Defaults EXCEPT !.platform = p, !.slots = 1, !.fifo = TRUE],
                [Quietly EXCEPT !.pushes = 1, !.noise = 1, !.mentions = 1,
                                !.indexes = 1, !.denials = 1]) : p \in Platforms}

AllWorlds == {Serial(s) : s \in Strategies}
             \cup {Overlapping(p, "every") : p \in Platforms}
             \cup {Overlapping("gitlab", "debounce")}
             \cup {PutBack("every"), Mentions} \cup Gated \cup Noisy

\* Superseding pushes one at a time and in order, with requests lost or repeated.
Orderly == {World([Defaults EXCEPT !.strategy = "supersede", !.slots = 1, !.fifo = TRUE],
                  [Quietly EXCEPT !.pushes = 2, !.mentions = 1, !.closes = 1,
                                  !.faults = f, !.redeliveries = 1 - f]) : f \in {0, 1}}

\* Two pushes of a superseding repository, handled at the same time.
Storm == {World([Defaults EXCEPT !.strategy = "supersede", !.fifo = TRUE],
                [Quietly EXCEPT !.pushes = 2])}

\* The commit put back had its review superseded.
Returned == {PutBack("supersede")}

GithubPush == {World([Defaults EXCEPT !.platform = "github", !.fifo = TRUE],
                     [Quietly EXCEPT !.pushes = 1])}

CloseWhileIndexing == {World([Defaults EXCEPT !.slots = 1],
                             [Quietly EXCEPT !.closes = 1, !.indexes = 1])}

DroppedMention == {World([Defaults EXCEPT !.slots = 1, !.fifo = TRUE],
                         [Quietly EXCEPT !.mentions = 1, !.faults = 1,
                                         !.redeliveries = 1])}
=============================================================================
